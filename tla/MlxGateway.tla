----------------------------- MODULE MlxGateway -----------------------------
(***************************************************************************)
(* The request path of mlx-gateway/server.mjs: one Node process that reads *)
(* a request body, queues inference requests behind parallelLimit slots,   *)
(* forwards them to SwiftLM, copies the answer to the client, and writes   *)
(* one terminal line per request to the request log.                       *)
(*                                                                         *)
(* JavaScript runs each callback to completion, so an action here is one   *)
(* callback: everything it does before it returns, the trailing drainQueue *)
(* included, is a single step.  What interleaves are the callbacks: body   *)
(* events, upstream events, the client closing its socket, signals.        *)
(***************************************************************************)
EXTENDS Integers, Sequences, FiniteSets

CONSTANTS
  Inference,      \* requests for /v1/chat/completions or /v1/completions
  Others,         \* requests for any other forwarded path
  parallelLimit,  \* PARALLEL_REQUESTS
  WantsMetrics,   \* requests sent with x-mlx-include-metrics: 1
  AgentMode       \* TRUE once join.mjs has written enrollment state

ASSUME LimitAssumption == parallelLimit \in Nat \ {0}
ASSUME RequestsAssumption == Inference \cap Others = {}
ASSUME AgentAssumption == AgentMode \in BOOLEAN

Requests == Inference \cup Others

VARIABLES
  process,   \* "up", "draining" (after SIGTERM/SIGINT) or "down"
  stage,     \* how far the request handler has got with a request
  client,    \* the response object: "none", "open", "ended" or "closed"
  head,      \* the response head sent: "none", "ok", "error" or "gateway"
  upstream,  \* the request to SwiftLM
  queue,     \* jobs waiting for a slot, in arrival order
  running,   \* jobs that hold a slot
  finished,  \* job.finished
  cancelled, \* job.cancelled
  record,    \* the terminal lines written for a request, oldest first
  metrics    \* requests whose client was sent the mlx-metrics event

vars == <<process, stage, client, head, upstream, queue, running,
          finished, cancelled, record, metrics>>

Stages    == {"idle", "body", "job", "proxied", "refused"}
Upstreams == {"none", "sent", "streaming", "paused",
              "hangup", "destroyed", "aborted", "over", "gone"}
Events    == {"completed", "failed", "cancelled"}

\* An upstream request that can still deliver a response, data or an end.
Live == {"sent", "streaming", "paused"}

Init == /\ process = "up"
        /\ stage = [r \in Requests |-> "idle"]
        /\ client = [r \in Requests |-> "none"]
        /\ head = [r \in Requests |-> "none"]
        /\ upstream = [r \in Requests |-> "none"]
        /\ queue = <<>>
        /\ running = {}
        /\ finished = {}
        /\ cancelled = {}
        /\ record = [r \in Requests |-> <<>>]
        /\ metrics = {}

-----------------------------------------------------------------------------
(* Queue and slots.                                                        *)

Elems(q) == {q[i] : i \in 1..Len(q)}
Distinct(q) == \A i, k \in 1..Len(q) : q[i] = q[k] => i = k

\* The jobs startUpstream starts among the first n of q; it skips a job that
\* is already cancelled or finished.
Started(q, n, gone) == {q[i] : i \in 1..n} \ gone

\* Mutant: "<=" instead of "<" in the loop's test.
DrainStops_OffByOne(q, slots, gone, n) ==
  /\ \A k \in 0..(n - 1) :
       Cardinality(slots \cup Started(q, k, gone)) <= parallelLimit
  /\ n < Len(q) =>
       Cardinality(slots \cup Started(q, n, gone)) > parallelLimit

\* The drainQueue loop shifts exactly n jobs off q: a slot was free before
\* each of them, and after the last the slots are full or q is exhausted.
DrainStops(q, slots, gone, n) ==
  /\ \A k \in 0..(n - 1) :
       Cardinality(slots \cup Started(q, k, gone)) < parallelLimit
  /\ n < Len(q) =>
       Cardinality(slots \cup Started(q, n, gone)) >= parallelLimit

DrainQueue(q, slots, gone, conns) ==
  \E n \in 0..Len(q) :
    /\ DrainStops(q, slots, gone, n)
    /\ queue' = SubSeq(q, n + 1, Len(q))
    /\ running' = slots \cup Started(q, n, gone)
    /\ upstream' = [r \in Requests |->
                      IF r \in Started(q, n, gone) THEN "sent" ELSE conns[r]]

\* Mutant: no early return for a job that is already finished.
FinishJob_Again(r, event, q, conns) ==
  /\ finished' = finished \cup {r}
  /\ record' = [record EXCEPT ![r] = Append(@, event)]
  /\ DrainQueue(q, running \ {r}, cancelled' \cup finished', conns)

\* Mutant: the slot is freed but drainQueue is not called.
FinishJob_NoDrain(r, event, q, conns) ==
  /\ queue' = q
  /\ upstream' = conns
  /\ IF r \in finished
     THEN UNCHANGED <<running, finished, record>>
     ELSE /\ finished' = finished \cup {r}
          /\ record' = [record EXCEPT ![r] = Append(@, event)]
          /\ running' = running \ {r}

\* finishJob: only the first call for a job records it, frees its slot and
\* drains; q and conns are the queue and connections the caller leaves.
FinishJob(r, event, q, conns) ==
  \/ /\ r \in finished
     /\ queue' = q
     /\ upstream' = conns
     /\ UNCHANGED <<running, finished, record>>
  \/ /\ r \notin finished
     /\ finished' = finished \cup {r}
     /\ record' = [record EXCEPT ![r] = Append(@, event)]
     /\ DrainQueue(q, running \ {r}, cancelled' \cup finished', conns)

\* Mutant: the close handler leaves the job in the queue.
Without_Kept(q, r) == q

\* queue.splice(queue.indexOf(job), 1), or nothing when it is not queued.
Without(q, r) ==
  IF \E i \in 1..Len(q) : q[i] = r
  THEN LET i == CHOOSE k \in 1..Len(q) :
                  q[k] = r /\ \A m \in 1..(k - 1) : q[m] # r
       IN  SubSeq(q, 1, i - 1) \o SubSeq(q, i + 1, Len(q))
  ELSE q

-----------------------------------------------------------------------------
(* The request handler, up to the point where the request is a job.        *)

\* The handler is awaiting collectBody on a live connection.
ReadingBody(r) == process # "down" /\ stage[r] = "body" /\ client[r] = "open"

Arrive(r) ==
  /\ process = "up"
  /\ stage[r] = "idle"
  /\ stage' = [stage EXCEPT ![r] = "body"]
  /\ client' = [client EXCEPT ![r] = "open"]
  /\ UNCHANGED <<process, head, upstream, queue, running, finished,
                 cancelled, record, metrics>>

\* collectBody rejects: the body is over maxBodyBytes and the catch answers
\* 413 ("failed"), or the client aborted and there is nobody to answer.
BodyRejected(r) ==
  /\ ReadingBody(r)
  /\ stage' = [stage EXCEPT ![r] = "refused"]
  /\ \/ /\ client' = [client EXCEPT ![r] = "ended"]
        /\ head' = [head EXCEPT ![r] = "gateway"]
        /\ record' = [record EXCEPT ![r] = Append(@, "failed")]
     \/ /\ client' = [client EXCEPT ![r] = "closed"]
        /\ record' = [record EXCEPT ![r] = Append(@, "cancelled")]
        /\ UNCHANGED head
  /\ UNCHANGED <<process, upstream, queue, running, finished, cancelled,
                 metrics>>

\* verifyGatewayRequest refuses an enrolled gateway's request: a 401 that is
\* not recorded.
SignatureRefused(r) ==
  /\ ReadingBody(r)
  /\ AgentMode
  /\ stage' = [stage EXCEPT ![r] = "refused"]
  /\ client' = [client EXCEPT ![r] = "ended"]
  /\ head' = [head EXCEPT ![r] = "gateway"]
  /\ UNCHANGED <<process, upstream, queue, running, finished, cancelled,
                 record, metrics>>

\* Mutant: queue.unshift(job).
Enqueue_Front(r) ==
  /\ ReadingBody(r)
  /\ r \in Inference
  /\ stage' = [stage EXCEPT ![r] = "job"]
  /\ DrainQueue(<<r>> \o queue, running, cancelled \cup finished, upstream)
  /\ UNCHANGED <<process, client, head, finished, cancelled, record, metrics>>

Enqueue(r) ==
  /\ ReadingBody(r)
  /\ r \in Inference
  /\ stage' = [stage EXCEPT ![r] = "job"]
  /\ DrainQueue(Append(queue, r), running, cancelled \cup finished, upstream)
  /\ UNCHANGED <<process, client, head, finished, cancelled, record, metrics>>

ProxyUnqueued(r) ==
  /\ ReadingBody(r)
  /\ r \in Others
  /\ stage' = [stage EXCEPT ![r] = "proxied"]
  /\ upstream' = [upstream EXCEPT ![r] = "sent"]
  /\ UNCHANGED <<process, client, head, queue, running, finished, cancelled,
                 record, metrics>>

-----------------------------------------------------------------------------
(* Upstream events.                                                        *)

\* Mutant: "|| 502" is missing, so a response without a status has none.
UpstreamResponse_NoDefault(r) ==
  /\ process # "down"
  /\ upstream[r] = "sent"
  /\ upstream' = [upstream EXCEPT ![r] = "streaming"]
  /\ \E status \in {"ok", "error", "undefined"} :
       head' = [head EXCEPT ![r] =
                  IF @ = "none" /\ client[r] = "open" THEN status ELSE @]
  /\ UNCHANGED <<process, stage, client, queue, running, finished, cancelled,
                 record, metrics>>

\* SwiftLM's response head; it is copied unless one has gone out already.
UpstreamResponse(r) ==
  /\ process # "down"
  /\ upstream[r] = "sent"
  /\ upstream' = [upstream EXCEPT ![r] = "streaming"]
  /\ \E status \in {"ok", "error"} :
       head' = [head EXCEPT ![r] =
                  IF @ = "none" /\ client[r] = "open" THEN status ELSE @]
  /\ UNCHANGED <<process, stage, client, queue, running, finished, cancelled,
                 record, metrics>>

\* A chunk fills the client's socket buffer: response.write returns FALSE
\* and the upstream response is paused until "drain".
UpstreamPaused(r) ==
  /\ process # "down"
  /\ upstream[r] = "streaming"
  /\ client[r] = "open"
  /\ upstream' = [upstream EXCEPT ![r] = "paused"]
  /\ UNCHANGED <<process, stage, client, head, queue, running, finished,
                 cancelled, record, metrics>>

ClientDrain(r) ==
  /\ process # "down"
  /\ upstream[r] = "paused"
  /\ client[r] = "open"
  /\ upstream' = [upstream EXCEPT ![r] = "streaming"]
  /\ UNCHANGED <<process, stage, client, head, queue, running, finished,
                 cancelled, record, metrics>>

\* Mutant: the status code is not looked at.
EndOf_AlwaysCompleted(r) == "completed"

EndOf(r) == IF head[r] = "ok" THEN "completed" ELSE "failed"

\* response.end(), where the code guards it with destroyed and writableEnded.
Ended(r) == [client EXCEPT ![r] = IF @ = "open" THEN "ended" ELSE @]

\* Mutant: a response that got the metrics event is not ended.
JobEnd_NoEndAfterMetrics(r) ==
  /\ process # "down"
  /\ stage[r] = "job"
  /\ upstream[r] = "streaming"
  /\ UNCHANGED cancelled
  /\ FinishJob(r, EndOf(r), queue, [upstream EXCEPT ![r] = "over"])
  /\ \E isSse \in BOOLEAN :
       IF isSse /\ r \in WantsMetrics /\ r \notin finished
            /\ client[r] = "open"
       THEN metrics' = metrics \cup {r} /\ UNCHANGED client
       ELSE client' = Ended(r) /\ UNCHANGED metrics
  /\ UNCHANGED <<process, stage, head>>

\* The answer of a job is complete: finishJob, then the optional metrics
\* event (only if this call made the record), then response.end().
JobEnd(r) ==
  /\ process # "down"
  /\ stage[r] = "job"
  /\ upstream[r] = "streaming"
  /\ UNCHANGED cancelled
  /\ FinishJob(r, EndOf(r), queue, [upstream EXCEPT ![r] = "over"])
  /\ \E isSse \in BOOLEAN :
       metrics' = IF isSse /\ r \in WantsMetrics /\ r \notin finished
                       /\ client[r] = "open"
                  THEN metrics \cup {r} ELSE metrics
  /\ client' = Ended(r)
  /\ UNCHANGED <<process, stage, head>>

\* Mutant: no error listener on the upstream response.
JobAborted_Unheard(r) ==
  /\ process # "down"
  /\ stage[r] = "job"
  /\ upstream[r] \in {"streaming", "paused"}
  /\ upstream' = [upstream EXCEPT ![r] = "aborted"]
  /\ UNCHANGED <<process, stage, client, head, queue, running, finished,
                 cancelled, record, metrics>>

\* SwiftLM closes the connection inside the body: only the response object
\* reports it.  The slot is freed; the client's response is not ended.
JobAborted(r) ==
  /\ process # "down"
  /\ stage[r] = "job"
  /\ upstream[r] \in {"streaming", "paused"}
  /\ UNCHANGED cancelled
  /\ FinishJob(r, "failed", queue, [upstream EXCEPT ![r] = "aborted"])
  /\ UNCHANGED <<process, stage, client, head, metrics>>

\* Mutant: the else branch that ends a started response is missing.
JobError_NoEnd(r) ==
  /\ process # "down"
  /\ stage[r] = "job"
  /\ upstream[r] \in Live \cup {"hangup", "destroyed"}
  /\ IF head[r] = "none" /\ client[r] = "open"
     THEN head' = [head EXCEPT ![r] = "gateway"] /\ client' = Ended(r)
     ELSE UNCHANGED <<head, client>>
  /\ UNCHANGED cancelled
  /\ FinishJob(r, "failed", queue, [upstream EXCEPT ![r] = "over"])
  /\ UNCHANGED <<process, stage, metrics>>

\* "error" on the upstream request: refused or reset at any point, or the
\* late report of a request this gateway destroyed itself ("hangup" before
\* the response head, "destroyed" after it).
JobError(r) ==
  /\ process # "down"
  /\ stage[r] = "job"
  /\ upstream[r] \in Live \cup {"hangup", "destroyed"}
  /\ head' = [head EXCEPT ![r] =
                IF @ = "none" /\ client[r] = "open" THEN "gateway" ELSE @]
  /\ client' = Ended(r)
  /\ UNCHANGED cancelled
  /\ FinishJob(r, "failed", queue, [upstream EXCEPT ![r] = "over"])
  /\ UNCHANGED <<process, stage, metrics>>

ProxiedEnd(r) ==
  /\ process # "down"
  /\ stage[r] = "proxied"
  /\ upstream[r] = "streaming"
  /\ upstream' = [upstream EXCEPT ![r] = "over"]
  /\ client' = Ended(r)
  /\ record' = [record EXCEPT ![r] = Append(@, EndOf(r))]
  /\ UNCHANGED <<process, stage, head, queue, running, finished, cancelled,
                 metrics>>

\* The piped response of an unqueued request breaks off: no listener, so no
\* record, and pipe() does not end the client's response.
ProxiedAborted(r) ==
  /\ process # "down"
  /\ stage[r] = "proxied"
  /\ upstream[r] \in {"streaming", "paused", "destroyed"}
  /\ upstream' = [upstream EXCEPT ![r] = "aborted"]
  /\ UNCHANGED <<process, stage, client, head, queue, running, finished,
                 cancelled, record, metrics>>

\* Mutant: the record is written next to the 502 only.
ProxiedError_Silent(r) ==
  /\ process # "down"
  /\ stage[r] = "proxied"
  /\ upstream[r] \in Live \cup {"hangup"}
  /\ upstream' = [upstream EXCEPT ![r] = "over"]
  /\ IF head[r] = "none" /\ client[r] = "open"
     THEN /\ head' = [head EXCEPT ![r] = "gateway"]
          /\ client' = Ended(r)
          /\ record' = [record EXCEPT ![r] = Append(@, "failed")]
     ELSE UNCHANGED <<head, client, record>>
  /\ UNCHANGED <<process, stage, queue, running, finished, cancelled, metrics>>

\* "error" on the upstream request of an unqueued request: answered with a
\* 502 only if no head went out, recorded in every case.
ProxiedError(r) ==
  /\ process # "down"
  /\ stage[r] = "proxied"
  /\ upstream[r] \in Live \cup {"hangup"}
  /\ upstream' = [upstream EXCEPT ![r] = "over"]
  /\ IF head[r] = "none" /\ client[r] = "open"
     THEN /\ head' = [head EXCEPT ![r] = "gateway"]
          /\ client' = Ended(r)
     ELSE UNCHANGED <<head, client>>
  /\ record' = [record EXCEPT ![r] = Append(@, "failed")]
  /\ UNCHANGED <<process, stage, queue, running, finished, cancelled, metrics>>

-----------------------------------------------------------------------------
(* The client closes its socket before the response has ended.             *)

\* upstream.destroy(): without a response head it reports "socket hang up".
Destroyed(r) ==
  [upstream EXCEPT ![r] = CASE @ = "sent" -> "hangup"
                            [] @ \in {"streaming", "paused"} -> "destroyed"
                            [] OTHER -> @]

JobClientClose(r) ==
  /\ process # "down"
  /\ stage[r] = "job"
  /\ client[r] = "open"
  /\ client' = [client EXCEPT ![r] = "closed"]
  /\ \/ /\ r \in finished
        /\ UNCHANGED <<cancelled, queue, running, finished, record, upstream>>
     \/ /\ r \notin finished
        /\ cancelled' = cancelled \cup {r}
        /\ FinishJob(r, "cancelled", Without(queue, r), Destroyed(r))
  /\ UNCHANGED <<process, stage, head, metrics>>

ProxiedClientClose(r) ==
  /\ process # "down"
  /\ stage[r] = "proxied"
  /\ client[r] = "open"
  /\ client' = [client EXCEPT ![r] = "closed"]
  /\ upstream' = Destroyed(r)
  /\ UNCHANGED <<process, stage, head, queue, running, finished, cancelled,
                 record, metrics>>

-----------------------------------------------------------------------------
(* The process: SIGTERM/SIGINT, exit, crash, restart.                      *)

\* server.close(): no new requests, open ones go on.
Shutdown ==
  /\ process = "up"
  /\ process' = "draining"
  /\ UNCHANGED <<stage, client, head, upstream, queue, running, finished,
                 cancelled, record, metrics>>

\* The process is gone: sockets close, queue and slots vanish, nothing is
\* written for the jobs that were in them.
ProcessGone ==
  /\ process' = "down"
  /\ client' = [r \in Requests |->
                  IF client[r] = "open" THEN "closed" ELSE client[r]]
  /\ upstream' = [r \in Requests |->
                    IF upstream[r] \in {"none", "over"} THEN upstream[r]
                                                      ELSE "gone"]
  /\ queue' = <<>>
  /\ running' = {}
  /\ UNCHANGED <<stage, head, finished, cancelled, record, metrics>>

\* exit(0) once the last connection has closed, exit(1) 10 s after the signal.
Exit == process = "draining" /\ ProcessGone

\* An uncaught exception (a failing log write) or kill -9.
Crash == process = "up" /\ ProcessGone

Restart ==
  /\ process = "down"
  /\ process' = "up"
  /\ UNCHANGED <<stage, client, head, upstream, queue, running, finished,
                 cancelled, record, metrics>>

-----------------------------------------------------------------------------
RequestStep(r) ==
  \/ Arrive(r) \/ BodyRejected(r) \/ SignatureRefused(r)
  \/ Enqueue(r) \/ ProxyUnqueued(r)
  \/ UpstreamResponse(r) \/ UpstreamPaused(r) \/ ClientDrain(r)
  \/ JobEnd(r) \/ JobAborted(r) \/ JobError(r) \/ JobClientClose(r)
  \/ ProxiedEnd(r) \/ ProxiedAborted(r) \/ ProxiedError(r)
  \/ ProxiedClientClose(r)

Next == \/ \E r \in Requests : RequestStep(r)
        \/ Shutdown \/ Exit \/ Crash \/ Restart

Spec == Init /\ [][Next]_vars

\* What the code relies on and cannot enforce (no upstream timeout is set):
\* SwiftLM answers every request it was sent and its bodies are finite, and a
\* client that stays connected goes on reading.
Fairness ==
  \A r \in Inference : /\ WF_vars(UpstreamResponse(r))
                       /\ WF_vars(ClientDrain(r))
                       /\ SF_vars(JobEnd(r))

FairSpec == Spec /\ Fairness

-----------------------------------------------------------------------------
(* Properties.                                                             *)

TypeOK ==
  /\ process \in {"up", "draining", "down"}
  /\ stage \in [Requests -> Stages]
  /\ client \in [Requests -> {"none", "open", "ended", "closed"}]
  /\ head \in [Requests -> {"none", "ok", "error", "gateway"}]
  /\ upstream \in [Requests -> Upstreams]
  /\ queue \in Seq(Inference)
  /\ running \in SUBSET Inference
  /\ IsFiniteSet(running)
  /\ finished \in SUBSET Inference
  /\ cancelled \in SUBSET Inference
  /\ record \in [Requests -> Seq(Events)]
  /\ metrics \in SUBSET WantsMetrics

\* PARALLEL_REQUESTS is never exceeded, however finishJob, enqueue and the
\* close handler interleave, and no slot stays free while a job waits: every
\* path that frees a slot or adds a job ends in drainQueue.
SlotsExact ==
  /\ Cardinality(running) <= parallelLimit
  /\ queue # <<>> => Cardinality(running) = parallelLimit

\* A slot is held exactly by the jobs SwiftLM is working on for a client that
\* is still there: no slot leaks to a job whose last upstream event has
\* passed, and no upstream inference runs outside the slots.
SlotsBacked ==
  \A r \in Inference :
    r \in running <=> /\ stage[r] = "job"
                     /\ upstream[r] \in Live
                     /\ client[r] = "open"
                     /\ r \notin finished

\* The queue holds each waiting job once; a waiting job has a connected
\* client, no slot and no terminal record, and every unfinished job of this
\* process is either waiting or running: the close handler's splice and
\* drainQueue's shift neither lose nor duplicate a job.
QueueSound ==
  /\ Distinct(queue)
  /\ \A r \in Elems(queue) : /\ stage[r] = "job"
                            /\ client[r] = "open"
                            /\ upstream[r] = "none"
                            /\ r \notin finished \cup running
  /\ \A r \in Inference :
       stage[r] = "job" /\ client[r] = "open" /\ r \notin finished
         => r \in running \cup Elems(queue)

\* A request is recorded at most once although end, error, abort and close may
\* all report its end, and a finished job is always recorded.
RecordedOnce ==
  \A r \in Requests : /\ Len(record[r]) <= 1
                      /\ r \in finished => Len(record[r]) = 1

\* The record tells what the client saw: "completed" only when the whole 2xx
\* answer went out and the response was ended, "cancelled" only when the
\* client left first.
RecordTruthful ==
  \A r \in Requests :
    /\ record[r] = <<"completed">> => head[r] = "ok" /\ client[r] = "ended"
    /\ record[r] = <<"cancelled">> => client[r] = "closed"

\* A client that still waits after its job was finished waits because SwiftLM
\* broke off inside the body: no other path of the handler leaves a response
\* open for ever.
OnlyAbortLeavesOpen ==
  \A r \in finished : client[r] = "open" => upstream[r] = "aborted"

\* The unqueued requests are accounted for as well, although no finishJob
\* stands behind their callbacks: one without a record is still to be answered
\* or to be reported as hung up, died with its process, or had its answer
\* broken off behind the head (proxyUnqueued, server.mjs:322-363, listens to
\* nothing then), and its client was not given the end of an answer.
ProxiedRecorded ==
  \A r \in Others : stage[r] = "proxied" /\ record[r] = <<>> =>
    \/ upstream[r] \in Live /\ client[r] = "open"
    \/ upstream[r] \in {"hangup", "gone"} /\ client[r] = "closed"
    \/ /\ upstream[r] \in {"destroyed", "aborted"}
       /\ head[r] # "none" /\ client[r] # "ended"

\* The metrics event reaches only a client whose response ended normally and
\* whose job this answer finished; it never follows a cancellation or error.
MetricsOnlyAtEnd ==
  \A r \in metrics : /\ client[r] = "ended"
                     /\ record[r] = <<EndOf(r)>>

\* Every accepted job finishes (or its process ends): a slot is always handed
\* on, so no waiting job is forgotten.
EveryJobSettles ==
  \A r \in Inference :
    stage[r] = "job" ~> r \in finished \/ client[r] = "closed"

\* Refinement: the gateway's jobs behave like a line in front of Limit slots.
Slots == INSTANCE InferenceSlots WITH
  Jobs <- Inference,
  Limit <- parallelLimit,
  waiting <- queue,
  serving <- running,
  entered <- {r \in Inference : stage[r] = "job"},
  outcome <- [r \in Inference |->
                IF record[r] = <<>> THEN "none" ELSE record[r][1]]

\* The request path implements InferenceSlots: slots are granted in arrival
\* order the moment they are free and a job settles exactly once.
ImplementsSlots == Slots!Spec
=============================================================================
