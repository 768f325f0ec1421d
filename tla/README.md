# A verification development for swiftlm-platform

swiftlm-platform serves one or more local inference machines to chat users and
API clients.  This directory models the parts of it whose correctness depends on
the order of events, checks the models with TLC, and proves with TLAPS every
safety property the runs check.

## 1. The system

```
 browser (public/app.js, message-queue.js)
     |  HTTP + SSE, 1.5 s polling after a reload
 dashboard (dashboard/src/server.js, proxy.js, db.js: one Node process + SQLite)
     |  signed HTTP (nodeAuth.js), optional relay (deploy/wondermesh)
 MLX gateway (mlx-gateway/server.mjs: one Node process, in-memory queue)
     |  HTTP
 SwiftLM (external inference server)          mlx, common.sh: start/stop by PID file
```

| Component | State it keeps | Operations | What makes it correct |
|---|---|---|---|
| Gateway request path (`mlx-gateway/server.mjs`) | `queue`, `running`, per job `finished`/`cancelled`, response and upstream objects | body read, enqueue, drain, upstream response/data/end/error, client close, shutdown | slot limit, no idle slot while a job waits, arrival order, one terminal record per job, no response left hanging |
| Gateway request log (`logEvent`, `loadRecent`) | `requests.jsonl`, `.1`, `recent` | append, rotate, reload at start | the recent list after a restart is what was shown before |
| Node agent (`nodeAgent.mjs`, `join.mjs`) | `node-agent.json`, nonce cache | enroll, heartbeat, sign, verify | a signed request is accepted only inside its window, and a copy of it not before the window is over (section 5: the documents promise more) |
| Dashboard generation (`server.js`, `proxy.js`) | `activeGenerations`, `messages`, `api_requests` | post message, stream, stop, delete conversation, change target | one generation per conversation, the stored answer is what was streamed, stop takes effect, a request is recorded once |
| Dashboard node registry (`db.js`, `server.js`) | `nodes`, `node_models`, `api_keys`, `conversations` | create, enable, update auth, delete/purge, models, keys, start-up migration | references stay valid, a disabled node or model gets no new work, start-up keeps admin changes |
| Proxy for API clients (`proxy.js` `proxyOpenAI`) | a request in flight, `api_requests` | forward, record in `finally` | the record names what really ran; purge does not break a request in flight |
| Enrollment (`server.js`, `db.js`, `join.mjs`) | `enrollment_tokens`, `nodes`, agent state file | issue, enroll, heartbeat | a token makes at most one node, a failed enrollment leaves nothing behind |
| Browser chat client (`public/app.js`, `message-queue.js`) | `sending`, `stopping`, the message queue, the poll timer | enqueue, drain, send, stop, select, poll | messages are sent once, in order, to the conversation they were written in |
| Browser administration (`public/app.js`) | `nodes`, `editingNodeId`, `statusPollTimer`, `current` | log in and out, poll, edit, delete, retarget | the list on screen catches up; what is shown is what is acted on |
| Sessions, API keys, login throttle (`auth.js`, `server.js`) | cookie, key digests, `loginAttempts` | log in, log out, issue, revoke | eight failures block for five minutes |
| Process control (`mlx`, `common.sh`) | PID files | start, stop | stop ends what start began |
| SSE framing (`parseSse`, `consumeEvent`, `runMessage`) | a text buffer | append a chunk, cut events | the events do not depend on the chunking |
| Rendering (`markdown-enhancer.js`, `composer.js`, CSS, HTML) | none that matters here | | not modelled |

### Interactions and hard behaviours

* The browser posts a message and reads the answer as SSE; after a reload it
  polls `GET /api/conversations/:id` until `generation_in_progress` is false.
  A disconnected browser does not stop a generation, only `POST .../stop` does.
* The dashboard calls the machine with `fetch`; `abort()` closes that
  connection. The gateway sees a closed client and destroys its own request to
  SwiftLM.
* All three programs are single-threaded: concurrency is the interleaving of
  callbacks. Everything between two awaits (or inside one event listener) is
  one atomic action in the models.
* Nothing in the gateway survives a restart but its log; in the dashboard
  SQLite survives, `activeGenerations` does not; in the browser nothing but the
  id of the last conversation does.

`PROJECT.json` lists every component with its status, and every hazard with
its source line and the properties that cover it.

## 2. The modules

| Module | Models | Corresponds to |
|---|---|---|
| `InferenceSlots` | what the queue promises: jobs wait in line for `Limit` slots, a slot is granted the moment it is free, a job settles once | abstract |
| `ConversationTurns` | what both ends of a chat rely on: a conversation answers one message at a time, a message has at most one turn | abstract |
| `MlxGateway` | the request path of the gateway | `mlx-gateway/server.mjs` 134-188, 233-362, 370-494 |
| `DashboardGeneration` | conversations, posts, machines and stops in the dashboard | `server.js` 356-366, 619-749; `proxy.js` 134-264; `db.js` 456-472 |
| `ChatClient` | sending, queue, stop, selection, polling and reload in the page | `public/app.js` 336-401, 473-647; `message-queue.js` |
| `NodeRegistry` | the registry of machines with its tables, its administration, its start-up migration, and a `/v1` request from key to record | `db.js`; `server.js` 318-447, 585-652; `proxy.js` 22-32, 266-342, 391-422; `config.js` |
| `AgentLink` | enrollment with one-time tokens, signed heartbeats and calls under skewed clocks | `join.mjs`, `nodeAgent.mjs`, `nodeAuth.js`, `server.js` 465-581, `db.js` 552-563 |
| `StreamAdapter` | one answer as a stream through gateway and dashboard to a client or a stored message | `server.mjs` 190-289; `proxy.js` 63-114, 199-221, 345-435; `providers.js` |
| `Console` | signing in and out, the polled list of machines with its forms, selecting, retargeting and deleting conversations | `public/app.js` 191-348, 403-418, 656-675, 859-977, 1061-1105 |
| `MC...` | symmetry sets and enumerated constants for TLC | |
| `...Proofs` | the inductive invariants and theorems of a module (section 4) | |
| `MlxGatewaySlotsProofs` | that `MlxGateway` implements `InferenceSlots` | |

Operators named `X_Variant` stand before the operator `X` they vary: each is `X`
with a plausible mistake, used to see that a property notices it. They are not
part of any specification.

**How the modules meet.** `MlxGateway` and `DashboardGeneration` are the two ends
of one connection: what one treats as external (a client that leaves, a machine
that answers, pauses or breaks off) is what the other does. `StreamAdapter`
composes both ends for a single answer, in symbols rather than in events.
`ChatClient` reduces the dashboard to the message each conversation is
answering, `Console` to the set of machines and a session; `NodeRegistry` has
the tables that `DashboardGeneration` reduces to a usable, unusable or purged
machine. `AgentLink` gives the reason why `MlxGateway` may refuse a request
(`SignatureRefused`). The components are not instantiated in one another: their
shared events are external in one and actions in the other, and a product of
two of them is beyond TLC at the sizes where each is interesting. Where two of
them meet they are held against a common abstract specification instead:
`DashboardGeneration` (with `activeGenerations` as `gen`) and `ChatClient` (with
its picture of the server as `gen`) both implement `ConversationTurns`. What
the page assumes of the server is in this respect what the server does, and
the page, its late posts and its reloads add no second turn.

**MlxGateway.** `queue`, `running`, `finished`, `cancelled` are the variables of
the code; `client`, `head` and `upstream` are the state of a request's response
and of its connection to SwiftLM (`gone`: it died with the process); `record` collects the terminal log records.
One action is one callback with every call it makes: `FinishJob` contains the
record and `drainQueue`, and `drainQueue` starts as many jobs as there are
slots. SwiftLM and the clients are external: they may answer, pause, end, break
off or leave at any moment.

**DashboardGeneration.** A post is one HTTP request to `.../messages`. `phase`
is the await its handler is at; each action is the code up to the next await.
`active` is the map `activeGenerations`, `rows` the stored messages (one entry
for the pair of rows a post stores), `got` and `stored` the text received and
the text in the assistant row, counted in chunks. `Record` may fail: by the
foreign key if the machine was purged, or for any reason SQLite has.

**ChatClient.** The page's variables keep their names (`sending`, `stopping`,
`active`, `queue`; `current` and `shows` are `state.current.id` and
`.generation_in_progress`). `run[m]` is the await `runMessage` is at for message
m. The server is reduced to `gen`, the message each conversation is answering.
A GET is answered with the server's state when it is issued and handled at some
later step, so answers may be stale and overtake each other; the awaited
refresh of the conversation list inside the poll is merged with the poll.
`typed`, `posted`, `how` and `refused` are history variables.

**NodeRegistry.** Every handler but the proxy is synchronous and is one action;
where it issues several autocommitted statements, a crash between two of them is
an action of its own (`CreateNodeCrash`). A stored credential carries the secret
it was encrypted under, because a start with another secret makes it
unreadable. `request` holds the snapshot of the machine that authentication
joined with the key, and is used after administrators have changed the tables.
`entered` is a history variable no guard reads: which credentials a machine has
been given and not had replaced or withdrawn. It gives a credential an owner,
also when the same one was entered for two machines.

**AgentLink.** Time is the dashboard's clock, and the gateway's differs by a
constant `skew`. A token, a machine, a run of `join.mjs` and a message each have
their own state; `cut` remembers enrollments a crash has cut. A message may be
delivered any number of times, up to the bound `MaxTaken` of acceptances.
`Verifies` says whether the receiver looks at its signature: the dashboard
always does, the gateway only once it is enrolled and was restarted since
(`if (agentState)`, server.mjs:419); before that it acts on every call it gets,
however often. `taken` is the history of what the receiving process acted on.

**StreamAdapter.** The body is a sequence of symbols: payload lines, CR and LF.
Each hop reads up to an arbitrary next position, so a cut between CR and LF is
one of the behaviours. `Took` adds a symbol to a buffer and cuts off an event
when it is complete, `TookAll` does so for a chunk; both readers do this, with
different handlers of an event (`Observe`, `Forward`, `Read`). The reference is
the sequence of payloads the model server sent. What is written to the client
of the API is kept in `db.out`. Recursion is written with recursive functions,
about which TLAPS can reason.

**Console.** A list request holds the answer the server gives when it is sent;
its answers are handled in any order, or fail. `rows` is what is drawn, which
differs from `list` while a form is open or after a failed poll. Which
conversations exist is left out: requests about one may fail.

## 3. The runs

| Run | Instance | Distinct states | Shows |
|---|---|---|---|
| `gateway_queue` | 3 jobs, 1 slot, metrics wanted by 2 | 89 thousand | slots, queue, records and responses are consistent; refinement of `InferenceSlots`; every accepted job settles |
| `gateway_mixed` | 3 jobs, 2 slots, 1 unqueued request, enrolled | 418 thousand | slots and records with parallel jobs and refused requests; which unqueued requests have no record |
| `dashboard_generation` | 1 conversation, 2 posts, 2 machines, 2 chunks | 1.0 million | active table, stored text and records agree, the machine is released; the answer is final when a page sees the generation end; refinement of `ConversationTurns`; a stopped generation ends |
| `client_queue` | 1 page, 1 conversation, 4 messages, queue of 2 | 407 thousand | each message sent once, the queue is drained, and only a watched generation is overtaken |
| `client_pages` | 2 pages, 2 conversations, 2 messages, queue of 1 | 263 thousand | one run at a time across a reload; refinement of `ConversationTurns`; runs end and the queue moves |
| `registry` | 3 machines, 2 models, a key, a conversation, a request, 2 secrets, within `Bounded` | 606 thousand | references, models, records and credentials survive every order of administration, requests, crashes and starts |
| `agent_link` | 2 tokens, 2 join runs, 1 heartbeat, 1 call, clocks apart by -1, 0 or 1 | 1.2 million | one identity per token, both sides agree on who is enrolled; a receiver that verifies takes a message again only a whole window later, and at most three times |
| `stream_adapter` | up to 3 events, LF or CRLF, 3 ways to end, every cut on two hops | 539 thousand | the client's stream, the stored text and the recorded counts |
| `console` | 1 machine, 2 conversations, 2 open list requests | 581 thousand | the drawn machines catch up; a message goes where its conversation is shown |
| `client_refused`, `registry_key`, `agent_replay` | as small as the case allows | | disagreements between the documentation and the code (section 5) |

Why these bounds are enough.

* Gateway: with three jobs and one slot there is a running job, a waiting one
  that can leave the queue and one behind it, the smallest case where order,
  loss and a double drain differ. Two slots add parallel ends.
* Dashboard: two posts are the smallest case for a refused second post and a
  stop that hits another post; two machines for one purged under a post while
  the other answers. `MaxChunks` = 2 gives a first, a last and a stored prefix;
  a chunk differs from the next only by the count.
* Page: four messages are one running, two queued (`Limit` stands for
  `MAX_QUEUED_MESSAGES`, 20 in the code) and one too many or sent directly.
  `MaxPages` = 2 gives one reload, `MaxLoads` bounds the unanswered GETs,
  `MaxStops` the stop requests on their way: one already arrives too late for
  the generation it was meant for.
* Registry: the default machine behaves differently from every other, and with
  two others one's credential can be taken for the other's; two models are the
  smallest list from which one can be removed; two secrets are one change. All
  of this at once is too much for one run, so its CONSTRAINT `Bounded`
  (`MCNodeRegistry`) has the second other machine only where one model is in
  play, and it or a changed secret only where no conversation is. The run
  checks no liveness property, to which a constraint would not do justice.
* Agent: two join runs race for one token and for one URL. `Window` = 1 and
  `MaxTime` = 3 allow a message to be early, on time, late and repeated after
  the window; `MaxTaken` = 4 lets a fourth acceptance show, which the property
  denies.
* Stream: three payloads give a delta, a usage chunk and the end mark in every
  order that matters; the readers keep no state across events but counters.
* Console: a row is independent of the others, so one machine; two
  conversations for an answer about the one not selected; `MaxLoads` = 2 list
  requests can cross; `MaxOther` = 1 further request, with those of `showApp`
  on top, is enough for a change of target to be overtaken by a selection.

**Symmetry** is used only in runs whose properties are invariants and action
properties. **Deadlock** is checked in every run but `stream_adapter`, where a
finished stream is the end.

**Fairness.** `MlxGateway`: SwiftLM answers a request and goes on with it, and a
client that is not gone reads (weak, for the end of a body strong fairness
because a slow client may pause it again and again). The
code sets no timeout of its own (`setTimeout(0)`), so this is an assumption
about the environment. `DashboardGeneration`: `abort()` rejects the pending
fetch or read, which the platform guarantees. `ChatClient`: a request reaches
the server, generations end (`max_tokens` bounds them) and the page's pending
callbacks run. `Console`: an armed timer fires, a list request is answered or
fails (weak), and of requests repeated for ever one is answered (strong).
Nothing is assumed of users, administrators, selections, polls or stops.
`NodeRegistry`, `AgentLink` and `StreamAdapter` state safety only.

## 4. What is proved

Each theorem is `Spec => []P` (or `Spec => P` for an action property and for the
refinement), for every value of the constants under the assumptions named.
All but the refinements have the same shape: an inductive invariant, a lemma
that a step keeps it with one step per action, and `PTL` at the end. Every
invariant and every action property of a run that passes is among them. `TypeOK`
of `AgentLink` is proved and used by the other proofs; no run repeats it.

| Module | Theorems | Assumed of the constants |
|---|---|---|
| `MlxGatewayProofs` | `TypeOK`, `SlotsExact`, `SlotsBacked`, `QueueSound`, `RecordedOnce`, `RecordTruthful`, `ProxiedRecorded`, `OnlyAbortLeavesOpen`, `MetricsOnlyAtEnd` | a positive slot limit, inference and other requests are disjoint, `AgentMode` is a Boolean |
| `MlxGatewaySlotsProofs` | `ImplementsSlots` | the same |
| `DashboardGenerationProofs` | `TypeOK`, `ActiveExact`, `StoredIsStreamed`, `RecordMeaning`, `UpstreamReleased`, `FinalWhenIdle`, `ImplementsTurns` | the default machine is one of `Nodes`, `MaxChunks` is a natural number, `None` names nothing |
| `ChatClientProofs` | `TypeOK`, `SingleRun`, `SentOnce`, `IdleQueueDrained`, `OvertakenOnlyWatching`, `ImplementsTurns` | finitely many messages, a positive queue limit and number of pages, `None` names nothing |
| `NodeRegistryProofs` | `TypeOK`, `References`, `ServesSomething`, `RecordedOrPurged`, `CredentialsAtHome` | the default machine is one of `Nodes`, `None` names nothing |
| `AgentLinkProofs` | `TypeOK`, `OneIdentityPerToken`, `Accounted`, `RepeatedOnlyAfterWindow` | positive window and time to live, integer clock differences, a natural bound on time, heartbeats and calls are disjoint, `None` names nothing |
| `ConsoleProofs` | `SentWhereShown` | `None` names nothing |
| `StreamAdapterProofs` | `ClientStream`, `AnswerText`, `UsageRecorded` | an answer is a non-empty finite sequence of payloads, the providers are those of the code, `None` names nothing |

The sets of requests, posts, machines, tokens, conversations and join runs may
be of any size, also infinite. Only messages of a page have to be finitely
many: `TypeOK` of `ChatClient` counts them to bound the stop requests. The
bounds that keep the runs finite (`MaxPages`, `MaxTime`, `MaxTaken`...) are
arbitrary in the theorems.

**Gateway.** None of the properties is inductive alone. `IInv` is their
conjunction with `StageInv` (which combinations of a request's stage, client,
upstream and flags occur) and `RunningInv` (who holds a slot). `drainQueue` may
start a job only if a queued job is neither cancelled nor finished, which is
`QueueSound`; that a slot freed by `finishJob` was really held is `SlotsBacked`;
that it is not freed twice is `RecordedOnce`. `DrainResult` describes
`drainQueue` as a set of jobs moved from the queue to the slots; `SettleStep`
and `EnqueueStep` use it for every action that ends in it. `LeftInv` adds that
an upstream request which can no longer answer belongs to a finished job, so
that its late error events find nothing to do; with it `OnlyAbortLeavesOpen`
and `MetricsOnlyAtEnd` are kept by every step between states of `IInv`.
`ProxiedRecorded` is about the requests outside the queue, whose callbacks
share no `finishJob`; it needs only that they stream after a head was received
(`HeadInv`), and that no step of a job touches them (`JobsLeaveOthers`).

**Refinement.** `GatewayImplementsSlots` shows that every step of the gateway is
a step of `InferenceSlots` or a stutter. The abstract specification grants
`Min(free slots, line)` slots at once; the code's loop grants them one at a
time, skipping what is cancelled. `DrainGrants` shows the two are the same:
`QueueSound` says nothing is skipped, and `SlotsExact` that the loop stops at
the limit or at the end of the line. `JoinStep`, `TurnAwayStep`, `LeaveStep`
and `ServeStep` then give one abstract action for each way a job can go.

**Dashboard generation.** `IInv` adds `PostInv` (what a post has and has not done
at each await). The properties lean on one another: a stop reaches only a post
that still generates, because `activeGenerations` is exact, so what was recorded
without a stop stays without one; and `FinalWhenIdle` holds because nobody
writes an answer whose conversation has no entry. `GenerationImplementsTurns`
maps each step to a step of `ConversationTurns`: a post that is accepted begins
a turn, the step that deletes its entry ends it (a crash ends all of them, and
drops no post that had a turn), a refused post is dropped; every other step is
a stutter. That an entry belongs to the post which deletes it is `ActiveExact`.

**Page.** `QueueInv` says where every message is (queued or posted, each once, the
queue in the order of typing) and `RunInv` that a message runs from its post on.
`SentOnce` is then immediate; `OvertakenOnlyWatching` needs the order of the
queue, and `SingleRun` that no queued message has a run. For
`ChatImplementsTurns` a message is spent when its post was handled or lost; the
step needs `RunInv`, by which a post on its way belongs to a message that has
not been handled.

**Registry.** `MachineInv` says the default machine is never deleted and that a
machine has a primary model, from which a start restores its model rows;
`RequestInv` that a request names a machine that was created, so that its id
can only be purged and never reused; `StoredAtHome` that a stored
copy is one `entered` for its machine. `RegistryCredentials` then follows step
by step: a request gets a credential only when it is sent, from the copy of its
own machine, or at the default machine from the environment. Nothing is assumed
of the credentials: two machines and the environment may have the same one.

**Agent link.** Enrollment (`EnrollInv`) and messages (`NonceInv`) are separate
invariants. `JoinInv` relates the phase of a join run, its token and its
identity. `ReplayInv` says that a nonce is, or was, kept until a window after
each acceptance of its message, which is why the code's lazy pruning
(nodeAuth.js) cannot forget one before that. Since a timestamp is good for two
windows (one to each side), a whole window between acceptances leaves room for
three of them. A gateway that does not verify is outside of all this; it starts
to verify with a restart, by which `taken` is empty.

**Console.** `SentWhereShown` speaks of the app view; it is inductive only
without that condition, because answers that arrive at the log-in view assign
`state.current` too.

**Stream.** The constants are the answers, so the theorems are about every
sequence of payloads, of any length, and every way to cut it. The invariant
says that for the line end of the stream the pipe between the hops (`Pipe`)
holds a prefix of the stream and then, at the end and for a swiftlm machine,
the gateway's event; and what the dashboard has as long as there is no record
(`Heard`, through `Rel`): its text and its output are the events completed so
far, and its buffer is the part of the stream since then. About a gateway's
event glued to an unfinished one it says nothing, as the properties do. Two facts carry it. A symbol that is read
keeps `Rel`, one case for each place in an event where the reader can stand;
and a chunk is read by `TookAll` symbol by symbol. The induction that this and
the lemmas about `Only` need is over a position, not over an operator: `UpTo`
says that a set holding 0 and, with each number below n, the next one, holds
all of them; it follows from the least element of a set of naturals.
`OnlyDefined` and `TookAllDefined` show in the same way that the recursive
functions of the model are defined. The cases where a CR and its LF were read
apart are where the three properties make their exceptions: `Rel` is weaker
there, and says only what still holds.

Only model-checked:

* the liveness properties `EveryJobSettles`, `StopEnds`, `SendingEnds`,
  `QueueMoves` and `RowsCatchUp`: the prover has no ENABLED and
  no reasoning about fairness over chains of steps;
* the three disagreements of section 5, which are counterexamples.

## 5. What the runs found

1. `client_refused`: after a broken connection the queue is drained into a
   conversation that still generates; the server refuses the messages and they
   are lost (dashboard/README.md:11).
2. `registry_key`: the default machine's credential is documented as managed by
   the environment (dashboard/README.md:67), but the stored copy is kept and
   preferred, so a changed `UPSTREAM_API_KEY` is not used.
3. `agent_replay`: nodeAuth.js:69-71 and docs/inference-nodes.md:170 say that a
   signed request cannot be sent a second time, nor after waiting. A nonce is
   kept for one window from its arrival, a timestamp accepted until one window
   after it: a message that is a whole window old, or from a clock that is
   ahead, is accepted again when its entry is gone. `RepeatedOnlyAfterWindow`
   says what does hold: not within a window, and three times at most.

Behaviours the models have and no property forbids, which a maintainer should
know of:

* A post whose fetch fails, whose answer is an error or has no text leaves no
  request record (proxy.js:145).
* A `/v1` request that names no model is forwarded with the primary model even
  if its row in `node_models` is switched off (proxy.js:310, 327), although
  docs/inference-nodes.md:101 says that such a model is out of clients' reach
  at once. `ServesSomething` is about whether a machine has a row, on or off.
* A message queued while a reloaded page watches a generation stays in the queue
  when that generation ends, and is overtaken by the next one typed
  (app.js:392), although dashboard/README.md:11 speaks of a FIFO queue.
  `OvertakenOnlyWatching` shows this is the only way to be overtaken.
* A model server that stops in the middle of a line: the gateway's metrics event
  continues that line and reaches the client (server.mjs:286), although
  proxy.js:352-353 says a client only ever sees standard chunks.
* A request outside the queue whose answer SwiftLM breaks off after the head has
  no record, and its response stays open until the client gives up
  (server.mjs:338). `ProxiedRecorded` shows that beside a client that left in
  mid-answer and the death of the process this is the only way to have none.
* A gateway that is not enrolled, or was not restarted after `join.mjs`, checks
  no signature (server.mjs:419). That is how it works without a dashboard; the
  nonce cache counts only from then on.
* After a recovered generation is stopped the send button stays disabled, though
  Enter still works (app.js:628).
* A stop names a conversation, not a generation (app.js:640, server.js:667): one
  slower than the following post stops the next message.
* A form that is open on a machine deleted elsewhere is not drawn any more but
  still keeps the polled list from being drawn, until the next change of view
  (app.js:281). `RowsCatchUp` is about the time when no form is open.
* A failed poll empties `state.nodes` while the rows stay: deleting a machine
  then asks for confirmation with zeros (app.js:896).
* Logging out while a list request is out arms the poll timer again behind the
  log-in view; it polls in vain until the next log-in (app.js:1098).
* The answer to a change of target becomes the current conversation even if
  another was selected meanwhile, under the other's messages (app.js:1069).
* A CR at the end of a chunk and its LF at the start of the next hide an event
  boundary: two events are read as one. In the dashboard this can drop the last
  events together with the gateway's metrics event, and put raw text into a
  stored answer (proxy.js:227, 365). `ClientStream` and `AnswerText` say when
  neither happens. With an upstream that ends lines with LF it cannot.
* A machine purged while a `/v1` request to it is in flight: the record violates
  its foreign key, in a `finally` block nobody awaits (proxy.js:406,
  server.js:755). The rejection is unhandled and ends the process; `Finish` of
  `NodeRegistry` has this outcome.
* A crash between the statements of the enroll handler leaves a machine without
  a secret whose URL blocks the next attempt until an administrator deletes it
  (server.js:547). `Accounted` names this as its exception.

## 6. What is not modelled

Titles, previews, the numbers in usage and timings; digests and encryption
(a signature is right, and a credential readable, exactly with the same
secret); rendering and layout; validation of names and URLs; probes of a
machine; the failed-login counter. SwiftLM and its runtime are external.

* Gateway request log: writes always succeed in `MlxGateway`; rotation and the
  reloaded recent list are file I/O for display.
* Relay: what it does hangs on events Node emits for a finished request, which
  the code here does not determine.
* Process control: shell scripts over PID files.
* The page's lists of keys, tokens and usage: drawn from one request each,
  without state.

## 7. What remains

The modules of section 2 are complete, and every safety property of a run that
passes is proved. What could be added:

* the liveness properties beyond TLC's instances: the lemmas they rest on that
  need no fairness, such as that no step but its own end takes a slot from a
  job, could be proved; the properties themselves could not;
* the session and log-in throttle as a module of its own, once more than one
  handler touches the counter;
* the gateway's request log with its rotation, if the list it feeds ever
  decides anything.
