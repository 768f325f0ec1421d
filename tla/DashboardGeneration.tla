------------------------ MODULE DashboardGeneration ------------------------
(***************************************************************************)
(* Chat generations in the dashboard process: the handlers of              *)
(* dashboard/src/server.js for conversations and messages, and             *)
(* streamDashboardChat of proxy.js.                                        *)
(*                                                                         *)
(* A post is one POST /api/conversations/:id/messages.  Its handler runs   *)
(* in segments separated by awaits (the upstream fetch, an error body,     *)
(* each chunk); one action is one segment.  SQLite calls are synchronous.  *)
(* A post stores one user row and one assistant row together, so rows      *)
(* holds the post once for the pair; text is counted in chunks.            *)
(***************************************************************************)
EXTENDS Integers, Sequences, FiniteSets

CONSTANTS Convs,        \* conversation ids
          Posts,        \* requests to .../messages
          Nodes,        \* inference machines
          DefaultNode,  \* config.defaultNode.id
          MaxChunks,    \* bound: chunks with text in one answer
          None

ASSUME DefaultAssumption == DefaultNode \in Nodes
ASSUME ChunksAssumption == MaxChunks \in Nat
ASSUME NoneAssumption == None \notin Posts \cup Nodes \cup Convs

VARIABLES
  node,     \* "usable", "unusable" (machine or model disabled) or "purged"
  conv,     \* "unborn", "exists" or "deleted"
  target,   \* conversations.node_id
  rows,     \* the posts whose two message rows are stored, in order
  active,   \* activeGenerations: the post that generates, or None
  phase,    \* the await a post's handler is at
  postConv, \* the conversation of a post
  used,     \* proxyNode: the machine a post was sent to
  got,      \* chunks of text received so far (the variable assistant)
  stored,   \* chunks in the assistant row
  stop,     \* posts whose AbortController is aborted
  link,     \* posts whose upstream connection is open
  away,     \* posts whose HTTP client has gone (clientConnected = false)
  reply,    \* "none", "stream" (SSE head sent) or "ended"
  outcome,  \* how an accepted post ended
  record    \* statuses recorded for a post in api_requests

vars == <<node, conv, target, rows, active, phase, postConv, used, got, stored,
          stop, link, away, reply, outcome, record>>

adminVars == <<node, conv, target, rows>>
postVars  == <<phase, postConv, used, got, stored, stop, link, away, reply,
               outcome, record>>

Phases   == {"new", "connecting", "errorBody", "streaming", "over"}
Outcomes == {"none", "refused", "complete", "cut", "unreached", "lost"}
Statuses == {200, 499, 502}

\* The handler has been entered and has not returned.
LivePost(p) == phase[p] \in {"connecting", "errorBody", "streaming"}

Init == /\ node = [n \in Nodes |-> "usable"]
        /\ conv = [c \in Convs |-> "unborn"]
        /\ target = [c \in Convs |-> None]
        /\ rows = [c \in Convs |-> <<>>]
        /\ active = [c \in Convs |-> None]
        /\ phase = [p \in Posts |-> "new"]
        /\ postConv = [p \in Posts |-> None]
        /\ used = [p \in Posts |-> None]
        /\ got = [p \in Posts |-> 0]
        /\ stored = [p \in Posts |-> 0]
        /\ stop = {}
        /\ link = {}
        /\ away = {}
        /\ reply = [p \in Posts |-> "none"]
        /\ outcome = [p \in Posts |-> "none"]
        /\ record = [p \in Posts |-> <<>>]

-----------------------------------------------------------------------------
(* Conversations and machines.                                             *)

CreateConversation(c, n) ==
  /\ conv[c] = "unborn"
  /\ node[n] = "usable"
  /\ conv' = [conv EXCEPT ![c] = "exists"]
  /\ target' = [target EXCEPT ![c] = n]
  /\ UNCHANGED <<node, rows, active, postVars>>

\* PATCH .../target: 409 while a generation is active.
UpdateTarget(c, n) ==
  /\ conv[c] = "exists"
  /\ active[c] = None
  /\ node[n] = "usable"
  /\ n # target[c]
  /\ target' = [target EXCEPT ![c] = n]
  /\ UNCHANGED <<node, conv, rows, active, postVars>>

\* DELETE .../:id removes the conversation and, by cascade, its messages; it
\* does not look at activeGenerations.
DeleteConversation(c) ==
  /\ conv[c] = "exists"
  /\ conv' = [conv EXCEPT ![c] = "deleted"]
  /\ rows' = [rows EXCEPT ![c] = <<>>]
  /\ UNCHANGED <<node, target, active, postVars>>

\* The administrator enables or disables a machine or its model.
ToggleNode(n) ==
  /\ node[n] \in {"usable", "unusable"}
  /\ node' = [node EXCEPT ![n] = IF @ = "usable" THEN "unusable" ELSE "usable"]
  /\ UNCHANGED <<conv, target, rows, active, postVars>>

\* DELETE /api/nodes/:id with purge: the machine's requests and conversations
\* go with it in one transaction; generations in flight are not touched.
PurgeNode(n) ==
  /\ n # DefaultNode
  /\ node[n] # "purged"
  /\ node' = [node EXCEPT ![n] = "purged"]
  /\ conv' = [c \in Convs |->
                IF conv[c] = "exists" /\ target[c] = n THEN "deleted" ELSE conv[c]]
  /\ rows' = [c \in Convs |-> IF target[c] = n THEN <<>> ELSE rows[c]]
  /\ record' = [p \in Posts |-> IF used[p] = n THEN <<>> ELSE record[p]]
  /\ UNCHANGED <<target, active, phase, postConv, used, got, stored, stop, link,
                 away, reply, outcome>>

-----------------------------------------------------------------------------
(* The handler of a post.                                                  *)

Accept_Unchecked(p, c) ==
  /\ phase[p] = "new"
  /\ conv[c] = "exists"
  /\ node[target[c]] = "usable"
  /\ active' = [active EXCEPT ![c] = p]
  /\ rows' = [rows EXCEPT ![c] = Append(@, p)]
  /\ phase' = [phase EXCEPT ![p] = "connecting"]
  /\ postConv' = [postConv EXCEPT ![p] = c]
  /\ used' = [used EXCEPT ![p] = target[c]]
  /\ link' = link \cup {p}
  /\ UNCHANGED <<node, conv, target, got, stored, stop, away, reply, outcome,
                 record>>

\* The synchronous head of the handler: the checks, activeGenerations.set,
\* both message rows, and the start of the upstream fetch.
Accept(p, c) ==
  /\ phase[p] = "new"
  /\ conv[c] = "exists"
  /\ active[c] = None
  /\ node[target[c]] = "usable"
  /\ active' = [active EXCEPT ![c] = p]
  /\ rows' = [rows EXCEPT ![c] = Append(@, p)]
  /\ phase' = [phase EXCEPT ![p] = "connecting"]
  /\ postConv' = [postConv EXCEPT ![p] = c]
  /\ used' = [used EXCEPT ![p] = target[c]]
  /\ link' = link \cup {p}
  /\ UNCHANGED <<node, conv, target, got, stored, stop, away, reply, outcome,
                 record>>

\* 404, 409 or 503, or storing a message row throws inside the handler's try
\* (500, and finally takes the new entry back): the post generates nothing.  A
\* user row alone may remain of the latter; it has no answer to account for.
Refuse(p, c) ==
  /\ phase[p] = "new"
  /\ conv[c] # "unborn"
  /\ phase' = [phase EXCEPT ![p] = "over"]
  /\ reply' = [reply EXCEPT ![p] = "ended"]
  /\ outcome' = [outcome EXCEPT ![p] = "refused"]
  /\ UNCHANGED <<node, conv, target, rows, active, postConv, used, got, stored,
                 stop, link, away, record>>

\* The finally block: only this post's own controller is removed.
Released(p) == [active EXCEPT ![postConv[p]] = IF @ = p THEN None ELSE @]

\* The handler returns: finally, and the response is over.
Leave(p, how) ==
  /\ active' = Released(p)
  /\ phase' = [phase EXCEPT ![p] = "over"]
  /\ outcome' = [outcome EXCEPT ![p] = how]
  /\ reply' = [reply EXCEPT ![p] = "ended"]

\* fetch rejects: the network failed or the post was stopped.  It is awaited
\* outside streamDashboardChat's try, so nothing is recorded; Express
\* answers 500 and the assistant row stays empty.
FetchRejected(p) ==
  /\ phase[p] = "connecting"
  /\ Leave(p, "unreached")
  /\ link' = link \ {p}
  /\ UNCHANGED <<node, conv, target, rows, postConv, used, got, stored, stop,
                 away, record>>

FetchAnswered(p) ==
  /\ phase[p] = "connecting"
  /\ \/ /\ phase' = [phase EXCEPT ![p] = "streaming"]
        /\ reply' = [reply EXCEPT ![p] = IF p \in away THEN @ ELSE "stream"]
     \/ /\ phase' = [phase EXCEPT ![p] = "errorBody"]
        /\ UNCHANGED reply
  /\ UNCHANGED <<adminVars, active, postConv, used, got, stored, stop, link,
                 away, outcome, record>>

ErrorBodyRead_Unread(p) ==
  /\ phase[p] = "errorBody"
  /\ Leave(p, "unreached")
  /\ UNCHANGED <<node, conv, target, rows, postConv, used, got, stored, stop,
                 link, away, record>>

\* The body of a non-2xx answer has been read, or reading it rejects.
ErrorBodyRead(p) ==
  /\ phase[p] = "errorBody"
  /\ Leave(p, "unreached")
  /\ link' = link \ {p}
  /\ UNCHANGED <<node, conv, target, rows, postConv, used, got, stored, stop,
                 away, record>>

Persisted_Appends(p) == [stored EXCEPT ![p] = @ + got'[p]]

\* onProgress / updateMessageContent: no row is updated once it is gone.
Persisted(p) ==
  [stored EXCEPT ![p] = IF \E i \in 1..Len(rows[postConv[p]]) :
                             rows[postConv[p]][i] = p
                        THEN got'[p] ELSE @]

Chunk_NoProgress(p) ==
  /\ phase[p] = "streaming"
  /\ got[p] < MaxChunks
  /\ got' = [got EXCEPT ![p] = @ + 1]
  /\ UNCHANGED <<adminVars, active, phase, postConv, used, stored, stop, link,
                 away, reply, outcome, record>>

Chunk(p) ==
  /\ phase[p] = "streaming"
  /\ got[p] < MaxChunks
  /\ got' = [got EXCEPT ![p] = @ + 1]
  /\ stored' = Persisted(p)
  /\ UNCHANGED <<adminVars, active, phase, postConv, used, stop, link, away,
                 reply, outcome, record>>

Record_NoForeignKeys(p, status) ==
  record' = [record EXCEPT ![p] = Append(@, status)]

\* recordRequest: the foreign key rejects a purged machine, and any insert can
\* fail; the exception is swallowed by the caller and no second one follows
\* (completionAttempted).
Record(p, status) ==
  \/ /\ node[used[p]] # "purged"
     /\ record' = [record EXCEPT ![p] = Append(@, status)]
  \/ UNCHANGED record

\* The upstream body ends.  An answer without text is not recorded.
StreamEnd(p) ==
  /\ phase[p] = "streaming"
  /\ UNCHANGED got
  /\ IF got[p] > 0 THEN Record(p, 200) /\ stored' = Persisted(p)
                   ELSE UNCHANGED <<record, stored>>
  /\ Leave(p, "complete")
  /\ link' = link \ {p}
  /\ UNCHANGED <<adminVars, postConv, used, stop, away>>

\* The catch block, after a failed read or after abort(): recorded if there is
\* text or the post was stopped.
Cut(p) ==
  /\ phase[p] = "streaming"
  /\ IF got'[p] > 0 \/ p \in stop
     THEN /\ Record(p, IF p \in stop THEN 499 ELSE 502)
          /\ stored' = Persisted(p)
     ELSE UNCHANGED <<record, stored>>
  /\ Leave(p, "cut")
  /\ UNCHANGED <<adminVars, postConv, used, stop, away>>

StreamFails(p) == /\ UNCHANGED got
                  /\ Cut(p)
                  /\ link' = link \ {p}

\* Storing the progress of a chunk throws (SQLite busy or disk full): the
\* catch block runs although the upstream body is still being sent, and
\* nothing cancels the reader.  Its own writes may succeed or throw as well.
ProgressFails(p) ==
  /\ phase[p] = "streaming"
  /\ got[p] < MaxChunks
  /\ got' = [got EXCEPT ![p] = @ + 1]
  /\ \/ Cut(p)
     \/ /\ Leave(p, "cut")
        /\ UNCHANGED <<adminVars, postConv, used, stored, stop, away, record>>
  /\ UNCHANGED link

\* An abandoned upstream body ends or is collected at some later time.
AbandonedCloses(p) ==
  /\ phase[p] = "over"
  /\ p \in link
  /\ link' = link \ {p}
  /\ UNCHANGED <<adminVars, active, phase, postConv, used, got, stored, stop,
                 away, reply, outcome, record>>

Stop_Releases(c) ==
  /\ active[c] # None
  /\ stop' = stop \cup {active[c]}
  /\ link' = link \ {active[c]}
  /\ active' = [active EXCEPT ![c] = None]
  /\ UNCHANGED <<adminVars, phase, postConv, used, got, stored, away, reply,
                 outcome, record>>

\* POST .../stop: 409 without an active generation, else abort() once, which
\* closes the upstream connection; the handler hears of it later.
Stop(c) ==
  /\ active[c] # None
  /\ stop' = stop \cup {active[c]}
  /\ link' = link \ {active[c]}
  /\ UNCHANGED <<adminVars, active, phase, postConv, used, got, stored, away,
                 reply, outcome, record>>

\* The browser reloads or loses its connection: the generation goes on.
ClientLeaves(p) ==
  /\ LivePost(p)
  /\ away' = away \cup {p}
  /\ UNCHANGED <<adminVars, active, phase, postConv, used, got, stored, stop,
                 link, reply, outcome, record>>

\* The process ends (SIGTERM closes the server and exits although detached
\* generations run, or it is killed) and is started again.
ProcessRestart ==
  /\ \E p \in Posts : LivePost(p)
  /\ active' = [c \in Convs |-> None]
  /\ phase' = [p \in Posts |-> IF LivePost(p) THEN "over" ELSE phase[p]]
  /\ outcome' = [p \in Posts |-> IF LivePost(p) THEN "lost" ELSE outcome[p]]
  /\ reply' = [p \in Posts |-> IF LivePost(p) THEN "ended" ELSE reply[p]]
  /\ away' = away \cup {p \in Posts : LivePost(p)}
  /\ link' = {}
  /\ UNCHANGED <<adminVars, postConv, used, got, stored, stop, record>>

-----------------------------------------------------------------------------
PostStep(p) ==
  \/ \E c \in Convs : Accept(p, c) \/ Refuse(p, c)
  \/ FetchRejected(p) \/ FetchAnswered(p) \/ ErrorBodyRead(p)
  \/ Chunk(p) \/ StreamEnd(p) \/ StreamFails(p) \/ ProgressFails(p)
  \/ AbandonedCloses(p) \/ ClientLeaves(p)

AdminStep ==
  \/ \E c \in Convs : \/ \E n \in Nodes : CreateConversation(c, n) \/ UpdateTarget(c, n)
                      \/ DeleteConversation(c) \/ Stop(c)
  \/ \E n \in Nodes : ToggleNode(n) \/ PurgeNode(n)

Next == (\E p \in Posts : PostStep(p)) \/ AdminStep \/ ProcessRestart

Spec == Init /\ [][Next]_vars

AbortDelivered_NoSignal(p) == p \in stop /\ StreamFails(p)

\* abort() makes the pending fetch or read reject: undici delivers it.
AbortDelivered(p) ==
  p \in stop /\ (FetchRejected(p) \/ ErrorBodyRead(p) \/ StreamFails(p))

FairSpec == Spec /\ \A p \in Posts : WF_vars(AbortDelivered(p))

-----------------------------------------------------------------------------
(* Properties.                                                             *)

TypeOK ==
  /\ node \in [Nodes -> {"usable", "unusable", "purged"}]
  /\ conv \in [Convs -> {"unborn", "exists", "deleted"}]
  /\ target \in [Convs -> Nodes \cup {None}]
  /\ rows \in [Convs -> Seq(Posts)]
  /\ active \in [Convs -> Posts \cup {None}]
  /\ phase \in [Posts -> Phases]
  /\ postConv \in [Posts -> Convs \cup {None}]
  /\ used \in [Posts -> Nodes \cup {None}]
  /\ got \in [Posts -> 0..MaxChunks]
  /\ stored \in [Posts -> 0..MaxChunks]
  /\ stop \in SUBSET Posts
  /\ link \in SUBSET Posts
  /\ away \in SUBSET Posts
  /\ reply \in [Posts -> {"none", "stream", "ended"}]
  /\ outcome \in [Posts -> Outcomes]
  /\ record \in [Posts -> Seq(Statuses)]

\* generation_in_progress is exact: a conversation has an active entry exactly
\* while a handler generates for it, so two posts never generate for one
\* conversation and a finished, failed, stopped or deleted one never leaves
\* the conversation answering 409.
ActiveExact ==
  /\ \A p \in Posts : LivePost(p) => active[postConv[p]] = p
  /\ \A c \in Convs : active[c] # None =>
       LivePost(active[c]) /\ postConv[active[c]] = c

HasRow(p) == /\ postConv[p] # None
             /\ \E i \in 1..Len(rows[postConv[p]]) : rows[postConv[p]][i] = p

\* A reload, a lost client, a stop or a crash never costs text that was
\* streamed: the assistant row holds all of it, except for the very chunk
\* whose write failed.
StoredIsStreamed ==
  \A p \in Posts : HasRow(p) =>
    \/ stored[p] = got[p]
    \/ outcome[p] = "cut" /\ stored[p] = got[p] - 1

\* What a recorded status means: 200 for a whole answer, 499 only if somebody
\* pressed stop, 502 only for a broken one; at most one row per post, and none
\* that names a machine that no longer exists.
RecordMeaning ==
  \A p \in Posts :
    /\ Len(record[p]) <= 1
    /\ record[p] = <<200>> => outcome[p] = "complete" /\ got[p] > 0
    /\ record[p] = <<499>> => outcome[p] = "cut" /\ p \in stop
    /\ record[p] = <<502>> => outcome[p] = "cut" /\ p \notin stop
    /\ record[p] # <<>> => node[used[p]] # "purged"

\* A handler that has returned has given up its upstream connection, and with
\* it the gateway slot, except when a failed write made it leave early.
UpstreamReleased ==
  \A p \in link : ~ LivePost(p) => outcome[p] = "cut" /\ p \notin stop

\* Once a conversation is idle its stored answers are final: a poller that sees
\* generation_in_progress = false has read the last version of every answer.
FinalWhenIdle ==
  [][\A p \in Posts :
       HasRow(p) /\ active[postConv[p]] = None => stored'[p] = stored[p]]_vars

\* A stop takes effect: the post that was active when it was pressed ends,
\* whatever the machine and the client do.
StopEnds == \A p \in Posts : p \in stop ~> phase[p] = "over"

\* Refinement: activeGenerations hands out turns.
Turns == INSTANCE ConversationTurns WITH
  Messages <- Posts,
  gen <- active,
  spent <- {p \in Posts : phase[p] # "new"}

\* The handlers implement ConversationTurns: one post at a time generates for
\* a conversation, and none that was refused, stopped or lost generates again.
ImplementsTurns == Turns!Spec
=============================================================================
