----------------------------- MODULE ChatClient -----------------------------
(***************************************************************************)
(* The browser side of a chat: dashboard/public/app.js and                 *)
(* message-queue.js, against the part of the server it can observe (which  *)
(* message a conversation is answering).                                   *)
(*                                                                         *)
(* One action is one callback of the page: code between two awaits.        *)
(* Requests and their answers travel separately and in any order.  A GET   *)
(* is answered with the server's state when it is sent and handled later,  *)
(* so what the page reads may be stale.                                    *)
(***************************************************************************)
EXTENDS Integers, Sequences, FiniteSets

CONSTANTS Convs,      \* conversations
          Messages,   \* what the user types, each once
          Limit,      \* MAX_QUEUED_MESSAGES
          MaxPages,   \* bound: page loads
          MaxLoads,   \* bound: unanswered GETs of one page
          MaxStops,   \* bound: stop requests on their way
          None

ASSUME LimitAssumption == Limit \in Nat \ {0}
ASSUME NoneAssumption == None \notin Messages \cup Convs
ASSUME BoundsAssumption == MaxPages \in Nat \ {0} /\ IsFiniteSet(Messages)

VARIABLES
  \* the server
  gen,       \* the message a conversation is answering, or None
  wire,      \* posts that have not reached the server
  stops,     \* stop requests that have not reached it
  refused,   \* messages answered 409
  \* the page
  page,      \* page loads so far
  current,   \* state.current.id
  shows,     \* state.current.generation_in_progress
  sending, active, stopping,
  queue,     \* messageQueue
  timer,     \* conversation of the poll timer
  loads,     \* GETs whose answer has not been handled
  to,        \* conversation a message was written in
  run,       \* the await runMessage is at, for each message
  typed,     \* messages taken from the input box, in order
  posted,    \* messages passed to runMessage, in order
  how        \* "unsent", "direct", or the state a message was queued in

serverVars == <<gen, wire, stops, refused>>
viewVars   == <<current, shows, timer, loads>>
sendVars   == <<sending, active, stopping, queue, run, posted>>
vars == <<serverVars, page, viewVars, sendVars, to, typed, how>>

Runs == {"none", "posting", "streaming", "reloading", "closing", "over"}
Elems(s) == {s[i] : i \in 1..Len(s)}
Loads == [kind : {"select", "poll"}, conv : Convs, gen : BOOLEAN]

Init == /\ gen = [c \in Convs |-> None] /\ wire = {} /\ stops = {}
        /\ refused = {}
        /\ page = 1 /\ current = None /\ shows = FALSE
        /\ sending = FALSE /\ active = None /\ stopping = FALSE
        /\ queue = <<>> /\ timer = None /\ loads = {}
        /\ to = [m \in Messages |-> None] /\ run = [m \in Messages |-> "none"]
        /\ typed = <<>> /\ posted = <<>>
        /\ how = [m \in Messages |-> "unsent"]

-----------------------------------------------------------------------------
(* Sending.                                                                *)

\* The head of runMessage, up to the await of its fetch.
StartRun(m, base) ==
  /\ sending' = TRUE
  /\ active' = to'[m]
  /\ stopping' = FALSE
  /\ run' = [base EXCEPT ![m] = "posting"]
  /\ posted' = Append(posted, m)
  /\ wire' = wire \cup {m}

Finish_Kept(m) ==
  /\ UNCHANGED <<to, queue>>
  /\ IF queue = <<>>
     THEN /\ run' = [run EXCEPT ![m] = "over"]
          /\ sending' = FALSE /\ active' = None /\ stopping' = FALSE
          /\ UNCHANGED <<posted, wire>>
     ELSE StartRun(Head(queue), [run EXCEPT ![m] = "over"])

Finish_NoDrain(m) ==
  /\ run' = [run EXCEPT ![m] = "over"]
  /\ sending' = FALSE /\ active' = None /\ stopping' = FALSE
  /\ UNCHANGED <<to, queue, posted, wire>>

Finish_Lifo(m) ==
  /\ UNCHANGED to
  /\ IF queue = <<>>
     THEN /\ run' = [run EXCEPT ![m] = "over"]
          /\ sending' = FALSE /\ active' = None /\ stopping' = FALSE
          /\ UNCHANGED <<queue, posted, wire>>
     ELSE /\ StartRun(queue[Len(queue)], [run EXCEPT ![m] = "over"])
          /\ queue' = SubSeq(queue, 1, Len(queue) - 1)

\* drainMessageQueue after runMessage's finally, in the same microtask run.
Finish(m) ==
  /\ UNCHANGED to
  /\ IF queue = <<>>
     THEN /\ run' = [run EXCEPT ![m] = "over"]
          /\ sending' = FALSE /\ active' = None /\ stopping' = FALSE
          /\ UNCHANGED <<queue, posted, wire>>
     ELSE /\ StartRun(Head(queue), [run EXCEPT ![m] = "over"])
          /\ queue' = Tail(queue)

\* state.current.generation_in_progress after Finish, if it was s before:
\* runMessage sets it when the next message belongs to the shown conversation.
ShowsNext(s) ==
  s \/ (queue # <<>> /\ current # None /\ to[Head(queue)] = current)

CanSend(m) == current # None /\ run[m] = "none" /\ m \notin Elems(typed)

SendNow_WhileSending(m) ==
  /\ CanSend(m)
  /\ ~ shows
  /\ to' = [to EXCEPT ![m] = current]
  /\ typed' = Append(typed, m)
  /\ how' = [how EXCEPT ![m] = "direct"]
  /\ StartRun(m, run)
  /\ shows' = TRUE
  /\ UNCHANGED <<gen, stops, refused, page, current, timer, loads, queue>>

\* sendMessage with nothing in the way.
SendNow(m) ==
  /\ CanSend(m)
  /\ ~ sending /\ ~ shows
  /\ to' = [to EXCEPT ![m] = current]
  /\ typed' = Append(typed, m)
  /\ how' = [how EXCEPT ![m] = "direct"]
  /\ StartRun(m, run)
  /\ shows' = TRUE
  /\ UNCHANGED <<gen, stops, refused, page, current, timer, loads, queue>>

Enqueue_Unbounded(m) ==
  /\ CanSend(m)
  /\ sending \/ shows
  /\ to' = [to EXCEPT ![m] = current]
  /\ typed' = Append(typed, m)
  /\ queue' = Append(queue, m)
  /\ how' = [how EXCEPT ![m] = IF sending THEN "sending" ELSE "watching"]
  /\ UNCHANGED <<serverVars, page, viewVars, sending, active, stopping, run, posted>>

\* sendMessage while busy, or the queue button: message-queue.js enqueue.  A
\* full queue leaves the text in the input box.
Enqueue(m) ==
  /\ CanSend(m)
  /\ sending \/ shows
  /\ Len(queue) < Limit
  /\ to' = [to EXCEPT ![m] = current]
  /\ typed' = Append(typed, m)
  /\ queue' = Append(queue, m)
  /\ how' = [how EXCEPT ![m] = IF sending THEN "sending" ELSE "watching"]
  /\ UNCHANGED <<serverVars, page, viewVars, sending, active, stopping, run, posted>>

-----------------------------------------------------------------------------
(* The run of a message.                                                   *)

\* The catch block up to await loadNodes().
RunFails(m) ==
  /\ run' = [run EXCEPT ![m] = "closing"]
  /\ shows' = (shows /\ current # to[m])
  /\ UNCHANGED <<page, current, timer, loads, sending, active, stopping, queue, to,
                 posted, typed, how>>

Accepted_Kept(m) ==
  /\ m \in wire
  /\ gen[to[m]] = None
  /\ gen' = [gen EXCEPT ![to[m]] = m]
  /\ run' = [run EXCEPT ![m] = IF @ = "posting" THEN "streaming" ELSE @]
  /\ UNCHANGED <<wire, stops, refused, page, viewVars, sending, active, stopping,
                 queue, posted, to, typed, how>>

\* The server accepts the post, or refuses it because the conversation is
\* answering; a post of an earlier page has nobody to answer to.
Accepted(m) ==
  /\ m \in wire
  /\ gen[to[m]] = None
  /\ gen' = [gen EXCEPT ![to[m]] = m]
  /\ wire' = wire \ {m}
  /\ run' = [run EXCEPT ![m] = IF @ = "posting" THEN "streaming" ELSE @]
  /\ UNCHANGED <<stops, refused, page, viewVars, sending, active, stopping,
                 queue, posted, to, typed, how>>

Refused(m) ==
  /\ m \in wire
  /\ gen[to[m]] # None
  /\ wire' = wire \ {m}
  /\ refused' = refused \cup {m}
  /\ IF run[m] = "posting"
     THEN RunFails(m)
     ELSE UNCHANGED <<page, viewVars, sendVars, to, typed, how>>
  /\ UNCHANGED <<gen, stops>>

\* fetch rejects; the post may still reach the server.
PostFails(m) ==
  /\ run[m] = "posting"
  /\ RunFails(m)
  /\ wire' \in {wire, wire \ {m}}
  /\ UNCHANGED <<gen, stops, refused>>

\* The generation of conversation c ends, finished or stopped.
GenerationEnds(c) ==
  /\ gen[c] # None
  /\ gen' = [gen EXCEPT ![c] = None]
  /\ UNCHANGED <<wire, stops, refused, page, viewVars, sendVars, to, typed,
                 how>>

\* The stream is read to its end.  If its conversation is on screen, it is
\* fetched again before the run is over.
StreamEnds(m) ==
  /\ run[m] = "streaming"
  /\ gen[to[m]] # m
  /\ IF current = to[m]
     THEN /\ run' = [run EXCEPT ![m] = "reloading"]
          /\ UNCHANGED <<to, queue, posted, wire, sending, active, stopping, shows>>
     ELSE Finish(m) /\ shows' = ShowsNext(shows)
  /\ UNCHANGED <<gen, stops, refused, page, current, timer, loads, typed,
                 how>>

\* The connection drops in mid-stream; the server goes on generating.
StreamBreaks(m) ==
  /\ run[m] = "streaming"
  /\ RunFails(m)
  /\ UNCHANGED serverVars

\* state.current = await request(...), whatever is on screen by now; then
\* await loadConversations().  If either rejects, the catch block runs.
Reloaded(m) ==
  /\ run[m] = "reloading"
  /\ \/ /\ run' = [run EXCEPT ![m] = "closing"]
        /\ current' = to[m]
        /\ shows' = FALSE
        /\ UNCHANGED <<page, timer, loads, sending, active, stopping, queue, to,
                       posted, typed, how>>
     \/ RunFails(m)
  /\ UNCHANGED serverVars

RunCloses_NoFinally(m) ==
  /\ run[m] = "closing"
  /\ run' = [run EXCEPT ![m] = "over"]
  /\ UNCHANGED <<serverVars, page, viewVars, sending, active, stopping, queue, posted,
                 to, typed, how>>

\* The last await of runMessage returns: finally, then the queue is drained.
RunCloses(m) ==
  /\ run[m] = "closing"
  /\ Finish(m)
  /\ shows' = ShowsNext(shows)
  /\ UNCHANGED <<gen, stops, refused, page, current, timer, loads, typed,
                 how>>

-----------------------------------------------------------------------------
(* Stop, conversations and polling.                                        *)

\* stopCurrentGeneration.  after: how many messages had been posted by then,
\* which tells the stop of one run from that of the next.
PressStop ==
  /\ current # None
  /\ shows \/ (sending /\ active = current)
  /\ ~ stopping /\ Cardinality(stops) < MaxStops
  /\ stopping' = TRUE
  /\ stops' = stops \cup {[conv |-> current, page |-> page,
                           after |-> Len(posted)]}
  /\ UNCHANGED <<gen, wire, refused, page, viewVars, sending, active, queue,
                 run, posted, to, typed, how>>

\* The request reaches the server: 202, or 409 with nothing to stop; or it
\* fails.  Only a failure clears state.stopping here.
StopHandled(s) ==
  /\ s \in stops
  /\ stops' = stops \ {s}
  /\ \/ gen[s.conv] # None /\ UNCHANGED stopping
     \/ stopping' = IF s.page = page THEN FALSE ELSE stopping
  /\ UNCHANGED <<gen, wire, refused, page, viewVars, sending, active, queue, run,
                 posted, to, typed, how>>

Request(kind, c) ==
  /\ Cardinality(loads) < MaxLoads
  /\ loads' = loads \cup {[kind |-> kind, conv |-> c, gen |-> gen[c] # None]}

\* selectConversation, up to its await.
Select(c) ==
  /\ Request("select", c)
  /\ timer' = None
  /\ UNCHANGED <<serverVars, page, current, shows, sendVars, to, typed, how>>

\* scheduleGenerationPolling
Schedule(c, g) == timer' = IF g THEN c ELSE None

SelectAnswered(l) ==
  /\ l \in loads
  /\ l.kind = "select"
  /\ loads' = loads \ {l}
  /\ current' = l.conv
  /\ shows' = l.gen
  /\ Schedule(l.conv, l.gen)
  /\ UNCHANGED <<serverVars, page, sendVars, to, typed, how>>

\* The timer callback, for the conversation on screen or another.
PollFires ==
  /\ timer # None
  /\ timer' = None
  /\ IF timer = current THEN Request("poll", timer) ELSE UNCHANGED loads
  /\ UNCHANGED <<serverVars, page, current, shows, sendVars, to, typed, how>>

PollAnswered(l) ==
  /\ l \in loads
  /\ l.kind = "poll"
  /\ loads' = loads \ {l}
  /\ IF l.conv = current
     THEN /\ shows' = l.gen
          /\ IF l.gen THEN Schedule(l.conv, TRUE) ELSE UNCHANGED timer
     ELSE UNCHANGED <<shows, timer>>
  /\ UNCHANGED <<serverVars, page, current, sendVars, to, typed, how>>

\* A GET fails: a poll is scheduled again, a selection is not made.
LoadFails(l) ==
  /\ l \in loads
  /\ loads' = loads \ {l}
  /\ IF l.kind = "poll" THEN Schedule(current, current # None /\ shows)
                        ELSE UNCHANGED timer
  /\ UNCHANGED <<serverVars, page, current, shows, sendVars, to, typed, how>>

\* The user reloads the page: its state is gone, what was sent is not.
ReloadPage ==
  /\ page < MaxPages
  /\ page' = page + 1
  /\ current' = None /\ shows' = FALSE /\ timer' = None /\ loads' = {}
  /\ sending' = FALSE /\ active' = None /\ stopping' = FALSE
  /\ queue' = <<>> /\ posted' = <<>>
  /\ run' = [m \in Messages |-> IF m \in Elems(typed) THEN "over" ELSE run[m]]
  /\ typed' = <<>>
  /\ UNCHANGED <<serverVars, to, how>>

-----------------------------------------------------------------------------
ServerStep == \/ \E m \in Messages : Accepted(m) \/ Refused(m)
              \/ \E c \in Convs : GenerationEnds(c)
              \/ \E s \in stops : StopHandled(s)

PageStep ==
  \/ \E m \in Messages : \/ SendNow(m) \/ Enqueue(m) \/ PostFails(m) \/ StreamEnds(m)
                         \/ StreamBreaks(m) \/ Reloaded(m) \/ RunCloses(m)
  \/ PressStop \/ PollFires \/ ReloadPage
  \/ \E c \in Convs : Select(c)
  \/ \E l \in loads : SelectAnswered(l) \/ PollAnswered(l) \/ LoadFails(l)

Next == ServerStep \/ PageStep

Spec == Init /\ [][Next]_vars

\* Requests are answered, generations end, and the page runs its callbacks.
FairSpec ==
  /\ Spec
  /\ \A m \in Messages : /\ WF_vars(Accepted(m) \/ Refused(m))
                         /\ WF_vars(StreamEnds(m)) /\ WF_vars(Reloaded(m))
                         /\ WF_vars(RunCloses(m))
  /\ \A c \in Convs : WF_vars(GenerationEnds(c))

-----------------------------------------------------------------------------
(* Properties.                                                             *)

TypeOK ==
  /\ gen \in [Convs -> Messages \cup {None}]
  /\ wire \subseteq Messages /\ refused \subseteq Messages
  /\ stops \subseteq [conv : Convs, page : 1..MaxPages, 
                    after : 0..Cardinality(Messages)]
  /\ page \in 1..MaxPages
  /\ current \in Convs \cup {None} /\ timer \in Convs \cup {None}
  /\ active \in Convs \cup {None}
  /\ shows \in BOOLEAN /\ sending \in BOOLEAN /\ stopping \in BOOLEAN
  /\ queue \in Seq(Messages) /\ Len(queue) <= Limit
  /\ loads \subseteq Loads
  /\ to \in [Messages -> Convs \cup {None}]
  /\ run \in [Messages -> Runs]
  /\ typed \in Seq(Messages) /\ posted \in Seq(Messages)
  /\ how \in [Messages -> {"unsent", "direct", "sending", "watching"}]

Running(m) == run[m] \in {"posting", "streaming", "reloading", "closing"}

\* A page runs one message at a time: sending is set exactly while a
\* runMessage is pending, for the message posted last and its conversation,
\* whatever the user types, selects or stops during its awaits.
SingleRun ==
  /\ \A m \in Messages : Running(m) =>
       sending /\ active = to[m] /\ m = posted[Len(posted)]
  /\ sending => \E m \in Messages : Running(m)

\* A message is posted at most once, and not while it still waits.
SentOnce ==
  /\ \A i, j \in 1..Len(posted) : posted[i] = posted[j] => i = j
  /\ Elems(queue) \cap Elems(posted) = {}

\* When no message is running, the queue was drained: it can only hold what
\* was queued while the page merely watched a generation it had recovered.
IdleQueueDrained ==
  ~ sending => \A m \in Elems(queue) : how[m] = "watching"

\* Typed m before n.
Before(m, n) == \E i, j \in 1..Len(typed) : i < j /\ typed[i] = m /\ typed[j] = n

\* Messages are posted in the order they were typed, and only one queued while
\* watching a recovered generation can be overtaken.
OvertakenOnlyWatching ==
  \A m \in Elems(typed), n \in Elems(posted) :
    Before(m, n) /\ m \notin Elems(posted) => how[m] = "watching"

\* Whatever becomes of the running message, its stream or its reload, the page
\* gets back to idle, and a message queued behind it is posted.
SendingEnds == sending ~> ~ sending
QueueMoves ==
  \A m \in Messages : (m \in Elems(queue) /\ sending) ~> m \notin Elems(queue)

\* Refinement: a message has had its turn when its post was handled or lost.
Turns == INSTANCE ConversationTurns WITH
  spent <- {m \in Messages : run[m] # "none" /\ m \notin wire}

\* Seen from the pages, the server and all that is on its way implement
\* ConversationTurns: neither a run that starts after a failed one, nor a
\* reload, nor a post of an earlier page that arrives late, gives a message
\* a second turn or a conversation two at a time.
ImplementsTurns == Turns!Spec

\* dashboard/README.md:11 says queued messages wait while the model handles one at a
\* time.  Not so after a broken connection: the run fails, the queue is
\* drained at once, the server still generates and refuses what it is sent.
QueuedNotRefused == \A m \in refused : how[m] = "direct"
=============================================================================
