---------------------------- MODULE StreamAdapter ----------------------------
(***************************************************************************)
(* One answer on its way from the model server through the gateway         *)
(* (mlx-gateway/server.mjs) and the dashboard (proxyOpenAI and             *)
(* streamDashboardChat of dashboard/src/proxy.js, providers.js).           *)
(*                                                                         *)
(* A stream is a sequence of symbols: a payload stands for one line        *)
(* without its end ("metrics" for the two lines of the gateway's own       *)
(* event).  Each hop reads it in chunks cut anywhere between two symbols;  *)
(* a cut inside a line makes no difference, both readers put the parts     *)
(* together again.  Numbers are abstracted to where they come from.        *)
(***************************************************************************)
EXTENDS Integers, SequencesExt

CONSTANTS Answers,    \* payload sequences of the model server
          Providers,  \* values of nodes.provider
          None

Payloads == {"delta", "usage", "done"}

ASSUME AnswersAssumption == Answers \subseteq (Seq(Payloads) \ {<<>>})
ASSUME ProviderAssumption ==
  Providers \subseteq {"swiftlm", "vllm", "llamacpp", "generic"}

CR == "cr"
LF == "lf"
Symbols == Payloads \cup {"metrics", CR, LF}
Sources == {"reported", "observed"}     \* where a number of a record is from

\* None is neither one of the values it stands beside nor a request's record.
ASSUME NoneAssumption ==
  /\ None # 200 /\ None \notin Sources
  /\ None \notin [status : {200, 502, None}, tokens : Sources \cup {None},
                  queue : Sources \cup {None}, ttft : Sources \cup {None},
                  speed : Sources \cup {None}]

VARIABLES
  \* the request and what the model server answers
  mode,      \* "api" and "chat" are streamed, "json" is not
  provider,
  answer,    \* the payloads it sends
  body,      \* the symbols of the stream
  closed,    \* how the last event ends: "event", "line" or "open"
  \* the gateway
  fed,       \* symbols read
  gw,        \* job: sseBuffer, firstTokenAt, token counts, outputChunks
  piped,     \* symbols written to the dashboard
  piping,    \* the response has not been ended
  \* the dashboard
  taken,     \* symbols read
  db,        \* buffer, the metrics collector, the answer's text (chat), the
             \* symbols written to the client (api)
  record,    \* request_logs
  \* history
  split      \* a read of the dashboard ended between a CR and its LF

input   == <<mode, provider, answer, body, closed>>
gateway == <<fed, gw, piped, piping>>
dash    == <<taken, db, record, split>>
vars == <<input, gateway, dash>>

-----------------------------------------------------------------------------
(* The request and the answer.                                             *)

\* prepareRequestBody: what a request asks for after the adapter has passed it.
Prepared(p, fields, stream) ==
  LET thinking == IF "enable_thinking" \notin fields THEN {}
                  ELSE CASE p = "swiftlm" -> {"enable_thinking"}
                         [] p = "vllm"    -> {"chat_template_kwargs"}
                         [] OTHER         -> {}
  IN  (fields \ {"enable_thinking"}) \cup thinking
        \cup (IF stream THEN {"include_usage"} ELSE {})

\* A model server reports usage on a stream only when it is asked to.
Reports(sent, stream) ==
  {a \in Answers : stream /\ "include_usage" \notin sent
                     => "usage" \notin ToSet(a)}

\* Every payload with two line ends behind it, but for the last one's.
Written(payloads, eol, close) ==
  LET part    == 1 + 2 * Len(eol)
      missing == CASE close = "event" -> 0
                   [] close = "line"  -> Len(eol)
                   [] OTHER           -> 2 * Len(eol)
  IN  [i \in 1..(part * Len(payloads) - missing) |->
         LET at == (i - 1) % part
         IN  IF at = 0 THEN payloads[((i - 1) \div part) + 1]
             ELSE eol[((at - 1) % Len(eol)) + 1]]

Init ==
  /\ mode \in {"api", "chat", "json"} /\ provider \in Providers
  /\ \E fields \in {{}, {"enable_thinking"}} :
       answer \in Reports(Prepared(provider, fields, mode # "json"), mode # "json")
  /\ closed \in {"event", "line", "open"}
  /\ \E eol \in {<<LF>>, <<CR, LF>>} : body = Written(answer, eol, closed)
  /\ fed = 0 /\ piped = <<>> /\ piping = TRUE
  /\ gw = [rest |-> <<>>, first |-> FALSE, usage |-> FALSE, chunks |-> 0]
  /\ taken = 0 /\ record = None /\ split = FALSE
  /\ db = [rest |-> <<>>, first |-> FALSE, usage |-> FALSE, reported |-> None,
           text |-> <<>>, out |-> <<>>]

-----------------------------------------------------------------------------
(* Cutting a stream into events.                                           *)

\* What s has of T, in order.
Only(s, T) ==
  LET upTo[i \in 0..Len(s)] ==
        IF i = 0 THEN <<>>
        ELSE IF s[i] \in T THEN Append(upTo[i - 1], s[i]) ELSE upTo[i - 1]
  IN  upTo[Len(s)]

\* One more symbol: chunk.replace(/\r\n/g, "\n") takes the CR away if it came
\* with this chunk, and the loop over indexOf("\n\n") cuts off an event.
Took(d, c, behindCR, Handle(_, _)) ==
  LET rest == IF c = LF /\ behindCR THEN Front(d.rest) ELSE d.rest
  IN  IF c = LF /\ rest # <<>> /\ Last(rest) = LF
      THEN [Handle(d, Front(rest)) EXCEPT !.rest = <<>>]
      ELSE [d EXCEPT !.rest = Append(rest, c)]

\* A whole chunk: complete events are handled, what is left stays in rest.
TookAll(d, chunk, Handle(_, _)) ==
  LET upTo[i \in 0..Len(chunk)] ==
        IF i = 0 THEN d
        ELSE Took(upTo[i - 1], chunk[i], i > 1 /\ chunk[i - 1] = CR, Handle)
  IN  upTo[Len(chunk)]

\* The data lines of an event.  A line keeps a CR before its LF.
Data(event) == Only(event, Symbols \ {CR, LF})

\* The event consists of one line, as it was sent.
Is(event, payload) == Only(event, Symbols \ {LF}) = <<payload>>

\* Its data parses as JSON: one line, a CR behind it is white space.
Parses(event, payload) == Data(event) = <<payload>>

\* The "event:" line is there, at the start of a line.
NamesMetrics(event) ==
  \E i \in DOMAIN event : event[i] = "metrics" /\ (i = 1 \/ event[i - 1] = LF)

-----------------------------------------------------------------------------
(* The gateway.                                                            *)

\* What parseSse notes of one event.
Observe(job, event) ==
  [job EXCEPT !.first = @ \/ Parses(event, "delta"),
              !.chunks = @ + (IF Parses(event, "delta") THEN 1 ELSE 0),
              !.usage = @ \/ Parses(event, "usage")]

\* A chunk is parsed, and passed on as it came.
GatewayReads(n) ==
  /\ mode # "json" /\ fed + n <= Len(body)
  /\ LET chunk == SubSeq(body, fed + 1, fed + n)
     IN  /\ gw' = TookAll(gw, chunk, Observe)
         /\ piped' = piped \o chunk
  /\ fed' = fed + n
  /\ UNCHANGED <<input, piping, dash>>

\* providerHeaders: only a swiftlm node is asked for the gateway's metrics.
WantsMetrics == provider = "swiftlm"

\* An event that SwiftLM did not complete is not parsed.
GatewayEnds ==
  /\ mode # "json" /\ piping /\ fed = Len(body)
  /\ piped' = IF WantsMetrics THEN piped \o <<"metrics", LF, LF>> ELSE piped
  /\ piping' = FALSE
  /\ UNCHANGED <<input, fed, gw, dash>>

-----------------------------------------------------------------------------
(* The dashboard.                                                          *)

\* parseMetrics on the data of a consumed event: what the gateway knew, or
\* nothing if other data came with it.
ReportedBy(event) ==
  IF Parses(event, "metrics")
  THEN [tokens |-> gw.usage, queue |-> TRUE, ttft |-> gw.first,
        speed |-> gw.usage /\ gw.first]
  ELSE None

SetReported(d, event) ==
  IF ReportedBy(event) = None THEN d ELSE [d EXCEPT !.reported = ReportedBy(event)]

Consumed(event) == WantsMetrics /\ NamesMetrics(event)

\* observeChunk
Seen(d, event) == [d EXCEPT !.first = @ \/ Parses(event, "delta"),
                            !.usage = @ \/ Parses(event, "usage")]

\* Mutant: the gateway's event is noted and forwarded.
Forward_Metrics(d, event) ==
  [IF Consumed(event) THEN SetReported(d, event) ELSE Seen(d, event)
     EXCEPT !.out = @ \o event \o <<LF, LF>>]

\* forwardEvent of proxyOpenAI.
Forward(d, event) ==
  IF Consumed(event) THEN SetReported(d, event)
  ELSE [Seen(d, event) EXCEPT !.out = @ \o event \o <<LF, LF>>]

\* Mutant: the end mark is read like any other data.
Read_DoneAsText(d, event) ==
  IF Data(event) = <<>> THEN d
  ELSE IF Consumed(event) THEN SetReported(d, event)
  ELSE IF Parses(event, "delta")
       THEN [Seen(d, event) EXCEPT !.text = Append(@, "delta")]
  ELSE IF Parses(event, "usage") THEN Seen(d, event)
  ELSE [d EXCEPT !.first = TRUE, !.text = Append(@, "raw")]

\* consumeEvent of streamDashboardChat; what does not parse becomes text.
Read(d, event) ==
  IF Data(event) = <<>> \/ Is(event, "done") THEN d
  ELSE IF Consumed(event) THEN SetReported(d, event)
  ELSE IF Parses(event, "delta")
       THEN [Seen(d, event) EXCEPT !.text = Append(@, "delta")]
  ELSE IF Parses(event, "usage") THEN Seen(d, event)
  ELSE [d EXCEPT !.first = TRUE, !.text = Append(@, "raw")]

Handled(d, event) == IF mode = "api" THEN Forward(d, event) ELSE Read(d, event)

DashboardReads(n) ==
  /\ mode # "json" /\ record = None
  /\ taken + n <= Len(piped)
  /\ db' = TookAll(db, SubSeq(piped, taken + 1, taken + n), Handled)
  /\ taken' = taken + n
  /\ split' = (split \/ piped[taken + n] = CR)
  /\ UNCHANGED <<input, gateway, record>>

\* Mutant: a reported record is taken as a whole.
Result_Whole(d, status) ==
  LET from(reported, observed) ==
        IF reported THEN "reported" ELSE IF observed THEN "observed" ELSE None
      has(field) == d.reported # None /\ d.reported[field]
  IN  [status |-> IF mode = "chat" /\ d.text = <<>> THEN None ELSE status,
       tokens |-> from(has("tokens"), d.reported = None /\ d.usage),
       queue  |-> from(has("queue"), FALSE),
       ttft   |-> from(has("ttft"), d.first),
       speed  |-> from(has("speed"), d.usage /\ d.first)]

\* metricsCollector.result(): a reported number wins, one by one.  A chat whose
\* text is empty leaves no record (status None).
Result(d, status) ==
  LET from(reported, observed) ==
        IF reported THEN "reported" ELSE IF observed THEN "observed" ELSE None
      has(field) == d.reported # None /\ d.reported[field]
  IN  [status |-> IF mode = "chat" /\ d.text = <<>> THEN None ELSE status,
       tokens |-> from(has("tokens"), d.usage),
       queue  |-> from(has("queue"), FALSE),
       ttft   |-> from(has("ttft"), d.first),
       speed  |-> from(has("speed"), (has("tokens") \/ d.usage) /\ d.first)]

\* The stream is over: a rest is forwarded as it is, or read as an event.
DashboardEnds ==
  /\ mode # "json" /\ record = None
  /\ ~ piping /\ taken = Len(piped)
  /\ db' = [IF mode = "api" THEN [db EXCEPT !.out = @ \o db.rest]
            ELSE Read(db, db.rest) EXCEPT !.rest = <<>>]
  /\ record' = Result(db', 200)
  /\ UNCHANGED <<input, gateway, taken, split>>

\* The connection breaks: the catch block keeps what was measured.
DashboardCut ==
  /\ record = None
  /\ record' = Result(db, 502)
  /\ UNCHANGED <<input, gateway, taken, db, split>>

\* An answer that is not streamed: parsed.usage, and readJsonMetrics, which
\* only a llama.cpp node has.
JsonAnswer ==
  /\ mode = "json" /\ record = None
  /\ db' = [db EXCEPT !.usage = "usage" \in ToSet(answer),
       !.reported = IF provider = "llamacpp"
                    THEN [tokens |-> FALSE, queue |-> FALSE, ttft |-> FALSE,
                          speed |-> TRUE]
                    ELSE None]
  /\ record' = Result(db', 200)
  /\ UNCHANGED <<input, gateway, taken, split>>

-----------------------------------------------------------------------------
Next ==
  \/ \E n \in 1..Len(body) : GatewayReads(n)
  \/ \E n \in 1..(Len(body) + 3) : DashboardReads(n)
  \/ GatewayEnds \/ DashboardEnds \/ DashboardCut \/ JsonAnswer

Spec == Init /\ [][Next]_vars

-----------------------------------------------------------------------------
(* Properties.                                                             *)

Complete == record # None /\ record.status = 200

\* Between two payloads there is a blank line.
Separated(s) ==
  \A i, j \in DOMAIN s : i < j /\ {s[i], s[j]} \cap {CR, LF} = {} =>
    \E k \in i..(j - 2) :
       s[k] = LF /\ (s[k + 1] = LF \/ (s[k + 1] = CR /\ s[k + 2] = LF))

\* A client of the API reads the model server's events: each once, in order,
\* a blank line between two, and nothing of the gateway's, however the stream
\* was cut on either hop.  Only next to the gateway's own event can one be
\* lost: when a read of the dashboard cuts a CRLF before it, or the model
\* server stops without ending its last event.
ClientStream ==
  mode = "api" /\ (closed = "event" \/ ~ WantsMetrics) =>
    /\ IsPrefix(Data(db.out), answer)
    /\ Separated(db.out)
    /\ Complete /\ (~ split \/ ~ WantsMetrics) => Data(db.out) = answer

\* The stored answer of a chat consists of the deltas, in order, unless a read
\* of the dashboard cut a CRLF, and even if the connection breaks.
AnswerText ==
  mode = "chat" /\ (closed = "event" \/ ~ WantsMetrics) /\ ~ split =>
    LET deltas == Only(answer, {"delta"})
    IN  /\ IsPrefix(db.text, deltas)
        /\ Complete => db.text = deltas

\* Token counts that the model server sent are in the record of a request
\* that came through, even if the reads of the gateway cut a CRLF and hid
\* them from its own metrics event.
UsageRecorded ==
  Complete /\ "usage" \in ToSet(answer) /\ closed = "event" /\ ~ split =>
    record.tokens # None
=============================================================================
