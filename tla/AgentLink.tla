------------------------------ MODULE AgentLink ------------------------------
(***************************************************************************)
(* How a gateway and the dashboard come to know each other and recognise   *)
(* each other's requests: enrollment with a one-time token                 *)
(* (mlx-gateway/join.mjs, the enroll handler of dashboard/src/server.js),  *)
(* then signed heartbeats and signed inference requests (nodeAgent.mjs and *)
(* nodeAuth.js, two copies of one scheme).                                 *)
(*                                                                         *)
(* One gateway with one URL; join may be run again after a failure.  The   *)
(* two clocks differ by a constant.  A message can be lost, delayed or     *)
(* delivered twice, either process can be restarted, and the dashboard can *)
(* crash between two statements of the enroll handler.  A signature is     *)
(* taken to be right exactly when both sides hold the secret of one node.  *)
(***************************************************************************)
EXTENDS Integers, Sequences, FiniteSets

CONSTANTS Tokens, Nodes, Joins,
          Heartbeats, Calls,  \* messages to the dashboard, to the gateway
          Window,             \* DEFAULT_TIMESTAMP_WINDOW_MS
          TTL,                \* how long a token can be used
          MaxTime,            \* bound: the dashboard's clock
          Skews,              \* bound: the gateway's clock minus it
          MaxTaken,           \* bound: acceptances of one message
          None

ASSUME WindowAssumption == Window \in Nat \ {0} /\ TTL \in Nat \ {0}
ASSUME SkewAssumption == Skews \subseteq Int
ASSUME MessageAssumption == Heartbeats \cap Calls = {}
ASSUME BoundAssumption == MaxTime \in Nat
ASSUME NoneAssumption == None \notin Nodes /\ None \notin Tokens /\ None \notin Int

Messages == Heartbeats \cup Calls

VARIABLES
  now, skew,
  \* the dashboard's database
  token,   \* enrollment_tokens
  node,    \* "none", "bare" (no secret yet), "enrolled" or "deleted"
  \* runs of join.mjs
  join,
  \* the gateway's machine
  file,    \* the node in .state/node-agent.json
  agent,   \* agentState of the running gateway
  \* messages
  msg,     \* who signed it and when, by its own clock
  seen,    \* the nonce caches: when an entry expires, or None
  \* history
  cut,     \* nodes whose enrollment a crash cut short
  taken    \* when a message was acted on by the process that receives it

dbVars   == <<token, node, cut>>
hostVars == <<join, file, agent>>
msgVars  == <<msg, seen, taken>>
vars == <<now, skew, dbVars, hostVars, msgVars>>

TokenStates == {"unborn", "pending", "used", "gone"}
JoinPhases  == {"new", "sent", "answered", "saved", "failed"}

Init ==
  /\ now = 0 /\ skew \in Skews
  /\ token = [t \in Tokens |-> [state |-> "unborn", expires |-> 0, node |-> None]]
  /\ node = [n \in Nodes |-> "none"] /\ cut = {}
  /\ join = [j \in Joins |-> [phase |-> "new", token |-> None, node |-> None]]
  /\ file = None /\ agent = None
  /\ msg = [m \in Messages |-> [node |-> None, at |-> 0]]
  /\ seen = [m \in Messages |-> None] /\ taken = [m \in Messages |-> <<>>]

Tick == /\ now < MaxTime
        /\ now' = now + 1
        /\ UNCHANGED <<skew, dbVars, hostVars, msgVars>>

-----------------------------------------------------------------------------
(* Tokens.                                                                 *)

\* pruneExpiredEnrollmentTokens: expired tokens that were not used are gone.
Pruned == [t \in Tokens |->
  IF token[t].state = "pending" /\ token[t].expires <= now
  THEN [token[t] EXCEPT !.state = "gone"] ELSE token[t]]

IssueToken(t) ==
  /\ token[t].state = "unborn"
  /\ token' = [Pruned EXCEPT ![t] = [state |-> "pending",
                                     expires |-> now + TTL, node |-> None]]
  /\ UNCHANGED <<now, skew, node, cut, hostVars, msgVars>>

\* The administrator revokes a token; a used one stays.
DeleteToken(t) ==
  /\ token[t].state = "pending"
  /\ token' = [token EXCEPT ![t].state = "gone"]
  /\ UNCHANGED <<now, skew, node, cut, hostVars, msgVars>>

-----------------------------------------------------------------------------
(* Enrollment.                                                             *)

SendJoin(j, t) ==
  /\ join[j].phase = "new"
  /\ token[t].state # "unborn"
  /\ join' = [join EXCEPT ![j] = [phase |-> "sent", token |-> t, node |-> None]]
  /\ UNCHANGED <<now, skew, dbVars, file, agent, msgVars>>

\* Mutant: used_at is not looked at.
Redeemable_Reused(t) == \/ token[t].state = "pending" /\ token[t].expires > now
                        \/ token[t].state = "used"

Redeemable(t) == token[t].state = "pending" /\ token[t].expires > now

\* origin_base_url is UNIQUE and every join names the gateway's one URL.
UrlFree == \A n \in Nodes : node[n] \in {"none", "deleted"}

Ended(j, phase) == join' = [join EXCEPT ![j].phase = phase]

\* 401, 409 or 410 for the token, 409 for the URL; the token is not touched.
EnrollRefused(j) ==
  /\ join[j].phase = "sent"
  /\ ~ Redeemable(join[j].token) \/ ~ UrlFree
  /\ token' = Pruned
  /\ Ended(j, "failed")
  /\ UNCHANGED <<now, skew, node, cut, file, agent, msgVars>>

Redeems(j, n) == /\ join[j].phase = "sent"
                 /\ Redeemable(join[j].token)
                 /\ UrlFree
                 /\ node[n] = "none"

Consumed(t, n) == [Pruned EXCEPT ![t].state = "used", ![t].node = n]

\* createNode, setNodeSecret and consumeEnrollmentToken; the answer holds the
\* only copy of the secret.
Enroll(j, n) ==
  /\ Redeems(j, n)
  /\ node' = [node EXCEPT ![n] = "enrolled"]
  /\ token' = Consumed(join[j].token, n)
  /\ join' = [join EXCEPT ![j].phase = "answered", ![j].node = n]
  /\ UNCHANGED <<now, skew, cut, file, agent, msgVars>>

\* Mutant: the machine is not removed again.
EnrollLate_KeepsNode(j, n) ==
  /\ Redeems(j, n)
  /\ now < MaxTime
  /\ token[join[j].token].expires <= now + 1
  /\ now' = now + 1
  /\ node' = [node EXCEPT ![n] = "enrolled"]
  /\ token' = Pruned
  /\ Ended(j, "failed")
  /\ UNCHANGED <<skew, cut, file, agent, msgVars>>

\* The token expires between the first look at it and the UPDATE that should
\* consume it: the machine is removed again and the join refused.
EnrollLate(j, n) ==
  /\ Redeems(j, n)
  /\ now < MaxTime
  /\ token[join[j].token].expires <= now + 1
  /\ now' = now + 1
  /\ node' = [node EXCEPT ![n] = "deleted"]
  /\ token' = Pruned
  /\ Ended(j, "failed")
  /\ UNCHANGED <<skew, cut, file, agent, msgVars>>

\* A new dashboard process starts with an empty heartbeatNonceCache.
Forgotten(ms) ==
  /\ seen' = [m \in Messages |-> IF m \in ms THEN None ELSE seen[m]]
  /\ taken' = [m \in Messages |-> IF m \in ms THEN <<>> ELSE taken[m]]

\* The dashboard dies behind one of the three statements.
EnrollCrash(j, n) ==
  /\ Redeems(j, n)
  /\ \/ node' = [node EXCEPT ![n] = "bare"] /\ token' = Pruned
     \/ node' = [node EXCEPT ![n] = "enrolled"] /\ token' = Pruned
     \/ node' = [node EXCEPT ![n] = "enrolled"]
        /\ token' = Consumed(join[j].token, n)
  /\ cut' = cut \cup {n}
  /\ Ended(j, "failed")
  /\ Forgotten(Heartbeats)
  /\ UNCHANGED <<now, skew, file, agent, msg>>

\* join.mjs writes the state file; a file that cannot be written, or an
\* answer that never came, costs the secret.
JoinEnds(j) ==
  /\ join[j].phase = "answered"
  /\ \/ Ended(j, "saved") /\ file' = join[j].node
     \/ Ended(j, "failed") /\ UNCHANGED file
  /\ UNCHANGED <<now, skew, dbVars, agent, msgVars>>

\* The administrator deletes the machine; the token keeps used_at only.
DeleteNode(n) ==
  /\ node[n] \in {"bare", "enrolled"}
  /\ node' = [node EXCEPT ![n] = "deleted"]
  /\ token' = [t \in Tokens |->
       [token[t] EXCEPT !.node = IF @ = n THEN None ELSE @]]
  /\ UNCHANGED <<now, skew, cut, hostVars, msgVars>>

-----------------------------------------------------------------------------
(* Signed messages.                                                        *)

DashboardRestart == /\ Forgotten(Heartbeats)
                    /\ UNCHANGED <<now, skew, dbVars, hostVars, msg>>

\* loadAgentState is read once, when the gateway starts.
GatewayRestart == /\ agent' = file
                  /\ Forgotten(Calls)
                  /\ UNCHANGED <<now, skew, dbVars, join, file, msg>>

\* sign
Sign(m, n, time) ==
  /\ msg[m].node = None
  /\ msg' = [msg EXCEPT ![m] = [node |-> n, at |-> time]]
  /\ UNCHANGED <<now, skew, dbVars, hostVars, seen, taken>>

SendHeartbeat(m) == m \in Heartbeats /\ agent # None /\ Sign(m, agent, now + skew)

\* gatewayIdentityHeaders: a request to an enrolled machine.
SendCall(m, n) == m \in Calls /\ node[n] = "enrolled" /\ Sign(m, n, now)

\* The receiver's clock.
Clock(m) == IF m \in Heartbeats THEN now ELSE now + skew

\* The dashboard checks every heartbeat; a gateway that has no identity, or was
\* not restarted since it was given one, checks nothing.
Verifies(m) == m \in Heartbeats \/ agent # None

\* The receiver has the secret the message was signed with.
Recognised(m) == IF m \in Heartbeats THEN node[msg[m].node] = "enrolled"
                                     ELSE msg[m].node = agent

InWindow(m) == Clock(m) - msg[m].at \in (- Window)..Window

\* Mutant: an entry lives one window from the timestamp of its message.
Claim_FromTimestamp(m) ==
  LET kind == IF m \in Heartbeats THEN Heartbeats ELSE Calls
      kept == [k \in Messages |->
                 IF k \in kind /\ seen[k] # None /\ seen[k] <= Clock(m)
                 THEN None ELSE seen[k]]
  IN  /\ kept[m] = None
      /\ seen' = [kept EXCEPT ![m] = msg[m].at + Window]

\* nonceCache.claim: expired entries go, and a nonce that is still there is
\* not taken again.
Claim(m) ==
  LET kind == IF m \in Heartbeats THEN Heartbeats ELSE Calls
      kept == [k \in Messages |->
                 IF k \in kind /\ seen[k] # None /\ seen[k] <= Clock(m)
                 THEN None ELSE seen[k]]
  IN  /\ kept[m] = None
      /\ seen' = [kept EXCEPT ![m] = Clock(m) + Window]

\* A message arrives, for the first time or again, and is acted on: verify
\* accepts it, or nobody looks.  A message that is refused changes nothing but
\* the pruned cache.
Deliver(m) ==
  /\ msg[m].node # None
  /\ Len(taken[m]) < MaxTaken
  /\ \/ Verifies(m) /\ Recognised(m) /\ InWindow(m) /\ Claim(m)
     \/ ~ Verifies(m) /\ UNCHANGED seen
  /\ taken' = [taken EXCEPT ![m] = Append(@, Clock(m))]
  /\ UNCHANGED <<now, skew, dbVars, hostVars, msg>>

-----------------------------------------------------------------------------
Next ==
  \/ Tick \/ DashboardRestart \/ GatewayRestart
  \/ \E t \in Tokens : IssueToken(t) \/ DeleteToken(t)
  \/ \E j \in Joins :
       \/ EnrollRefused(j) \/ JoinEnds(j)
       \/ \E t \in Tokens : SendJoin(j, t)
       \/ \E n \in Nodes : Enroll(j, n) \/ EnrollLate(j, n) \/ EnrollCrash(j, n)
  \/ \E n \in Nodes : DeleteNode(n)
  \/ \E m \in Messages : \/ SendHeartbeat(m) \/ Deliver(m)
                         \/ \E n \in Nodes : SendCall(m, n)

Spec == Init /\ [][Next]_vars

-----------------------------------------------------------------------------
(* Properties.                                                             *)

TypeOK ==
  /\ now \in 0..MaxTime /\ skew \in Skews
  /\ token \in [Tokens -> [state : TokenStates, expires : 0..(MaxTime + TTL),
                           node : Nodes \cup {None}]]
  /\ node \in [Nodes -> {"none", "bare", "enrolled", "deleted"}]
  /\ cut \in SUBSET Nodes
  /\ join \in [Joins -> [phase : JoinPhases, token : Tokens \cup {None},
                         node : Nodes \cup {None}]]
  /\ file \in Nodes \cup {None} /\ agent \in Nodes \cup {None}
  /\ msg \in [Messages -> [node : Nodes \cup {None}, at : Int]]
  /\ seen \in [Messages -> Int \cup {None}]
  /\ taken \in [Messages -> Seq(Int)]

\* A token brings one machine into the fleet: of all the join runs that use
\* it, in whatever order their requests arrive, at most one is given an identity.
OneIdentityPerToken ==
  \A i, j \in Joins :
    join[i].token = join[j].token /\ join[i].node # None /\ join[j].node # None
      => i = j

\* Dashboard and gateway agree on who is enrolled: every machine the dashboard
\* keeps was paid for with a token, unless a crash cut its enrollment short,
\* and an identity on the gateway's side is one the dashboard has kept with
\* its secret, unless an administrator deleted it.
Accounted ==
  /\ \A n \in Nodes : node[n] \in {"bare", "enrolled"} =>
       n \in cut \/ \E t \in Tokens : token[t].state = "used" /\ token[t].node = n
  /\ \A n \in {file, agent} \cup {join[j].node : j \in Joins} :
       n # None => node[n] \in {"enrolled", "deleted"} /\ n \notin cut

\* How far the nonce cache of a process that verifies goes (nodeAuth.js:72-88
\* and 94): a message that arrives again is acted on again only when a whole
\* window lies between, only if its sender's clock was not behind when it was
\* accepted before, and never more than three times in all.
RepeatedOnlyAfterWindow ==
  \A m \in Messages : Verifies(m) =>
    /\ Len(taken[m]) <= 3
    /\ \A i, k \in 1..Len(taken[m]) :
         i < k => /\ taken[m][k] >= taken[m][i] + Window
                  /\ msg[m].at >= taken[m][i]

\* nodeAuth.js:69-71 says that a captured request cannot be sent again and
\* cannot outlast the window by waiting, docs/inference-nodes.md:170 that the
\* same signature is refused the second time unless the process was restarted.
\* Not so: an entry lives one window from when it was claimed, and when the
\* sender's clock is not behind, its timestamp is good for at least as long.
AcceptedOnce == \A m \in Messages : Verifies(m) => Len(taken[m]) <= 1
=============================================================================
