--------------------------- MODULE AgentLinkProofs ---------------------------
(***************************************************************************)
(* Proofs about AgentLink for any tokens, machines, join runs and          *)
(* messages, any window and time to live, any clock difference and any     *)
(* bounds on the clock and on the acceptances of a message.                *)
(*                                                                         *)
(* The properties silently depend on more, which EnrollInv and NonceInv    *)
(* add: how the phase of a join run, its token and its machine go          *)
(* together, that a used token stays used, and that a nonce is kept until  *)
(* the window of the message has closed behind every acceptance of it.     *)
(***************************************************************************)
EXTENDS AgentLink, TLAPS

\* A join run has a token from the moment it is sent, an identity only with
\* an answer, and the identity is paid for: the token is used.
JoinInv ==
  \A j \in Joins :
    /\ join[j].phase = "new" <=> join[j].token = None
    /\ join[j].token # None => token[join[j].token].state # "unborn"
    /\ join[j].phase \in {"new", "sent"} => join[j].node = None
    /\ join[j].node # None => /\ join[j].token # None
                              /\ token[join[j].token].state = "used"

\* A machine whose enrollment was cut short has been created.
CutInv == \A n \in cut : node[n] # "none"

\* What was acted on had been signed; if it was verified it was in the window,
\* and its nonce is kept, or was kept, until a window after each acceptance.
ReplayInv ==
  \A m \in Messages : \A i \in 1..Len(taken[m]) :
    /\ msg[m].node # None
    /\ Verifies(m) =>
         /\ taken[m][i] - msg[m].at \in (- Window)..Window
         /\ taken[m][i] + Window <=
              IF seen[m] # None THEN seen[m] ELSE Clock(m)

\* The inductive invariants: enrollment and messages are independent.
EnrollInv == TypeOK /\ JoinInv /\ CutInv /\ OneIdentityPerToken /\ Accounted

NonceInv == TypeOK /\ ReplayInv /\ RepeatedOnlyAfterWindow

-----------------------------------------------------------------------------
(* Lemmas about the operators of the model.                                *)

TokenRecord == [state : TokenStates, expires : 0..(MaxTime + TTL),
                node : Nodes \cup {None}]

\* pruneExpiredEnrollmentTokens takes only tokens nobody has used.
LEMMA PrunedTokens ==
  ASSUME TypeOK
  PROVE  /\ Pruned \in [Tokens -> TokenRecord]
         /\ \A t \in Tokens :
              /\ Pruned[t].node = token[t].node
              /\ Pruned[t].state = "used" <=> token[t].state = "used"
              /\ Pruned[t].state = "unborn" <=> token[t].state = "unborn"
<1> SUFFICES ASSUME NEW t \in Tokens
             PROVE  /\ Pruned[t] \in TokenRecord
                    /\ Pruned[t].node = token[t].node
                    /\ Pruned[t].state = "used" <=> token[t].state = "used"
                    /\ Pruned[t].state = "unborn" <=> token[t].state = "unborn"
  BY DEF Pruned
<1>1. token[t] \in TokenRecord
  BY DEF TypeOK, TokenRecord
<1>2. CASE token[t].state = "pending" /\ token[t].expires <= now
  BY <1>1, <1>2 DEF Pruned, TokenRecord, TokenStates
<1>3. CASE ~ (token[t].state = "pending" /\ token[t].expires <= now)
  BY <1>1, <1>3 DEF Pruned
<1> QED  BY <1>2, <1>3

\* consumeEnrollmentToken marks one token, with its machine.
LEMMA ConsumedTokens ==
  ASSUME TypeOK, NEW u \in Tokens, NEW n \in Nodes
  PROVE  /\ Consumed(u, n) \in [Tokens -> TokenRecord]
         /\ Consumed(u, n)[u].state = "used"
         /\ Consumed(u, n)[u].node = n
         /\ \A t \in Tokens \ {u} : Consumed(u, n)[t] = Pruned[t]
<1>1. Pruned \in [Tokens -> TokenRecord]
  BY PrunedTokens
<1>2. Pruned[u] \in TokenRecord
  BY <1>1
<1>3. [Pruned[u] EXCEPT !.state = "used", !.node = n] \in TokenRecord
  BY <1>2 DEF TokenRecord, TokenStates
<1>4. Consumed(u, n) =
        [Pruned EXCEPT ![u] = [Pruned[u] EXCEPT !.state = "used", !.node = n]]
  BY <1>1, <1>2 DEF Consumed, TokenRecord
<1> QED  BY <1>1, <1>2, <1>3, <1>4 DEF TokenRecord

\* A join run that sends a request has a token, which has been issued.
LEMMA RedeemsToken ==
  ASSUME TypeOK, JoinInv, NEW j \in Joins, NEW n \in Nodes, Redeems(j, n)
  PROVE  /\ join[j].token \in Tokens
         /\ token[join[j].token].state = "pending"
         /\ node[n] = "none"
         /\ join[j].phase = "sent"
BY DEF TypeOK, JoinInv, Redeems, Redeemable

-----------------------------------------------------------------------------
(* Type correctness.                                                       *)

LEMMA InitTyped == Init => TypeOK
BY WindowAssumption, BoundAssumption
   DEF Init, TypeOK, TokenStates, JoinPhases, Messages

JoinRecord == [phase : JoinPhases, token : Tokens \cup {None},
               node : Nodes \cup {None}]

\* The end of a join run changes its phase only.
LEMMA EndedJoin ==
  ASSUME TypeOK, NEW j \in Joins, NEW phase \in JoinPhases, Ended(j, phase)
  PROVE  /\ join' \in [Joins -> JoinRecord]
         /\ join'[j].phase = phase
         /\ join'[j].token = join[j].token
         /\ join'[j].node = join[j].node
         /\ \A i \in Joins \ {j} : join'[i] = join[i]
BY DEF TypeOK, Ended, JoinRecord

LEMMA ForgottenTyped ==
  ASSUME TypeOK, NEW ms, Forgotten(ms)
  PROVE  /\ seen' \in [Messages -> Int \cup {None}]
         /\ taken' \in [Messages -> Seq(Int)]
<1>1. <<>> \in Seq(Int)
  OBVIOUS
<1> QED  BY <1>1 DEF TypeOK, Forgotten

LEMMA ClockTyped ==
  ASSUME TypeOK, NEW m \in Messages
  PROVE  Clock(m) \in Int
BY SkewAssumption, BoundAssumption DEF TypeOK, Clock

\* The answer that gives a join run its identity.
LEMMA AnsweredJoin ==
  ASSUME TypeOK, NEW j \in Joins, NEW n \in Nodes,
         join' = [join EXCEPT ![j].phase = "answered", ![j].node = n]
  PROVE  /\ join' \in [Joins -> JoinRecord]
         /\ join'[j].phase = "answered"
         /\ join'[j].token = join[j].token
         /\ join'[j].node = n
         /\ \A i \in Joins \ {j} : join'[i] = join[i]
<1>1. join[j] \in JoinRecord
  BY DEF TypeOK, JoinRecord
<1>2. [join[j] EXCEPT !.phase = "answered", !.node = n] \in JoinRecord
  BY <1>1 DEF JoinRecord, JoinPhases
<1>3. join' = [join EXCEPT ![j] =
                 [join[j] EXCEPT !.phase = "answered", !.node = n]]
  BY <1>1 DEF TypeOK, JoinRecord
<1> QED  BY <1>1, <1>2, <1>3 DEF TypeOK, JoinRecord

LEMMA TypeStep == TypeOK /\ JoinInv /\ [Next]_vars => TypeOK'
<1> SUFFICES ASSUME TypeOK, JoinInv, [Next]_vars PROVE TypeOK'
  OBVIOUS
<1> USE DEF dbVars, hostVars, msgVars
<1>1. CASE Tick
  BY <1>1, BoundAssumption DEF TypeOK, Tick
<1>2. CASE DashboardRestart
  BY <1>2, ForgottenTyped DEF TypeOK, DashboardRestart
<1>3. CASE GatewayRestart
  BY <1>3, ForgottenTyped DEF TypeOK, GatewayRestart
<1>4. ASSUME NEW t \in Tokens, IssueToken(t)
      PROVE  TypeOK'
  <2>1. [state |-> "pending", expires |-> now + TTL, node |-> None]
          \in TokenRecord
    BY WindowAssumption, BoundAssumption DEF TypeOK, TokenRecord, TokenStates
  <2>2. token' \in [Tokens -> TokenRecord]
    BY <1>4, <2>1, PrunedTokens DEF IssueToken
  <2> QED  BY <1>4, <2>2 DEF TypeOK, IssueToken, TokenRecord
<1>5. ASSUME NEW t \in Tokens, DeleteToken(t)
      PROVE  TypeOK'
  <2>1. token[t] \in TokenRecord
    BY DEF TypeOK, TokenRecord
  <2>2. [token[t] EXCEPT !.state = "gone"] \in TokenRecord
    BY <2>1 DEF TokenRecord, TokenStates
  <2>3. token' \in [Tokens -> TokenRecord]
    BY <1>5, <2>2 DEF TypeOK, DeleteToken, TokenRecord
  <2> QED  BY <1>5, <2>3 DEF TypeOK, DeleteToken, TokenRecord
<1>6. ASSUME NEW j \in Joins, EnrollRefused(j)
      PROVE  TypeOK'
  BY <1>6, PrunedTokens, EndedJoin
     DEF TypeOK, EnrollRefused, TokenRecord, JoinRecord, JoinPhases
<1>7. ASSUME NEW j \in Joins, JoinEnds(j)
      PROVE  TypeOK'
  <2>1. join' \in [Joins -> JoinRecord]
    BY <1>7, EndedJoin DEF JoinEnds, JoinPhases
  <2> QED  BY <1>7, <2>1 DEF TypeOK, JoinEnds, JoinRecord
<1>8. ASSUME NEW j \in Joins, NEW t \in Tokens, SendJoin(j, t)
      PROVE  TypeOK'
  BY <1>8 DEF TypeOK, SendJoin, JoinPhases
<1>9. ASSUME NEW j \in Joins, NEW n \in Nodes, Enroll(j, n)
      PROVE  TypeOK'
  <2>1. join' \in [Joins -> JoinRecord]
    BY <1>9, AnsweredJoin DEF Enroll
  <2>2. token' \in [Tokens -> TokenRecord]
    BY <1>9, RedeemsToken, ConsumedTokens DEF Enroll
  <2> QED  BY <1>9, <2>1, <2>2 DEF TypeOK, Enroll, TokenRecord, JoinRecord
<1>10. ASSUME NEW j \in Joins, NEW n \in Nodes, EnrollLate(j, n)
       PROVE  TypeOK'
  <2>1. join' \in [Joins -> JoinRecord]
    BY <1>10, EndedJoin DEF EnrollLate, JoinPhases
  <2>2. token' \in [Tokens -> TokenRecord]
    BY <1>10, PrunedTokens DEF EnrollLate
  <2> QED  BY <1>10, <2>1, <2>2, BoundAssumption
              DEF TypeOK, EnrollLate, TokenRecord, JoinRecord
<1>11. ASSUME NEW j \in Joins, NEW n \in Nodes, EnrollCrash(j, n)
       PROVE  TypeOK'
  <2>1. join' \in [Joins -> JoinRecord]
    BY <1>11, EndedJoin DEF EnrollCrash, JoinPhases
  <2>2. token' \in [Tokens -> TokenRecord]
    BY <1>11, PrunedTokens, RedeemsToken, ConsumedTokens DEF EnrollCrash
  <2> QED  BY <1>11, <2>1, <2>2, ForgottenTyped
              DEF TypeOK, EnrollCrash, TokenRecord, JoinRecord
<1>12. ASSUME NEW n \in Nodes, DeleteNode(n)
       PROVE  TypeOK'
  <2>1. \A t \in Tokens :
          [token[t] EXCEPT !.node = IF @ = n THEN None ELSE @] \in TokenRecord
    <3> SUFFICES ASSUME NEW t \in Tokens
                 PROVE  [token[t] EXCEPT !.node = IF @ = n THEN None ELSE @]
                          \in TokenRecord
      OBVIOUS
    <3>1. token[t] \in TokenRecord
      BY DEF TypeOK, TokenRecord
    <3> QED  BY <3>1 DEF TokenRecord
  <2>2. token' \in [Tokens -> TokenRecord]
    BY <1>12, <2>1 DEF DeleteNode
  <2>3. node' \in [Nodes -> {"none", "bare", "enrolled", "deleted"}]
    BY <1>12 DEF TypeOK, DeleteNode
  <2> QED  BY <1>12, <2>2, <2>3 DEF TypeOK, DeleteNode, TokenRecord
<1>13. ASSUME NEW m \in Messages, NEW n \in Nodes, NEW time \in Int,
              Sign(m, n, time)
       PROVE  TypeOK'
  BY <1>13 DEF TypeOK, Sign
<1>14. ASSUME NEW m \in Messages, SendHeartbeat(m)
       PROVE  TypeOK'
  <2>1. agent \in Nodes /\ now + skew \in Int
    BY <1>14, SkewAssumption, BoundAssumption DEF TypeOK, SendHeartbeat
  <2> QED  BY <1>13, <1>14, <2>1 DEF SendHeartbeat
<1>15. ASSUME NEW m \in Messages, NEW n \in Nodes, SendCall(m, n)
       PROVE  TypeOK'
  <2>1. now \in Int
    BY BoundAssumption DEF TypeOK
  <2> QED  BY <1>13, <1>15, <2>1 DEF SendCall
<1>16. ASSUME NEW m \in Messages, Deliver(m)
       PROVE  TypeOK'
  <2>1. Clock(m) \in Int /\ Clock(m) + Window \in Int
    BY ClockTyped, WindowAssumption
  <2>2. seen' \in [Messages -> Int \cup {None}]
    <3>1. CASE Claim(m)
      BY <2>1, <3>1 DEF TypeOK, Claim
    <3> QED  BY <1>16, <3>1 DEF TypeOK, Deliver
  <2>3. taken' \in [Messages -> Seq(Int)]
    BY <1>16, <2>1 DEF TypeOK, Deliver
  <2> QED  BY <1>16, <2>2, <2>3 DEF TypeOK, Deliver
<1>17. CASE UNCHANGED vars
  BY <1>17 DEF TypeOK, vars
<1> QED
  BY <1>1, <1>2, <1>3, <1>4, <1>5, <1>6, <1>7, <1>8, <1>9, <1>10, <1>11,
     <1>12, <1>14, <1>15, <1>16, <1>17 DEF Next

-----------------------------------------------------------------------------
(* Enrollment.                                                             *)

\* What the invariants read of the tokens: which are issued, which are used,
\* and for whom.
SameTokens ==
  \A t \in Tokens :
    /\ token'[t].state = "used" <=> token[t].state = "used"
    /\ token[t].state # "unborn" => token'[t].state # "unborn"
    /\ token[t].state = "used" => token'[t].node = token[t].node

\* Steps that leave the machines and identities alone.
LEMMA QuietStep ==
  ASSUME EnrollInv, SameTokens,
         UNCHANGED <<node, cut, join, file>>, agent' \in {agent, file}
  PROVE  JoinInv' /\ CutInv' /\ OneIdentityPerToken' /\ Accounted'
<1>1. JoinInv' /\ OneIdentityPerToken'
  BY DEF EnrollInv, TypeOK, JoinInv, OneIdentityPerToken, SameTokens
<1>2. CutInv'
  BY DEF EnrollInv, CutInv
<1>3. Accounted'
  <2>1. {file', agent'} \cup {join'[j].node : j \in Joins}
          \subseteq {file, agent} \cup {join[j].node : j \in Joins}
    OBVIOUS
  <2> QED  BY <2>1 DEF EnrollInv, Accounted, SameTokens
<1> QED  BY <1>1, <1>2, <1>3

\* A join run that fails.
LEMMA FailedStep ==
  ASSUME EnrollInv, SameTokens, NEW j \in Joins, NEW phase \in JoinPhases,
         join[j].phase \notin {"new"}, phase \notin {"new", "sent"},
         Ended(j, phase)
  PROVE  JoinInv' /\ OneIdentityPerToken'
<1>1. TypeOK
  BY DEF EnrollInv
<1>2. \A i \in Joins : /\ join'[i].token = join[i].token
                       /\ join'[i].node = join[i].node
  BY <1>1, EndedJoin
<1>3. OneIdentityPerToken'
  BY <1>2 DEF EnrollInv, OneIdentityPerToken
<1>4. \A i \in Joins :
        /\ join'[i].phase = "new" <=> join[i].phase = "new"
        /\ join'[i].phase \in {"new", "sent"} =>
             join[i].phase \in {"new", "sent"}
  BY <1>1, EndedJoin
<1>5. \A i \in Joins : join[i].token # None => join[i].token \in Tokens
  BY <1>1 DEF TypeOK
<1> QED  BY <1>2, <1>3, <1>4, <1>5 DEF EnrollInv, JoinInv, SameTokens

LEMMA EnrollStep == EnrollInv /\ [Next]_vars => EnrollInv'
<1> SUFFICES ASSUME EnrollInv, [Next]_vars PROVE EnrollInv'
  OBVIOUS
<1> USE DEF dbVars, hostVars, msgVars
<1>0. TypeOK /\ JoinInv /\ TypeOK'
  BY TypeStep DEF EnrollInv
<1>1. ASSUME UNCHANGED <<token, node, cut, join, file>>,
             agent' \in {agent, file}
      PROVE  EnrollInv'
  BY <1>0, <1>1, QuietStep DEF EnrollInv, SameTokens
<1>2. CASE Tick \/ DashboardRestart \/ GatewayRestart
  BY <1>1, <1>2 DEF Tick, DashboardRestart, GatewayRestart
<1>3. ASSUME NEW m \in Messages,
             \/ SendHeartbeat(m) \/ Deliver(m)
             \/ \E n \in Nodes : SendCall(m, n)
      PROVE  EnrollInv'
  BY <1>1, <1>3 DEF SendHeartbeat, SendCall, Sign, Deliver
<1>4. ASSUME NEW t \in Tokens, IssueToken(t)
      PROVE  EnrollInv'
  <2>1. SameTokens
    BY <1>4, <1>0, PrunedTokens DEF IssueToken, SameTokens
  <2> QED  BY <1>4, <1>0, <2>1, QuietStep DEF IssueToken, EnrollInv
<1>5. ASSUME NEW t \in Tokens, DeleteToken(t)
      PROVE  EnrollInv'
  <2>1. SameTokens
    BY <1>5, <1>0 DEF TypeOK, DeleteToken, SameTokens
  <2> QED  BY <1>5, <1>0, <2>1, QuietStep DEF DeleteToken, EnrollInv
<1>6. ASSUME NEW j \in Joins, NEW t \in Tokens, SendJoin(j, t)
      PROVE  EnrollInv'
  <2>1. /\ join[j].phase = "new" /\ join[j].node = None
        /\ token[t].state # "unborn"
        /\ join'[j] = [phase |-> "sent", token |-> t, node |-> None]
        /\ \A i \in Joins \ {j} : join'[i] = join[i]
        /\ UNCHANGED <<token, node, cut, file, agent>>
    BY <1>6, <1>0 DEF TypeOK, SendJoin, JoinInv
  <2>2. JoinInv' /\ CutInv' /\ OneIdentityPerToken'
    BY <2>1, NoneAssumption
       DEF EnrollInv, JoinInv, CutInv, OneIdentityPerToken
  <2>3. Accounted'
    BY <2>1 DEF EnrollInv, Accounted
  <2> QED  BY <1>0, <2>2, <2>3 DEF EnrollInv
<1>7. ASSUME NEW j \in Joins, EnrollRefused(j)
      PROVE  EnrollInv'
  <2>1. SameTokens
    BY <1>7, <1>0, PrunedTokens DEF EnrollRefused, SameTokens
  <2>2. JoinInv' /\ OneIdentityPerToken'
    BY <1>7, <2>1, FailedStep DEF EnrollRefused, JoinPhases
  <2>3. \A i \in Joins : join'[i].node = join[i].node
    BY <1>7, <1>0, EndedJoin DEF EnrollRefused, JoinPhases
  <2>4. CutInv' /\ Accounted'
    BY <1>7, <2>1, <2>3 DEF EnrollRefused, EnrollInv, CutInv, Accounted,
                            SameTokens
  <2> QED  BY <1>0, <2>2, <2>4 DEF EnrollInv
<1>8. ASSUME NEW j \in Joins, JoinEnds(j)
      PROVE  EnrollInv'
  <2>1. SameTokens
    BY <1>8 DEF JoinEnds, SameTokens
  <2>2. JoinInv' /\ OneIdentityPerToken'
    BY <1>8, <2>1, FailedStep DEF JoinEnds, JoinPhases
  <2>3. \A i \in Joins : join'[i].node = join[i].node
    BY <1>8, <1>0, EndedJoin DEF JoinEnds, JoinPhases
  <2>4. file' \in {file, join[j].node} /\ UNCHANGED <<token, node, cut, agent>>
    BY <1>8 DEF JoinEnds
  <2>5. CutInv' /\ Accounted'
    BY <2>3, <2>4 DEF EnrollInv, CutInv, Accounted
  <2> QED  BY <1>0, <2>2, <2>5 DEF EnrollInv
<1>9. ASSUME NEW j \in Joins, NEW n \in Nodes, Enroll(j, n)
      PROVE  EnrollInv'
  <2>1. /\ join[j].token \in Tokens /\ node[n] = "none"
        /\ token[join[j].token].state = "pending"
        /\ join[j].phase = "sent"
    BY <1>9, <1>0, RedeemsToken DEF Enroll
  <2>2. /\ join'[j].phase = "answered"
        /\ join'[j].token = join[j].token
        /\ join'[j].node = n
        /\ \A i \in Joins \ {j} : join'[i] = join[i]
    BY <1>9, <1>0, AnsweredJoin DEF Enroll
  <2>3. /\ token'[join[j].token].state = "used"
        /\ token'[join[j].token].node = n
        /\ \A t \in Tokens \ {join[j].token} : token'[t] = Pruned[t]
    BY <1>9, <1>0, <2>1, ConsumedTokens DEF Enroll
  <2>4. \A t \in Tokens :
          /\ token[t].state = "used" => /\ token'[t].state = "used"
                                        /\ token'[t].node = token[t].node
          /\ token[t].state # "unborn" => token'[t].state # "unborn"
    BY <2>1, <2>3, <1>0, PrunedTokens
  <2>5. JoinInv'
    <3>1. \A i \in Joins : join[i].token # None => join[i].token \in Tokens
      BY <1>0 DEF TypeOK
    <3>2. ASSUME NEW i \in Joins \ {j}
          PROVE  /\ join'[i].phase = "new" <=> join'[i].token = None
                 /\ join'[i].token # None =>
                      token'[join'[i].token].state # "unborn"
                 /\ join'[i].phase \in {"new", "sent"} => join'[i].node = None
                 /\ join'[i].node # None =>
                      /\ join'[i].token # None
                      /\ token'[join'[i].token].state = "used"
      BY <2>2, <2>4, <3>1, <1>0 DEF JoinInv
    <3> QED  BY <2>1, <2>2, <2>3, <3>2, NoneAssumption DEF JoinInv
  <2>6. OneIdentityPerToken'
    BY <2>1, <2>2, <1>0 DEF EnrollInv, JoinInv, OneIdentityPerToken
  <2>7. node' = [node EXCEPT ![n] = "enrolled"] /\ cut' = cut
    BY <1>9 DEF Enroll
  <2>8. n \notin cut
    BY <2>1 DEF EnrollInv, CutInv
  <2>9. CutInv'
    BY <2>7, <2>8, <1>0 DEF EnrollInv, TypeOK, CutInv
  <2>10. ASSUME NEW x \in Nodes, node'[x] \in {"bare", "enrolled"}
         PROVE  x \in cut' \/ \E t \in Tokens : /\ token'[t].state = "used"
                                                /\ token'[t].node = x
    <3>1. CASE x = n
      BY <3>1, <2>1, <2>3
    <3>2. CASE x # n
      BY <3>2, <2>4, <2>7, <2>10, <1>0 DEF EnrollInv, TypeOK, Accounted
    <3> QED  BY <3>1, <3>2
  <2>11. ASSUME NEW x \in {file', agent'} \cup {join'[i].node : i \in Joins},
                x # None
         PROVE  node'[x] \in {"enrolled", "deleted"} /\ x \notin cut'
    <3>1. x = n \/ x \in {file, agent} \cup {join[i].node : i \in Joins}
      BY <1>9, <2>2 DEF Enroll
    <3>2. CASE x = n
      BY <3>2, <2>7, <2>8, <1>0 DEF TypeOK
    <3>3. CASE x # n
      BY <3>1, <3>3, <2>7, <2>11, <1>0 DEF EnrollInv, TypeOK, Accounted
    <3> QED  BY <3>2, <3>3
  <2>12. Accounted'
    BY <2>10, <2>11 DEF Accounted
  <2> QED  BY <1>0, <2>5, <2>6, <2>9, <2>12 DEF EnrollInv
<1>10. ASSUME NEW j \in Joins, NEW n \in Nodes, EnrollLate(j, n)
       PROVE  EnrollInv'
  <2>1. SameTokens
    BY <1>10, <1>0, PrunedTokens DEF EnrollLate, SameTokens
  <2>2. JoinInv' /\ OneIdentityPerToken'
    BY <1>10, <1>0, <2>1, FailedStep, RedeemsToken DEF EnrollLate, JoinPhases
  <2>3. \A i \in Joins : join'[i].node = join[i].node
    BY <1>10, <1>0, EndedJoin DEF EnrollLate, JoinPhases
  <2>4. /\ node[n] = "none" /\ node' = [node EXCEPT ![n] = "deleted"]
        /\ UNCHANGED <<cut, file, agent>>
    BY <1>10 DEF EnrollLate, Redeems
  <2>5. CutInv'
    BY <2>4, <1>0 DEF EnrollInv, TypeOK, CutInv
  <2>6. Accounted'
    BY <2>1, <2>3, <2>4, <1>0 DEF EnrollInv, TypeOK, Accounted, SameTokens
  <2> QED  BY <1>0, <2>2, <2>5, <2>6 DEF EnrollInv
<1>11. ASSUME NEW j \in Joins, NEW n \in Nodes, EnrollCrash(j, n)
       PROVE  EnrollInv'
  <2>1. /\ join[j].token \in Tokens /\ node[n] = "none"
        /\ token[join[j].token].state = "pending"
        /\ join[j].phase = "sent" /\ join[j].node = None
    BY <1>11, <1>0, RedeemsToken DEF EnrollCrash, JoinInv
  <2>2. /\ join'[j].phase = "failed"
        /\ join'[j].token = join[j].token
        /\ join'[j].node = join[j].node
        /\ \A i \in Joins \ {j} : join'[i] = join[i]
    BY <1>11, <1>0, EndedJoin DEF EnrollCrash, JoinPhases
  <2>3. \A t \in Tokens :
          /\ token[t].state = "used" => /\ token'[t].state = "used"
                                        /\ token'[t].node = token[t].node
          /\ token[t].state # "unborn" => token'[t].state # "unborn"
    BY <1>11, <1>0, <2>1, PrunedTokens, ConsumedTokens DEF EnrollCrash
  <2>4. JoinInv'
    <3>1. \A i \in Joins : join[i].token # None => join[i].token \in Tokens
      BY <1>0 DEF TypeOK
    <3>2. ASSUME NEW i \in Joins \ {j}
          PROVE  /\ join'[i].phase = "new" <=> join'[i].token = None
                 /\ join'[i].token # None =>
                      token'[join'[i].token].state # "unborn"
                 /\ join'[i].phase \in {"new", "sent"} => join'[i].node = None
                 /\ join'[i].node # None =>
                      /\ join'[i].token # None
                      /\ token'[join'[i].token].state = "used"
      BY <2>2, <2>3, <3>1, <1>0 DEF JoinInv
    <3> QED  BY <2>1, <2>2, <2>3, <3>2, NoneAssumption DEF JoinInv
  <2>5. OneIdentityPerToken'
    BY <2>1, <2>2 DEF EnrollInv, OneIdentityPerToken
  <2>6. /\ node' \in {[node EXCEPT ![n] = "bare"],
                      [node EXCEPT ![n] = "enrolled"]}
        /\ cut' = cut \cup {n}
        /\ UNCHANGED <<file, agent>>
    BY <1>11 DEF EnrollCrash
  <2>7. CutInv'
    BY <2>6, <1>0 DEF EnrollInv, TypeOK, CutInv
  <2>8. Accounted'
    <3>1. \A x \in Nodes \ {n} : node'[x] = node[x]
      BY <2>6, <1>0 DEF TypeOK
    <3>2. \A i \in Joins : join'[i].node = join[i].node
      BY <2>2
    <3>3. ASSUME NEW x \in {file, agent} \cup {join[i].node : i \in Joins},
                 x # None
          PROVE  node'[x] \in {"enrolled", "deleted"} /\ x \notin cut'
      <4>1. x \in Nodes
        BY <3>3, <1>0 DEF TypeOK
      <4>2. node[x] \in {"enrolled", "deleted"} /\ x \notin cut
        BY <3>3 DEF EnrollInv, Accounted
      <4> QED  BY <4>1, <4>2, <3>1, <2>1, <2>6
    <3>4. ASSUME NEW x \in Nodes, node'[x] \in {"bare", "enrolled"}
          PROVE  x \in cut' \/ \E t \in Tokens : /\ token'[t].state = "used"
                                                 /\ token'[t].node = x
      BY <3>1, <3>4, <2>3, <2>6 DEF EnrollInv, Accounted
    <3> QED  BY <2>6, <3>2, <3>3, <3>4 DEF Accounted
  <2> QED  BY <1>0, <2>4, <2>5, <2>7, <2>8 DEF EnrollInv
<1>12. ASSUME NEW n \in Nodes, DeleteNode(n)
       PROVE  EnrollInv'
  <2>1. /\ node[n] \in {"bare", "enrolled"}
        /\ node' = [node EXCEPT ![n] = "deleted"]
        /\ UNCHANGED <<cut, join, file, agent>>
    BY <1>12 DEF DeleteNode
  <2>2. \A t \in Tokens :
          /\ token'[t].state = token[t].state
          /\ token[t].node # n => token'[t].node = token[t].node
    BY <1>12, <1>0 DEF TypeOK, DeleteNode
  <2>3. JoinInv' /\ CutInv' /\ OneIdentityPerToken'
    BY <2>1, <2>2, <1>0
       DEF EnrollInv, TypeOK, JoinInv, CutInv, OneIdentityPerToken
  <2>4. ASSUME NEW x \in Nodes, node'[x] \in {"bare", "enrolled"}
        PROVE  x \in cut' \/ \E t \in Tokens : /\ token'[t].state = "used"
                                               /\ token'[t].node = x
    BY <2>1, <2>2, <2>4, <1>0 DEF EnrollInv, TypeOK, Accounted
  <2>5. ASSUME NEW x \in {file', agent'} \cup {join'[i].node : i \in Joins},
               x # None
        PROVE  node'[x] \in {"enrolled", "deleted"} /\ x \notin cut'
    BY <2>1, <2>5, <1>0 DEF EnrollInv, TypeOK, Accounted
  <2>6. Accounted'
    BY <2>4, <2>5 DEF Accounted
  <2> QED  BY <1>0, <2>3, <2>6 DEF EnrollInv
<1>13. CASE UNCHANGED vars
  BY <1>1, <1>13 DEF vars
<1> QED
  BY <1>2, <1>3, <1>4, <1>5, <1>6, <1>7, <1>8, <1>9, <1>10, <1>11, <1>12,
     <1>13 DEF Next

-----------------------------------------------------------------------------
(* Messages.                                                               *)

\* Time passes, or nothing happens to the messages: a clock only goes
\* forward, so an entry that has expired stays expired.
LEMMA LaterStep ==
  ASSUME NonceInv, TypeOK', UNCHANGED <<skew, agent, msg, seen, taken>>,
         now' \in {now, now + 1}
  PROVE  ReplayInv' /\ RepeatedOnlyAfterWindow'
<1>1. \A m \in Messages :
        /\ Clock(m) \in Int /\ Clock(m)' \in Int
        /\ Clock(m) <= Clock(m)'
  <2>1. now \in Int /\ skew \in Int
    BY SkewAssumption, BoundAssumption DEF NonceInv, TypeOK
  <2>2. now' \in Int /\ now <= now' /\ skew' = skew
    BY <2>1
  <2> SUFFICES ASSUME NEW m \in Messages
               PROVE  /\ Clock(m) \in Int /\ Clock(m)' \in Int
                      /\ Clock(m) <= Clock(m)'
    OBVIOUS
  <2>3. CASE m \in Heartbeats
    BY <2>1, <2>2, <2>3 DEF Clock
  <2>4. CASE m \notin Heartbeats
    <3>1. /\ now + skew \in Int /\ now' + skew \in Int
          /\ now + skew <= now' + skew
      <4>1. \A a, b, c \in Int : a <= b => /\ a + c \in Int /\ b + c \in Int
                                         /\ a + c <= b + c
        OBVIOUS
      <4> QED  BY <2>1, <2>2, <4>1
    <3>2. Clock(m) = now + skew /\ Clock(m)' = now' + skew
      BY <2>2, <2>4 DEF Clock
    <3> QED  BY <3>1, <3>2
  <2> QED  BY <2>3, <2>4
<1>2. \A m \in Messages : \A i \in 1..Len(taken[m]) :
        taken[m][i] \in Int /\ Window \in Int
  BY WindowAssumption DEF NonceInv, TypeOK
<1>3. ReplayInv'
  <2> SUFFICES ASSUME NEW m \in Messages, NEW i \in 1..Len(taken[m])
               PROVE  /\ msg[m].node # None
                      /\ Verifies(m) =>
                           /\ taken[m][i] - msg[m].at \in (- Window)..Window
                           /\ taken[m][i] + Window <=
                                IF seen[m] # None THEN seen[m] ELSE Clock(m)'
    BY DEF ReplayInv, Clock, Verifies
  <2>1. /\ msg[m].node # None
        /\ Verifies(m) =>
             /\ taken[m][i] - msg[m].at \in (- Window)..Window
             /\ taken[m][i] + Window <=
                  IF seen[m] # None THEN seen[m] ELSE Clock(m)
    BY DEF NonceInv, ReplayInv
  <2> QED  BY <2>1, <1>1, <1>2
<1>4. RepeatedOnlyAfterWindow'
  BY DEF NonceInv, RepeatedOnlyAfterWindow, Verifies
<1> QED  BY <1>3, <1>4

\* A process that starts anew has accepted nothing yet, and neither the
\* clocks nor the messages under way nor the other process are affected.
LEMMA ForgottenStep ==
  ASSUME NonceInv, NEW ms, Forgotten(ms), UNCHANGED <<now, skew, msg>>,
         agent' = agent \/ ms = Calls
  PROVE  ReplayInv' /\ RepeatedOnlyAfterWindow'
<1>1. \A m \in Messages :
        \/ Len(taken'[m]) = 0
        \/ /\ taken'[m] = taken[m] /\ seen'[m] = seen[m]
           /\ Verifies(m)' = Verifies(m)
  BY DEF Forgotten, Messages, Verifies
<1>2. \A m \in Messages : Clock(m)' = Clock(m)
  BY DEF Clock
<1>3. \A i : i \notin 1..0
  OBVIOUS
<1>4. ReplayInv'
  BY <1>1, <1>2, <1>3 DEF NonceInv, ReplayInv
<1>5. RepeatedOnlyAfterWindow'
  <2> SUFFICES ASSUME NEW m \in Messages, Verifies(m)'
               PROVE  /\ Len(taken'[m]) <= 3
                      /\ \A i, k \in 1..Len(taken'[m]) :
                           i < k => /\ taken'[m][k] >= taken'[m][i] + Window
                                    /\ msg[m].at >= taken'[m][i]
    BY DEF RepeatedOnlyAfterWindow
  <2>1. CASE Len(taken'[m]) = 0
    BY <2>1, <1>3
  <2>2. CASE taken'[m] = taken[m] /\ Verifies(m)
    BY <2>2 DEF NonceInv, RepeatedOnlyAfterWindow
  <2> QED  BY <1>1, <2>1, <2>2
<1> QED  BY <1>4, <1>5

\* A message is signed once, before it can be accepted.
LEMMA SignStep ==
  ASSUME NonceInv, NEW m \in Messages, NEW n, NEW time, Sign(m, n, time)
  PROVE  ReplayInv' /\ RepeatedOnlyAfterWindow'
<1>1. \A k \in Messages : k = m \/ msg'[k] = msg[k]
  BY DEF NonceInv, TypeOK, Sign
<1>2. \A i \in 1..Len(taken[m]) : FALSE
  BY DEF NonceInv, ReplayInv, Sign
<1>3. UNCHANGED <<now, skew, agent, seen, taken>>
  BY DEF Sign, hostVars
<1>4. ReplayInv'
  BY <1>1, <1>2, <1>3 DEF NonceInv, ReplayInv, Clock, Verifies
<1>5. RepeatedOnlyAfterWindow'
  BY <1>1, <1>2, <1>3 DEF NonceInv, RepeatedOnlyAfterWindow, Verifies
<1> QED  BY <1>4, <1>5

\* The clock all messages of one kind are judged by.
LEMMA KindClock ==
  ASSUME NEW m \in Messages, NEW k \in Messages,
         k \in IF m \in Heartbeats THEN Heartbeats ELSE Calls
  PROVE  Clock(k) = Clock(m)
BY MessageAssumption DEF Clock, Messages

\* claim keeps the entries that have not expired, and takes a nonce only if
\* it was forgotten or has expired.
LEMMA ClaimFacts ==
  ASSUME TypeOK, NEW m \in Messages, Claim(m)
  PROVE  /\ seen[m] # None => seen[m] <= Clock(m)
         /\ seen'[m] = Clock(m) + Window
         /\ \A k \in Messages \ {m} :
              \/ seen'[k] = seen[k]
              \/ seen'[k] = None /\ seen[k] # None /\ seen[k] <= Clock(k)
<1> DEFINE kind == IF m \in Heartbeats THEN Heartbeats ELSE Calls
           kept == [k \in Messages |->
                      IF k \in kind /\ seen[k] # None /\ seen[k] <= Clock(m)
                      THEN None ELSE seen[k]]
<1>1. kept[m] = None /\ seen' = [kept EXCEPT ![m] = Clock(m) + Window]
  BY DEF Claim
<1>2. \A k \in Messages : k \in kind => Clock(k) = Clock(m)
  BY KindClock
<1> QED  BY <1>1, <1>2 DEF Messages

LEMMA VerifiedStep ==
  ASSUME NonceInv, NEW m \in Messages, Deliver(m), Verifies(m)
  PROVE  ReplayInv' /\ RepeatedOnlyAfterWindow'
<1>0. TypeOK
  BY DEF NonceInv
<1>1. /\ msg[m].node # None
      /\ Clock(m) - msg[m].at \in (- Window)..Window
      /\ taken' = [taken EXCEPT ![m] = Append(@, Clock(m))]
      /\ UNCHANGED <<now, skew, agent, msg>>
      /\ Claim(m)
  BY DEF Deliver, InWindow, hostVars
<1>2. /\ Clock(m) \in Int /\ Window \in Nat /\ msg[m].at \in Int
      /\ \A k \in Messages : Clock(k)' = Clock(k) /\ Verifies(k)' = Verifies(k)
  BY <1>0, <1>1, ClockTyped, WindowAssumption DEF TypeOK, Clock, Verifies
<1>3. /\ Len(taken'[m]) = Len(taken[m]) + 1
      /\ Len(taken[m]) \in Nat
      /\ taken'[m][Len(taken[m]) + 1] = Clock(m)
      /\ \A i \in 1..Len(taken[m]) : /\ taken'[m][i] = taken[m][i]
                                     /\ taken[m][i] \in Int
  BY <1>0, <1>1, <1>2 DEF TypeOK
<1>4. \A k \in Messages \ {m} : taken'[k] = taken[k]
  BY <1>0, <1>1 DEF TypeOK
\* Whatever was accepted before lies a whole window back.
<1>5. \A i \in 1..Len(taken[m]) : taken[m][i] + Window <= Clock(m)
  <2> SUFFICES ASSUME NEW i \in 1..Len(taken[m])
               PROVE  taken[m][i] + Window <= Clock(m)
    OBVIOUS
  <2>1. taken[m][i] + Window <= IF seen[m] # None THEN seen[m] ELSE Clock(m)
    BY DEF NonceInv, ReplayInv
  <2>2. seen[m] # None => seen[m] \in Int /\ seen[m] <= Clock(m)
    BY <1>0, <1>1, ClaimFacts DEF TypeOK
  <2> QED  BY <2>1, <2>2, <1>2, <1>3
<1>6. ReplayInv'
  <2> SUFFICES ASSUME NEW k \in Messages, NEW i \in 1..Len(taken'[k])
               PROVE  /\ msg[k].node # None
                      /\ Verifies(k) =>
                           /\ taken'[k][i] - msg[k].at \in (- Window)..Window
                           /\ taken'[k][i] + Window <=
                                IF seen'[k] # None THEN seen'[k] ELSE Clock(k)
    BY <1>1, <1>2 DEF ReplayInv
  <2>1. CASE k = m
    <3>1. seen'[m] = Clock(m) + Window /\ seen'[m] # None
      BY <1>0, <1>1, <1>2, ClaimFacts, NoneAssumption
    <3>2. taken'[m][i] <= Clock(m) /\ taken'[m][i] \in Int
      <4>1. CASE i = Len(taken[m]) + 1
        BY <4>1, <1>2, <1>3
      <4>2. CASE i # Len(taken[m]) + 1
        <5>1. i \in 1..Len(taken[m])
          BY <4>2, <2>1, <1>3
        <5>2. /\ taken'[m][i] = taken[m][i] /\ taken[m][i] \in Int
              /\ taken[m][i] + Window <= Clock(m)
          BY <5>1, <1>3, <1>5
        <5> QED  BY <5>2, <1>2
      <4> QED  BY <4>1, <4>2
    <3>3. taken'[m][i] - msg[m].at \in (- Window)..Window
      <4>1. CASE i = Len(taken[m]) + 1
        BY <4>1, <1>1, <1>3
      <4>2. CASE i # Len(taken[m]) + 1
        <5>1. i \in 1..Len(taken[m])
          BY <4>2, <2>1, <1>3
        <5> QED  BY <5>1, <1>3 DEF NonceInv, ReplayInv
      <4> QED  BY <4>1, <4>2
    <3> QED  BY <2>1, <3>1, <3>2, <3>3, <1>1, <1>2
  <2>2. CASE k # m
    <3>1. /\ msg[k].node # None
          /\ Verifies(k) =>
               /\ taken[k][i] - msg[k].at \in (- Window)..Window
               /\ taken[k][i] + Window <=
                    IF seen[k] # None THEN seen[k] ELSE Clock(k)
      BY <2>2, <1>4 DEF NonceInv, ReplayInv
    <3>2. \/ seen'[k] = seen[k]
          \/ seen'[k] = None /\ seen[k] # None /\ seen[k] <= Clock(k)
      BY <1>0, <1>1, <2>2, ClaimFacts
    <3>3. /\ seen[k] # None => seen[k] \in Int
          /\ taken[k][i] \in Int /\ Clock(k) \in Int
      <4>1. seen[k] # None => seen[k] \in Int
        BY <1>0 DEF TypeOK
      <4>2. taken[k] \in Seq(Int) /\ i \in 1..Len(taken[k])
        BY <1>0, <1>4, <2>2 DEF TypeOK
      <4>3. taken[k][i] \in Int
        BY <4>2
      <4> QED  BY <1>0, <4>1, <4>3, ClockTyped
    <3>4. taken'[k][i] = taken[k][i]
      BY <1>4, <2>2
    <3>5. CASE seen'[k] = seen[k]
      BY <3>1, <3>4, <3>5
    <3>6. CASE seen'[k] = None /\ seen[k] # None /\ seen[k] <= Clock(k)
      <4>1. /\ Verifies(k) => taken[k][i] + Window <= seen[k]
            /\ seen[k] \in Int
        BY <3>1, <3>3, <3>6
      <4>2. Verifies(k) => taken[k][i] + Window <= Clock(k)
        BY <4>1, <3>3, <3>6, <1>2
      <4> QED  BY <3>1, <3>4, <3>6, <4>2
    <3> QED  BY <3>2, <3>5, <3>6
  <2> QED  BY <2>1, <2>2
<1>7. Len(taken[m]) <= 2
  <2> SUFFICES ASSUME Len(taken[m]) >= 3 PROVE FALSE
    BY <1>3
  <2>1. /\ 1 \in 1..Len(taken[m]) /\ 2 \in 1..Len(taken[m])
        /\ 3 \in 1..Len(taken[m])
    BY <1>3
  <2>2. /\ taken[m][2] >= taken[m][1] + Window
        /\ taken[m][3] >= taken[m][2] + Window
    BY <2>1 DEF NonceInv, RepeatedOnlyAfterWindow
  <2>3. taken[m][1] - msg[m].at >= - Window
    BY <2>1, <1>2, <1>3 DEF NonceInv, ReplayInv
  <2>4. Clock(m) >= taken[m][3] + Window /\ Clock(m) - msg[m].at <= Window
    BY <2>1, <1>1, <1>2, <1>5
  <2>5. /\ taken[m][1] \in Int /\ taken[m][2] \in Int /\ taken[m][3] \in Int
        /\ Window \in Nat \ {0}
    BY <2>1, <1>3, WindowAssumption
  <2> DEFINE c == Clock(m)
             t1 == taken[m][1]
             t2 == taken[m][2]
             t3 == taken[m][3]
             at == msg[m].at
  <2>6. /\ t1 \in Int /\ t2 \in Int /\ t3 \in Int /\ c \in Int /\ at \in Int
        /\ Window \in Nat \ {0} /\ t2 >= t1 + Window /\ t3 >= t2 + Window
        /\ t1 - at >= - Window /\ c >= t3 + Window /\ c - at <= Window
    BY <2>2, <2>3, <2>4, <2>5, <1>2
  <2> HIDE DEF c, t1, t2, t3, at
  <2> QED  BY <2>6
<1>8. RepeatedOnlyAfterWindow'
  <2> SUFFICES ASSUME NEW k \in Messages, Verifies(k)
               PROVE  /\ Len(taken'[k]) <= 3
                      /\ \A i, l \in 1..Len(taken'[k]) :
                           i < l => /\ taken'[k][l] >= taken'[k][i] + Window
                                    /\ msg[k].at >= taken'[k][i]
    BY <1>1, <1>2 DEF RepeatedOnlyAfterWindow
  <2>1. CASE k = m
    <3>1. Len(taken'[m]) <= 3
      BY <1>3, <1>7
    <3>2. ASSUME NEW i \in 1..Len(taken'[m]), NEW l \in 1..Len(taken'[m]),
                 i < l
          PROVE  /\ taken'[m][l] >= taken'[m][i] + Window
                 /\ msg[m].at >= taken'[m][i]
      <4>1. CASE l = Len(taken[m]) + 1
        <5>1. i \in 1..Len(taken[m])
          BY <3>2, <4>1, <1>3
        <5>2. taken'[m][l] = Clock(m) /\ taken'[m][i] = taken[m][i]
          BY <4>1, <5>1, <1>3
        <5>3. Clock(m) - msg[m].at <= Window
          BY <1>1, <1>2
        <5>4. taken[m][i] \in Int /\ taken[m][i] + Window <= Clock(m)
          BY <5>1, <1>3, <1>5
        <5>5. taken[m][i] <= msg[m].at
          BY <5>3, <5>4, <1>2
        <5> QED  BY <5>2, <5>4, <5>5
      <4>2. CASE l # Len(taken[m]) + 1
        <5>1. i \in 1..Len(taken[m]) /\ l \in 1..Len(taken[m])
          BY <3>2, <4>2, <1>3
        <5> QED  BY <3>2, <5>1, <1>3 DEF NonceInv, RepeatedOnlyAfterWindow
      <4> QED  BY <4>1, <4>2
    <3> QED  BY <2>1, <3>1, <3>2
  <2>2. CASE k # m
    BY <2>2, <1>4 DEF NonceInv, RepeatedOnlyAfterWindow
  <2> QED  BY <2>1, <2>2
<1> QED  BY <1>6, <1>8

\* A gateway without an identity acts on a message and claims nothing.
LEMMA DeliverStep ==
  ASSUME NonceInv, NEW m \in Messages, Deliver(m)
  PROVE  ReplayInv' /\ RepeatedOnlyAfterWindow'
<1>1. CASE Verifies(m)
  BY <1>1, VerifiedStep
<1>2. CASE ~ Verifies(m)
  <2>1. /\ msg[m].node # None
        /\ taken' = [taken EXCEPT ![m] = Append(@, Clock(m))]
        /\ UNCHANGED <<now, skew, agent, msg, seen>>
    BY <1>2 DEF Deliver, hostVars
  <2>2. \A k \in Messages : Clock(k)' = Clock(k) /\ Verifies(k)' = Verifies(k)
    BY <2>1 DEF Clock, Verifies
  <2>3. \A k \in Messages \ {m} : taken'[k] = taken[k]
    BY <2>1 DEF NonceInv, TypeOK
  <2>4. ReplayInv'
    BY <1>2, <2>1, <2>2, <2>3 DEF NonceInv, ReplayInv
  <2>5. RepeatedOnlyAfterWindow'
    BY <1>2, <2>1, <2>2, <2>3 DEF NonceInv, RepeatedOnlyAfterWindow
  <2> QED  BY <2>4, <2>5
<1> QED  BY <1>1, <1>2

LEMMA NonceStep ==
  ASSUME NonceInv, TypeOK', [Next]_vars
  PROVE  ReplayInv' /\ RepeatedOnlyAfterWindow'
<1> USE DEF dbVars, hostVars, msgVars
<1>1. ASSUME UNCHANGED <<skew, agent, msg, seen, taken>>,
             now' \in {now, now + 1}
      PROVE  ReplayInv' /\ RepeatedOnlyAfterWindow'
  BY <1>1, LaterStep
<1>2. CASE Tick
  BY <1>1, <1>2 DEF Tick
<1>3. CASE DashboardRestart \/ GatewayRestart
  BY <1>3, ForgottenStep DEF DashboardRestart, GatewayRestart
<1>4. ASSUME NEW t \in Tokens, IssueToken(t) \/ DeleteToken(t)
      PROVE  ReplayInv' /\ RepeatedOnlyAfterWindow'
  BY <1>1, <1>4 DEF IssueToken, DeleteToken
<1>5. ASSUME NEW j \in Joins,
             \/ EnrollRefused(j) \/ JoinEnds(j)
             \/ \E t \in Tokens : SendJoin(j, t)
             \/ \E n \in Nodes : Enroll(j, n) \/ EnrollLate(j, n)
      PROVE  ReplayInv' /\ RepeatedOnlyAfterWindow'
  BY <1>1, <1>5 DEF EnrollRefused, JoinEnds, SendJoin, Enroll, EnrollLate
<1>6. ASSUME NEW j \in Joins, NEW n \in Nodes, EnrollCrash(j, n)
      PROVE  ReplayInv' /\ RepeatedOnlyAfterWindow'
  BY <1>6, ForgottenStep DEF EnrollCrash
<1>7. ASSUME NEW n \in Nodes, DeleteNode(n)
      PROVE  ReplayInv' /\ RepeatedOnlyAfterWindow'
  BY <1>1, <1>7 DEF DeleteNode
<1>8. ASSUME NEW m \in Messages,
             SendHeartbeat(m) \/ \E n \in Nodes : SendCall(m, n)
      PROVE  ReplayInv' /\ RepeatedOnlyAfterWindow'
  BY <1>8, SignStep DEF SendHeartbeat, SendCall
<1>9. ASSUME NEW m \in Messages, Deliver(m)
      PROVE  ReplayInv' /\ RepeatedOnlyAfterWindow'
  BY <1>9, DeliverStep
<1>10. CASE UNCHANGED vars
  BY <1>1, <1>10 DEF vars
<1> QED
  BY <1>2, <1>3, <1>4, <1>5, <1>6, <1>7, <1>8, <1>9, <1>10 DEF Next

-----------------------------------------------------------------------------
(* The theorems.                                                           *)

\* Both inductive invariants hold in every reachable state.
THEOREM AgentInvariant == Spec => [](EnrollInv /\ NonceInv)
<1>1. Init => EnrollInv /\ NonceInv
  <2> SUFFICES ASSUME Init PROVE EnrollInv /\ NonceInv
    OBVIOUS
  <2>1. TypeOK
    BY InitTyped
  <2>2. \A m \in Messages : \A i : i \notin 1..Len(taken[m])
    BY DEF Init
  <2>3. NonceInv
    <3>1. \A m \in Messages : Len(taken[m]) = 0
      BY DEF Init
    <3> QED
      BY <2>1, <2>2, <3>1 DEF NonceInv, ReplayInv, RepeatedOnlyAfterWindow
  <2>4. JoinInv /\ CutInv /\ OneIdentityPerToken /\ Accounted
    BY DEF Init, JoinInv, CutInv, OneIdentityPerToken, Accounted
  <2> QED  BY <2>1, <2>3, <2>4 DEF EnrollInv
<1>2. EnrollInv /\ NonceInv /\ [Next]_vars => (EnrollInv /\ NonceInv)'
  BY EnrollStep, NonceStep DEF EnrollInv, NonceInv
<1> QED  BY <1>1, <1>2, PTL DEF Spec

\* Type correctness of the tables, the identity file, the nonce caches and the
\* messages under way.
THEOREM AgentTypeCorrect == Spec => []TypeOK
<1>1. EnrollInv => TypeOK
  BY DEF EnrollInv
<1> QED  BY AgentInvariant, <1>1, PTL

\* However many join runs use one token and in whatever order the enroll
\* handler sees them, one of them at most gets an identity.
THEOREM AgentTokens == Spec => []OneIdentityPerToken
<1>1. EnrollInv => OneIdentityPerToken
  BY DEF EnrollInv
<1> QED  BY AgentInvariant, <1>1, PTL

\* Machines and identities are accounted for on both sides, through restarts,
\* deletions and crashes between the statements of the enroll handler.
THEOREM AgentAccounts == Spec => []Accounted
<1>1. EnrollInv => Accounted
  BY DEF EnrollInv
<1> QED  BY AgentInvariant, <1>1, PTL

\* verify with nonceCache.claim, for any window and any difference of the
\* clocks: one process that verifies acts on a message again only a whole
\* window after it did before, only when the sender's clock was not behind,
\* and at most three times.
THEOREM AgentReplay == Spec => []RepeatedOnlyAfterWindow
<1>1. NonceInv => RepeatedOnlyAfterWindow
  BY DEF NonceInv
<1> QED  BY AgentInvariant, <1>1, PTL
==============================================================================
