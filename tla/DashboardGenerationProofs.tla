--------------------- MODULE DashboardGenerationProofs ---------------------
(***************************************************************************)
(* Proofs about DashboardGeneration for any conversations, posts, machines *)
(* and length of an answer.                                                *)
(*                                                                         *)
(* IInv adds PostInv to the properties.  The properties also lean on one   *)
(* another: a stop can reach only a post that still generates, because     *)
(* activeGenerations is exact, so what was recorded without a stop stays   *)
(* without one, and an idle conversation has nobody who writes its answers.*)
(***************************************************************************)
EXTENDS DashboardGeneration, TLAPS

-----------------------------------------------------------------------------
(* What the parts of a handler do.                                         *)

\* The handler of p returns: its entry is removed, nothing else is.
LEMMA LeaveFacts ==
  ASSUME TypeOK, NEW p \in Posts, NEW how \in Outcomes, Leave(p, how)
  PROVE  /\ active' \in [Convs -> Posts \cup {None}]
         /\ phase' \in [Posts -> Phases]
         /\ outcome' \in [Posts -> Outcomes]
         /\ reply' \in [Posts -> {"none", "stream", "ended"}]
         /\ phase'[p] = "over" /\ outcome'[p] = how
         /\ \A q \in Posts \ {p} : /\ phase'[q] = phase[q]
                                   /\ outcome'[q] = outcome[q]
         /\ \A c \in Convs : active'[c] = IF c = postConv[p] /\ active[c] = p
                                          THEN None ELSE active[c]
<1>1. active' \in [Convs -> Posts \cup {None}]
  BY DEF TypeOK, Leave, Released
<1>2. /\ phase' \in [Posts -> Phases]
      /\ outcome' \in [Posts -> Outcomes]
      /\ reply' \in [Posts -> {"none", "stream", "ended"}]
  BY DEF TypeOK, Leave, Phases
<1>3. /\ phase'[p] = "over" /\ outcome'[p] = how
      /\ \A q \in Posts \ {p} : /\ phase'[q] = phase[q]
                                /\ outcome'[q] = outcome[q]
  BY DEF TypeOK, Leave
<1>4. \A c \in Convs : active'[c] = IF c = postConv[p] /\ active[c] = p
                                    THEN None ELSE active[c]
  BY DEF TypeOK, Leave, Released
<1> QED  BY <1>1, <1>2, <1>3, <1>4

\* The usage record gets at most one line, and none for a purged machine.
LEMMA RecordFacts ==
  ASSUME TypeOK, NEW p \in Posts, NEW status \in Statuses, Record(p, status)
  PROVE  /\ record' \in [Posts -> Seq(Statuses)]
         /\ \A q \in Posts \ {p} : record'[q] = record[q]
         /\ \/ record'[p] = record[p]
            \/ /\ record'[p] = Append(record[p], status)
               /\ node[used[p]] # "purged"
<1>1. CASE UNCHANGED record
  BY <1>1 DEF TypeOK
<1>2. CASE /\ node[used[p]] # "purged"
           /\ record' = [record EXCEPT ![p] = Append(@, status)]
  BY <1>2 DEF TypeOK
<1> QED  BY <1>1, <1>2 DEF Record

\* The assistant row, if there is one, gets the text received so far.
LEMMA PersistedFacts ==
  ASSUME TypeOK, NEW p \in Posts, got' \in [Posts -> 0..MaxChunks],
         stored' = Persisted(p)
  PROVE  /\ stored' \in [Posts -> 0..MaxChunks]
         /\ \A q \in Posts \ {p} : stored'[q] = stored[q]
         /\ HasRow(p) => stored'[p] = got'[p]
BY DEF TypeOK, Persisted, HasRow

\* The catch block of streamDashboardChat.
LEMMA CutFacts ==
  ASSUME TypeOK, NEW p \in Posts, got' \in [Posts -> 0..MaxChunks], Cut(p)
  PROVE  /\ phase[p] = "streaming" /\ Leave(p, "cut")
         /\ UNCHANGED <<node, conv, target, rows, postConv, used, stop, away>>
         /\ stored' \in [Posts -> 0..MaxChunks]
         /\ record' \in [Posts -> Seq(Statuses)]
         /\ \A q \in Posts \ {p} : /\ stored'[q] = stored[q]
                                   /\ record'[q] = record[q]
         /\ \/ stored'[p] = stored[p] /\ got'[p] = 0
            \/ HasRow(p) => stored'[p] = got'[p]
         /\ \/ record'[p] = record[p]
            \/ /\ record'[p] =
                    Append(record[p], IF p \in stop THEN 499 ELSE 502)
               /\ node[used[p]] # "purged"
<1>1. /\ phase[p] = "streaming" /\ Leave(p, "cut")
      /\ UNCHANGED <<node, conv, target, rows, postConv, used, stop, away>>
  BY DEF Cut, adminVars
<1>2. CASE /\ Record(p, IF p \in stop THEN 499 ELSE 502)
           /\ stored' = Persisted(p)
  BY <1>1, <1>2, RecordFacts, PersistedFacts DEF Statuses
<1>3. CASE UNCHANGED <<record, stored>> /\ ~ (got'[p] > 0)
  <2>1. got'[p] = 0
    BY <1>3, ChunksAssumption
  <2> QED  BY <1>1, <1>3, <2>1 DEF TypeOK
<1> QED  BY <1>2, <1>3 DEF Cut

\* The handler of p ends one way or another.
Ends(p) == FetchRejected(p) \/ ErrorBodyRead(p) \/ StreamEnd(p)
           \/ StreamFails(p) \/ ProgressFails(p)

\* What all its ends have in common.
LEMMA EndsFacts ==
  ASSUME TypeOK, NEW p \in Posts, Ends(p)
  PROVE  /\ LivePost(p)
         /\ \E how \in {"unreached", "complete", "cut"} : Leave(p, how)
         /\ UNCHANGED <<node, conv, target, rows, postConv, used, stop, away>>
         /\ \A q \in Posts \ {p} : /\ got'[q] = got[q]
                                   /\ stored'[q] = stored[q]
                                   /\ record'[q] = record[q]
         /\ got' \in [Posts -> 0..MaxChunks]
         /\ stored' \in [Posts -> 0..MaxChunks]
         /\ record' \in [Posts -> Seq(Statuses)]
<1> USE DEF adminVars, LivePost
<1>1. CASE FetchRejected(p)
  BY <1>1 DEF TypeOK, FetchRejected
<1>2. CASE ErrorBodyRead(p)
  BY <1>2 DEF TypeOK, ErrorBodyRead
<1>3. CASE StreamEnd(p)
  <2>1. CASE Record(p, 200) /\ stored' = Persisted(p)
    BY <1>3, <2>1, RecordFacts, PersistedFacts DEF TypeOK, StreamEnd, Statuses
  <2>2. CASE UNCHANGED <<record, stored>>
    BY <1>3, <2>2 DEF TypeOK, StreamEnd
  <2> QED  BY <1>3, <2>1, <2>2 DEF StreamEnd
<1>4. CASE StreamFails(p)
  BY <1>4, CutFacts DEF TypeOK, StreamFails
<1>5. CASE ProgressFails(p)
  <2>1. /\ got' \in [Posts -> 0..MaxChunks]
        /\ \A q \in Posts \ {p} : got'[q] = got[q]
    BY <1>5, ChunksAssumption DEF TypeOK, ProgressFails
  <2>2. CASE Cut(p)
    BY <2>1, <2>2, CutFacts
  <2>3. CASE /\ Leave(p, "cut")
             /\ UNCHANGED <<adminVars, postConv, used, stored, stop, away,
                            record>>
    BY <1>5, <2>1, <2>3 DEF TypeOK, ProgressFails
  <2> QED  BY <1>5, <2>2, <2>3 DEF ProgressFails
<1> QED  BY <1>1, <1>2, <1>3, <1>4, <1>5 DEF Ends

-----------------------------------------------------------------------------
(* Type correctness.                                                       *)

LEMMA InitTyped == Init => TypeOK
BY ChunksAssumption DEF Init, TypeOK, Phases, Outcomes

LEMMA TypeStep == TypeOK /\ [Next]_vars => TypeOK'
<1> SUFFICES ASSUME TypeOK, [Next]_vars PROVE TypeOK'
  OBVIOUS
<1> USE DEF adminVars, postVars
<1>1. ASSUME NEW c \in Convs, NEW n \in Nodes, CreateConversation(c, n)
      PROVE  TypeOK'
  BY <1>1 DEF TypeOK, CreateConversation
<1>2. ASSUME NEW c \in Convs, NEW n \in Nodes, UpdateTarget(c, n)
      PROVE  TypeOK'
  BY <1>2 DEF TypeOK, UpdateTarget
<1>3. ASSUME NEW c \in Convs, DeleteConversation(c)
      PROVE  TypeOK'
  BY <1>3 DEF TypeOK, DeleteConversation
<1>4. ASSUME NEW c \in Convs, Stop(c)
      PROVE  TypeOK'
  BY <1>4 DEF TypeOK, Stop
<1>5. ASSUME NEW n \in Nodes, ToggleNode(n)
      PROVE  TypeOK'
  BY <1>5 DEF TypeOK, ToggleNode
<1>6. ASSUME NEW n \in Nodes, PurgeNode(n)
      PROVE  TypeOK'
  BY <1>6 DEF TypeOK, PurgeNode
<1>7. ASSUME NEW p \in Posts, NEW c \in Convs, Accept(p, c)
      PROVE  TypeOK'
  BY <1>7 DEF TypeOK, Accept, Phases, Outcomes
<1>8. ASSUME NEW p \in Posts, NEW c \in Convs, Refuse(p, c)
      PROVE  TypeOK'
  BY <1>8 DEF TypeOK, Refuse, Phases, Outcomes
<1>9. ASSUME NEW p \in Posts, FetchAnswered(p)
      PROVE  TypeOK'
  BY <1>9 DEF TypeOK, FetchAnswered, Phases, Outcomes
<1>10. ASSUME NEW p \in Posts, Chunk(p)
       PROVE  TypeOK'
  BY <1>10, ChunksAssumption DEF TypeOK, Chunk, Persisted
<1>11. ASSUME NEW p \in Posts, AbandonedCloses(p)
       PROVE  TypeOK'
  BY <1>11 DEF TypeOK, AbandonedCloses
<1>12. ASSUME NEW p \in Posts, ClientLeaves(p)
       PROVE  TypeOK'
  BY <1>12 DEF TypeOK, ClientLeaves
<1>13. CASE ProcessRestart
  BY <1>13 DEF TypeOK, ProcessRestart, Phases, Outcomes
<1>14. ASSUME NEW p \in Posts, Ends(p)
       PROVE  TypeOK'
  <2>1. link' \in SUBSET Posts
    BY <1>14 DEF TypeOK, Ends, FetchRejected, ErrorBodyRead, StreamEnd,
                 StreamFails, ProgressFails
  <2>2. PICK how \in {"unreached", "complete", "cut"} : Leave(p, how)
    BY <1>14, EndsFacts
  <2>3. how \in Outcomes
    BY DEF Outcomes
  <2>4. /\ active' \in [Convs -> Posts \cup {None}]
        /\ phase' \in [Posts -> Phases]
        /\ outcome' \in [Posts -> Outcomes]
        /\ reply' \in [Posts -> {"none", "stream", "ended"}]
    BY <2>2, <2>3, LeaveFacts
  <2>5. /\ UNCHANGED <<node, conv, target, rows, postConv, used, stop, away>>
        /\ got' \in [Posts -> 0..MaxChunks]
        /\ stored' \in [Posts -> 0..MaxChunks]
        /\ record' \in [Posts -> Seq(Statuses)]
    BY <1>14, EndsFacts
  <2> QED  BY <2>1, <2>4, <2>5 DEF TypeOK
<1>15. CASE UNCHANGED vars
  BY <1>15 DEF TypeOK, vars
<1> QED
  BY <1>1, <1>2, <1>3, <1>4, <1>5, <1>6, <1>7, <1>8, <1>9, <1>10, <1>11,
     <1>12, <1>13, <1>14, <1>15
     DEF Next, PostStep, AdminStep, Ends

-----------------------------------------------------------------------------
(* The inductive invariant.                                                *)

\* The life of a post: nothing has happened to a new one, a live one belongs
\* to a conversation and has neither ended nor been recorded, and a stopped
\* one has no upstream connection any more.
PostInv ==
  \A p \in Posts :
    /\ phase[p] = "new" => /\ got[p] = 0 /\ stored[p] = 0
                           /\ p \notin stop /\ p \notin link
    /\ LivePost(p) => postConv[p] \in Convs
    /\ phase[p] # "over" => outcome[p] = "none" /\ record[p] = <<>>
    /\ p \in stop => p \notin link

IInv == /\ TypeOK
        /\ PostInv
        /\ ActiveExact
        /\ StoredIsStreamed
        /\ RecordMeaning
        /\ UpstreamReleased

LEMMA InitIInv == Init => IInv
BY InitTyped, NoneAssumption
   DEF Init, IInv, PostInv, ActiveExact, StoredIsStreamed, RecordMeaning,
       UpstreamReleased, LivePost, HasRow

\* The post an entry of activeGenerations names is live.
LEMMA ActiveLive ==
  ASSUME IInv, NEW c \in Convs, active[c] # None
  PROVE  active[c] \in Posts /\ LivePost(active[c])
BY DEF IInv, TypeOK, ActiveExact

\* A post that generates for a conversation is the only one.
LEMMA ActiveStep == IInv /\ [Next]_vars => ActiveExact'
<1> SUFFICES ASSUME IInv, [Next]_vars PROVE ActiveExact'
  OBVIOUS
<1> USE DEF adminVars, postVars
<1>0. TypeOK /\ PostInv /\ ActiveExact
  BY DEF IInv
<1>1. ASSUME UNCHANGED <<active, postConv>>,
             \A p \in Posts : LivePost(p)' <=> LivePost(p)
      PROVE  ActiveExact'
  BY <1>0, <1>1 DEF TypeOK, ActiveExact
<1>2. ASSUME UNCHANGED <<active, postConv, phase>>
      PROVE  ActiveExact'
  BY <1>1, <1>2 DEF LivePost
<1>3. CASE AdminStep
  BY <1>2, <1>3 DEF AdminStep, CreateConversation, UpdateTarget,
                    DeleteConversation, Stop, ToggleNode, PurgeNode
<1>4. ASSUME NEW p \in Posts, Chunk(p) \/ AbandonedCloses(p) \/ ClientLeaves(p)
      PROVE  ActiveExact'
  BY <1>2, <1>4 DEF Chunk, AbandonedCloses, ClientLeaves
<1>5. ASSUME NEW p \in Posts, NEW c \in Convs, Accept(p, c)
      PROVE  ActiveExact'
  <2>1. /\ active[c] = None /\ ~ LivePost(p)
        /\ active' = [active EXCEPT ![c] = p]
        /\ phase' = [phase EXCEPT ![p] = "connecting"]
        /\ postConv' = [postConv EXCEPT ![p] = c]
    BY <1>5 DEF Accept, LivePost
  <2>2. \A q \in Posts \ {p} : /\ LivePost(q)' <=> LivePost(q)
                               /\ postConv'[q] = postConv[q]
    BY <2>1, <1>0 DEF TypeOK, LivePost
  <2>3. LivePost(p)' /\ postConv'[p] = c /\ active'[c] = p
    BY <2>1, <1>0 DEF TypeOK, LivePost
  <2>4. \A d \in Convs \ {c} : active'[d] = active[d]
    BY <2>1, <1>0 DEF TypeOK
  <2>5. ASSUME NEW q \in Posts, LivePost(q)'
        PROVE  active'[postConv'[q]] = q
    <3>1. CASE q = p
      BY <3>1, <2>3
    <3>2. CASE q # p
      <4>1. LivePost(q) /\ postConv[q] \in Convs /\ active[postConv[q]] = q
        BY <3>2, <2>2, <2>5, <1>0 DEF PostInv, ActiveExact
      <4>2. postConv[q] # c
        BY <4>1, <2>1, NoneAssumption
      <4> QED  BY <3>2, <4>1, <4>2, <2>2, <2>4
    <3> QED  BY <3>1, <3>2
  <2>6. ASSUME NEW d \in Convs, active'[d] # None
        PROVE  LivePost(active[d])' /\ postConv'[active'[d]] = d
    <3>1. CASE d = c
      BY <3>1, <2>3 DEF LivePost
    <3>2. CASE d # c
      <4>1. active'[d] = active[d] /\ active[d] \in Posts
        BY <3>2, <2>4, <2>6, <1>0 DEF TypeOK
      <4>2. LivePost(active[d]) /\ postConv[active[d]] = d
        BY <4>1, <2>6, <1>0 DEF ActiveExact
      <4> QED  BY <4>1, <4>2, <2>1, <2>2 DEF LivePost
    <3> QED  BY <3>1, <3>2
  <2> QED  BY <2>5, <2>6 DEF ActiveExact
<1>6. ASSUME NEW p \in Posts, NEW c \in Convs, Refuse(p, c)
      PROVE  ActiveExact'
  <2>1. \A q \in Posts : LivePost(q)' <=> LivePost(q)
    BY <1>6, <1>0 DEF TypeOK, Refuse, LivePost
  <2> QED  BY <1>1, <1>6, <2>1 DEF Refuse
<1>7. ASSUME NEW p \in Posts, FetchAnswered(p)
      PROVE  ActiveExact'
  <2>1. \A q \in Posts : LivePost(q)' <=> LivePost(q)
    BY <1>7, <1>0 DEF TypeOK, FetchAnswered, LivePost
  <2> QED  BY <1>1, <1>7, <2>1 DEF FetchAnswered
<1>8. ASSUME NEW p \in Posts, Ends(p)
      PROVE  ActiveExact'
  <2>1. PICK how \in {"unreached", "complete", "cut"} : Leave(p, how)
    BY <1>8, <1>0, EndsFacts
  <2>2. LivePost(p) /\ postConv' = postConv
    BY <1>8, <1>0, EndsFacts
  <2>3. postConv[p] \in Convs /\ active[postConv[p]] = p
    BY <2>2, <1>0 DEF PostInv, ActiveExact
  <2>4. /\ ~ LivePost(p)'
        /\ \A q \in Posts \ {p} : LivePost(q)' <=> LivePost(q)
        /\ \A c \in Convs : active'[c] = IF c = postConv[p] THEN None
                                                            ELSE active[c]
    BY <2>1, <2>3, <1>0, LeaveFacts DEF LivePost, Outcomes
  <2>5. ASSUME NEW q \in Posts, LivePost(q)'
        PROVE  active'[postConv'[q]] = q
    BY <2>2, <2>3, <2>4, <2>5, <1>0 DEF PostInv, ActiveExact
  <2>6. ASSUME NEW d \in Convs, active'[d] # None
        PROVE  LivePost(active[d])' /\ postConv'[active'[d]] = d
    <3>1. active'[d] = active[d] /\ d # postConv[p] /\ active[d] \in Posts
      BY <2>4, <2>6, <1>0 DEF TypeOK
    <3>2. LivePost(active[d]) /\ postConv[active[d]] = d
      BY <3>1, <2>6, <1>0 DEF ActiveExact
    <3> QED  BY <3>1, <3>2, <2>2, <2>4 DEF LivePost
  <2> QED  BY <2>5, <2>6 DEF ActiveExact
<1>9. CASE ProcessRestart
  <2>1. \A p \in Posts : ~ LivePost(p)'
    BY <1>9 DEF ProcessRestart, LivePost
  <2>2. \A c \in Convs : active'[c] = None
    BY <1>9 DEF ProcessRestart
  <2> QED  BY <2>1, <2>2 DEF ActiveExact
<1>10. CASE UNCHANGED vars
  BY <1>2, <1>10 DEF vars
<1> QED
  BY <1>3, <1>4, <1>5, <1>6, <1>7, <1>8, <1>9, <1>10 DEF Next, PostStep, Ends

LEMMA PostInvStep == IInv /\ [Next]_vars => PostInv'
<1> SUFFICES ASSUME IInv, [Next]_vars PROVE PostInv'
  OBVIOUS
<1> USE DEF adminVars, postVars
<1>0. TypeOK /\ PostInv /\ ActiveExact
  BY DEF IInv
<1>1. ASSUME UNCHANGED <<phase, postConv, got, stored, stop, outcome, record>>,
             link' \subseteq link
      PROVE  PostInv'
  BY <1>0, <1>1 DEF PostInv, LivePost
<1>2. ASSUME \/ \E c \in Convs, n \in Nodes :
                  CreateConversation(c, n) \/ UpdateTarget(c, n)
             \/ \E c \in Convs : DeleteConversation(c)
             \/ \E n \in Nodes : ToggleNode(n)
      PROVE  PostInv'
  BY <1>1, <1>2 DEF CreateConversation, UpdateTarget, DeleteConversation,
                    ToggleNode
<1>3. ASSUME NEW c \in Convs, Stop(c)
      PROVE  PostInv'
  <2>1. LivePost(active[c])
    BY <1>3, ActiveLive DEF Stop
  <2> QED  BY <1>3, <1>0, <2>1 DEF Stop, PostInv, LivePost
<1>4. ASSUME NEW n \in Nodes, PurgeNode(n)
      PROVE  PostInv'
  <2>1. \A p \in Posts : record'[p] \in {<<>>, record[p]}
    BY <1>4 DEF PurgeNode
  <2> QED  BY <1>4, <2>1, <1>0 DEF PurgeNode, PostInv, LivePost
<1>5. ASSUME NEW p \in Posts, AbandonedCloses(p) \/ ClientLeaves(p)
      PROVE  PostInv'
  BY <1>1, <1>5 DEF AbandonedCloses, ClientLeaves
<1>6. ASSUME NEW p \in Posts, Chunk(p)
      PROVE  PostInv'
  <2>1. \A q \in Posts \ {p} : got'[q] = got[q] /\ stored'[q] = stored[q]
    BY <1>6, <1>0 DEF TypeOK, Chunk, Persisted
  <2> QED  BY <1>6, <1>0, <2>1 DEF Chunk, PostInv, LivePost
<1>7. ASSUME NEW p \in Posts, NEW c \in Convs, Accept(p, c)
      PROVE  PostInv'
  BY <1>7, <1>0 DEF Accept, TypeOK, PostInv, LivePost
<1>8. ASSUME NEW p \in Posts, NEW c \in Convs, Refuse(p, c)
      PROVE  PostInv'
  BY <1>8, <1>0 DEF Refuse, TypeOK, PostInv, LivePost
<1>9. ASSUME NEW p \in Posts, FetchAnswered(p)
      PROVE  PostInv'
  BY <1>9, <1>0 DEF FetchAnswered, TypeOK, PostInv, LivePost
<1>10. ASSUME NEW p \in Posts, Ends(p)
       PROVE  PostInv'
  <2>1. link' \subseteq link
    BY <1>10 DEF Ends, FetchRejected, ErrorBodyRead, StreamEnd, StreamFails,
                 ProgressFails
  <2>2. PICK how \in {"unreached", "complete", "cut"} : Leave(p, how)
    BY <1>10, <1>0, EndsFacts
  <2>3. /\ phase'[p] = "over"
        /\ \A q \in Posts \ {p} : /\ phase'[q] = phase[q]
                                  /\ outcome'[q] = outcome[q]
    BY <2>2, <1>0, LeaveFacts DEF Outcomes
  <2>4. /\ UNCHANGED <<postConv, stop>>
        /\ \A q \in Posts \ {p} : /\ got'[q] = got[q]
                                  /\ stored'[q] = stored[q]
                                  /\ record'[q] = record[q]
    BY <1>10, <1>0, EndsFacts
  <2> QED  BY <1>0, <2>1, <2>3, <2>4 DEF PostInv, LivePost
<1>11. CASE ProcessRestart
  BY <1>11, <1>0 DEF ProcessRestart, PostInv, LivePost
<1>12. CASE UNCHANGED vars
  BY <1>1, <1>12 DEF vars
<1> QED
  BY <1>2, <1>3, <1>4, <1>5, <1>6, <1>7, <1>8, <1>9, <1>10, <1>11, <1>12
     DEF Next, PostStep, AdminStep, Ends

\* A message row, once gone, does not come back: only the acceptance of a post
\* creates its row.
LEMMA RowsOnlyGo ==
  ASSUME TypeOK, NEW p \in Posts, UNCHANGED postConv,
         \A c \in Convs : rows'[c] \in {rows[c], <<>>},
         HasRow(p)'
  PROVE  HasRow(p)
<1>1. postConv[p] \in Convs
  BY DEF TypeOK, HasRow
<1>2. rows'[postConv[p]] # <<>>
  <2>1. rows'[postConv[p]] = <<>> => Len(rows'[postConv[p]]) = 0
    OBVIOUS
  <2> QED  BY <2>1 DEF HasRow
<1> QED  BY <1>1, <1>2 DEF HasRow

\* What is stored is what was streamed.
LEMMA StoredStep == IInv /\ [Next]_vars => StoredIsStreamed'
<1> SUFFICES ASSUME IInv, [Next]_vars PROVE StoredIsStreamed'
  OBVIOUS
<1> USE DEF adminVars, postVars
<1>0. TypeOK /\ PostInv /\ StoredIsStreamed
  BY DEF IInv
<1>1. ASSUME UNCHANGED <<postConv, got, stored>>,
             \A c \in Convs : rows'[c] \in {rows[c], <<>>},
             \A p \in Posts : outcome'[p] = outcome[p] \/ outcome[p] = "none"
      PROVE  StoredIsStreamed'
  <2> SUFFICES ASSUME NEW p \in Posts, HasRow(p)'
               PROVE  \/ stored'[p] = got'[p]
                      \/ outcome'[p] = "cut" /\ stored'[p] = got'[p] - 1
    BY DEF StoredIsStreamed
  <2>1. HasRow(p)
    BY <1>0, <1>1, RowsOnlyGo
  <2> QED  BY <2>1, <1>0, <1>1 DEF StoredIsStreamed
<1>2. CASE AdminStep
  <2>1. /\ UNCHANGED <<postConv, got, stored, outcome>>
        /\ \A c \in Convs : rows'[c] \in {rows[c], <<>>}
    BY <1>2, <1>0 DEF AdminStep, CreateConversation, UpdateTarget, TypeOK,
                      DeleteConversation, Stop, ToggleNode, PurgeNode
  <2> QED  BY <2>1, <1>1
<1>3. ASSUME NEW p \in Posts,
             FetchAnswered(p) \/ AbandonedCloses(p) \/ ClientLeaves(p)
      PROVE  StoredIsStreamed'
  BY <1>1, <1>3 DEF FetchAnswered, AbandonedCloses, ClientLeaves
<1>4. ASSUME NEW p \in Posts, NEW c \in Convs, Refuse(p, c)
      PROVE  StoredIsStreamed'
  BY <1>0, <1>1, <1>4 DEF Refuse, TypeOK, PostInv
<1>5. CASE ProcessRestart
  BY <1>0, <1>1, <1>5 DEF ProcessRestart, PostInv, LivePost
<1>6. ASSUME NEW p \in Posts, NEW c \in Convs, Accept(p, c)
      PROVE  StoredIsStreamed'
  <2> SUFFICES ASSUME NEW q \in Posts, HasRow(q)'
               PROVE  \/ stored'[q] = got'[q]
                      \/ outcome'[q] = "cut" /\ stored'[q] = got'[q] - 1
    BY DEF StoredIsStreamed
  <2>1. UNCHANGED <<got, stored, outcome>> /\ phase[p] = "new"
    BY <1>6 DEF Accept
  <2>2. CASE q = p
    BY <2>1, <2>2, <1>0 DEF PostInv
  <2>3. CASE q # p
    <3>1. postConv'[q] = postConv[q] /\ postConv[q] \in Convs
      BY <1>6, <2>3, <1>0 DEF Accept, TypeOK, HasRow
    <3>2. PICK i \in 1..Len(rows'[postConv[q]]) : rows'[postConv[q]][i] = q
      BY <3>1 DEF HasRow
    <3>3. /\ rows[postConv[q]] \in Seq(Posts)
          /\ rows'[postConv[q]] \in {rows[postConv[q]],
                                     Append(rows[postConv[q]], p)}
      BY <1>6, <3>1, <1>0 DEF Accept, TypeOK
    <3>4. i \in 1..Len(rows[postConv[q]]) /\ rows[postConv[q]][i] = q
      <4>1. CASE rows'[postConv[q]] = rows[postConv[q]]
        BY <3>2, <4>1
      <4>2. CASE rows'[postConv[q]] = Append(rows[postConv[q]], p)
        BY <3>2, <3>3, <4>2, <2>3
      <4> QED  BY <3>3, <4>1, <4>2
    <3>5. HasRow(q)
      BY <3>1, <3>4, NoneAssumption DEF HasRow
    <3> QED  BY <3>5, <2>1, <1>0 DEF StoredIsStreamed
  <2> QED  BY <2>2, <2>3
<1>7. ASSUME NEW p \in Posts, Chunk(p)
      PROVE  StoredIsStreamed'
  <2>1. got' \in [Posts -> 0..MaxChunks] /\ stored' = Persisted(p)
    BY <1>7, <1>0, ChunksAssumption DEF Chunk, TypeOK
  <2>2. /\ UNCHANGED <<rows, postConv, outcome>>
        /\ \A q \in Posts \ {p} : got'[q] = got[q]
    BY <1>7, <1>0 DEF Chunk, TypeOK
  <2>3. \A q \in Posts : HasRow(q)' <=> HasRow(q)
    BY <2>2 DEF HasRow
  <2> QED  BY <2>1, <2>2, <2>3, <1>0, PersistedFacts DEF StoredIsStreamed
<1>8. ASSUME NEW p \in Posts, Ends(p)
      PROVE  StoredIsStreamed'
  <2>1. PICK how \in {"unreached", "complete", "cut"} : Leave(p, how)
    BY <1>8, <1>0, EndsFacts
  <2>2. /\ outcome'[p] = how
        /\ \A q \in Posts \ {p} : outcome'[q] = outcome[q]
    BY <2>1, <1>0, LeaveFacts DEF Outcomes
  <2>3. /\ LivePost(p) /\ UNCHANGED <<rows, postConv>>
        /\ \A q \in Posts \ {p} : got'[q] = got[q] /\ stored'[q] = stored[q]
        /\ got' \in [Posts -> 0..MaxChunks]
    BY <1>8, <1>0, EndsFacts
  <2>4. \A q \in Posts : HasRow(q)' <=> HasRow(q)
    BY <2>3 DEF HasRow
  <2>5. HasRow(p) => stored[p] = got[p]
    BY <2>3, <1>0 DEF PostInv, StoredIsStreamed, LivePost
  <2>6. HasRow(p) => \/ stored'[p] = got'[p]
                     \/ outcome'[p] = "cut" /\ stored'[p] = got'[p] - 1
    <3>1. CASE FetchRejected(p) \/ ErrorBodyRead(p)
      BY <3>1, <2>5 DEF FetchRejected, ErrorBodyRead
    <3>2. CASE StreamEnd(p)
      BY <3>2, <2>3, <2>5, <1>0, PersistedFacts DEF StreamEnd
    <3>3. CASE StreamFails(p)
      <4>1. UNCHANGED got /\ Cut(p)
        BY <3>3 DEF StreamFails
      <4>2. \/ stored'[p] = stored[p]
            \/ HasRow(p) => stored'[p] = got'[p]
        BY <4>1, <2>3, <1>0, CutFacts
      <4> QED  BY <4>1, <4>2, <2>5
    <3>4. CASE ProgressFails(p)
      <4>1. got'[p] = got[p] + 1 /\ got[p] \in Nat
        BY <3>4, <1>0, ChunksAssumption DEF ProgressFails, TypeOK
      <4>2. CASE Cut(p)
        <5>1. \/ got'[p] = 0
              \/ HasRow(p) => stored'[p] = got'[p]
          BY <4>2, <2>3, <1>0, CutFacts
        <5> QED  BY <4>1, <5>1
      <4>3. CASE Leave(p, "cut") /\ UNCHANGED stored
        <5>1. outcome'[p] = "cut"
          BY <4>3, <1>0, LeaveFacts DEF Outcomes
        <5> QED  BY <4>1, <4>3, <5>1, <2>5
      <4> QED  BY <3>4, <4>2, <4>3 DEF ProgressFails
    <3> QED  BY <1>8, <3>1, <3>2, <3>3, <3>4 DEF Ends
  <2>7. \A q \in Posts \ {p} :
          HasRow(q) => \/ stored'[q] = got'[q]
                       \/ outcome'[q] = "cut" /\ stored'[q] = got'[q] - 1
    BY <2>2, <2>3, <1>0 DEF StoredIsStreamed
  <2> QED  BY <2>4, <2>6, <2>7 DEF StoredIsStreamed
<1>9. CASE UNCHANGED vars
  BY <1>1, <1>9 DEF vars
<1> QED
  BY <1>2, <1>3, <1>4, <1>5, <1>6, <1>7, <1>8, <1>9 DEF Next, PostStep, Ends

\* What RecordMeaning says of one post.
Meaning(p) ==
  /\ Len(record[p]) <= 1
  /\ record[p] = <<200>> => outcome[p] = "complete" /\ got[p] > 0
  /\ record[p] = <<499>> => outcome[p] = "cut" /\ p \in stop
  /\ record[p] = <<502>> => outcome[p] = "cut" /\ p \notin stop
  /\ record[p] # <<>> => node[used[p]] # "purged"

\* A recorded status keeps its meaning.
LEMMA RecordStep == IInv /\ [Next]_vars => RecordMeaning'
<1> SUFFICES ASSUME IInv, [Next]_vars, NEW q \in Posts PROVE Meaning(q)'
  BY DEF RecordMeaning, Meaning
<1> USE DEF adminVars, postVars
<1>0. TypeOK /\ PostInv /\ Meaning(q)
  BY DEF IInv, RecordMeaning, Meaning
<1>1. ASSUME record'[q] = <<>>
      PROVE  Meaning(q)'
  BY <1>1 DEF Meaning
<1>2. ASSUME record'[q] = record[q], outcome'[q] = outcome[q],
             got'[q] = got[q], used'[q] = used[q], q \in stop' <=> q \in stop,
             node'[used[q]] = "purged" <=> node[used[q]] = "purged"
      PROVE  Meaning(q)'
  BY <1>0, <1>2 DEF Meaning
<1>3. ASSUME phase[q] # "over", record'[q] = record[q]
      PROVE  Meaning(q)'
  BY <1>0, <1>1, <1>3 DEF PostInv
<1>4. ASSUME UNCHANGED <<node, record, outcome, got, used, stop>>
      PROVE  Meaning(q)'
  BY <1>2, <1>4
<1>5. ASSUME \/ \E c \in Convs, n \in Nodes :
                  CreateConversation(c, n) \/ UpdateTarget(c, n)
             \/ \E c \in Convs : DeleteConversation(c)
      PROVE  Meaning(q)'
  BY <1>4, <1>5 DEF CreateConversation, UpdateTarget, DeleteConversation
<1>6. ASSUME NEW c \in Convs, Stop(c)
      PROVE  Meaning(q)'
  <2>1. CASE q = active[c]
    <3>1. phase[q] # "over"
      BY <1>6, <2>1, ActiveLive DEF Stop, LivePost
    <3> QED  BY <1>3, <1>6, <3>1 DEF Stop
  <2>2. CASE q # active[c]
    BY <1>2, <1>6, <2>2 DEF Stop
  <2> QED  BY <2>1, <2>2
<1>7. ASSUME NEW n \in Nodes, ToggleNode(n)
      PROVE  Meaning(q)'
  <2>1. node'[used[q]] = "purged" <=> node[used[q]] = "purged"
    BY <1>7, <1>0 DEF ToggleNode, TypeOK
  <2> QED  BY <1>2, <1>7, <2>1 DEF ToggleNode
<1>8. ASSUME NEW n \in Nodes, PurgeNode(n)
      PROVE  Meaning(q)'
  <2>1. CASE used[q] = n
    BY <1>1, <1>8, <2>1 DEF PurgeNode
  <2>2. CASE used[q] # n
    <3>1. node'[used[q]] = node[used[q]] /\ record'[q] = record[q]
      BY <1>8, <1>0, <2>2 DEF PurgeNode, TypeOK
    <3> QED  BY <1>2, <1>8, <3>1 DEF PurgeNode
  <2> QED  BY <2>1, <2>2
<1>9. ASSUME NEW p \in Posts,
             FetchAnswered(p) \/ AbandonedCloses(p) \/ ClientLeaves(p)
      PROVE  Meaning(q)'
  BY <1>4, <1>9 DEF FetchAnswered, AbandonedCloses, ClientLeaves
<1>10. ASSUME NEW p \in Posts, NEW c \in Convs, Accept(p, c) \/ Refuse(p, c)
       PROVE  Meaning(q)'
  <2>1. CASE q = p
    BY <1>3, <1>10, <2>1 DEF Accept, Refuse
  <2>2. CASE q # p
    BY <1>2, <1>10, <2>2, <1>0 DEF Accept, Refuse, TypeOK
  <2> QED  BY <2>1, <2>2
<1>11. ASSUME NEW p \in Posts, Chunk(p)
       PROVE  Meaning(q)'
  <2>1. CASE q = p
    BY <1>3, <1>11, <2>1 DEF Chunk
  <2>2. CASE q # p
    BY <1>2, <1>11, <2>2, <1>0 DEF Chunk, TypeOK
  <2> QED  BY <2>1, <2>2
<1>12. CASE ProcessRestart
  <2>1. CASE LivePost(q)
    BY <1>3, <1>12, <2>1 DEF ProcessRestart, LivePost
  <2>2. CASE ~ LivePost(q)
    BY <1>2, <1>12, <2>2, <1>0 DEF ProcessRestart, TypeOK
  <2> QED  BY <2>1, <2>2
<1>13. ASSUME NEW p \in Posts, Ends(p)
       PROVE  Meaning(q)'
  <2>0. PICK how \in {"unreached", "complete", "cut"} : Leave(p, how)
    BY <1>13, <1>0, EndsFacts
  <2>1. CASE q # p
    <3>1. outcome'[q] = outcome[q]
      BY <2>0, <2>1, <1>0, LeaveFacts DEF Outcomes
    <3>2. /\ record'[q] = record[q] /\ got'[q] = got[q]
          /\ UNCHANGED <<used, stop, node>>
      BY <1>13, <2>1, <1>0, EndsFacts
    <3> QED  BY <1>2, <3>1, <3>2
  <2>2. CASE q = p
    <3>1. /\ record[p] = <<>> /\ phase[p] # "over"
          /\ UNCHANGED <<used, stop, node>>
      BY <1>13, <1>0, EndsFacts DEF PostInv, LivePost
    <3>2. ASSUME record'[p] = record[p]
          PROVE  Meaning(p)'
      BY <1>3, <2>2, <3>1, <3>2
    <3>3. CASE FetchRejected(p) \/ ErrorBodyRead(p)
      BY <2>2, <3>2, <3>3 DEF FetchRejected, ErrorBodyRead
    <3>4. CASE StreamEnd(p)
      <4>1. CASE UNCHANGED record
        BY <2>2, <3>2, <4>1
      <4>2. CASE got[p] > 0 /\ Record(p, 200)
        <5>1. outcome'[p] = "complete" /\ got' = got
          BY <3>4, <1>0, LeaveFacts DEF StreamEnd, Outcomes
        <5>2. \/ record'[p] = record[p]
              \/ record'[p] = <<200>> /\ node[used[p]] # "purged"
          BY <3>1, <4>2, <1>0, RecordFacts DEF Statuses
        <5>3. CASE record'[p] = <<200>> /\ node[used[p]] # "purged"
          BY <2>2, <3>1, <4>2, <5>1, <5>3 DEF Meaning
        <5> QED  BY <2>2, <3>2, <5>2, <5>3
      <4> QED  BY <3>4, <4>1, <4>2 DEF StreamEnd
    <3>5. CASE Cut(p)
      <4>1. got' \in [Posts -> 0..MaxChunks]
        BY <1>13, <1>0, EndsFacts
      <4>2. outcome'[p] = "cut"
        BY <3>5, <1>0, LeaveFacts DEF Cut, Outcomes
      <4>3. \/ record'[p] = record[p]
            \/ /\ record'[p] = <<IF p \in stop THEN 499 ELSE 502>>
               /\ node[used[p]] # "purged"
        BY <3>1, <3>5, <4>1, <1>0, CutFacts
      <4>4. CASE /\ record'[p] = <<IF p \in stop THEN 499 ELSE 502>>
                 /\ node[used[p]] # "purged"
        BY <2>2, <3>1, <4>2, <4>4 DEF Meaning
      <4> QED  BY <2>2, <3>2, <4>3, <4>4
    <3>6. CASE UNCHANGED record
      BY <2>2, <3>2, <3>6
    <3> QED  BY <1>13, <2>2, <3>3, <3>4, <3>5, <3>6
                DEF Ends, StreamFails, ProgressFails
  <2> QED  BY <2>1, <2>2
<1>14. CASE UNCHANGED vars
  BY <1>4, <1>14 DEF vars
<1> QED
  BY <1>5, <1>6, <1>7, <1>8, <1>9, <1>10, <1>11, <1>12, <1>13, <1>14
     DEF Next, PostStep, AdminStep, Ends

\* A handler that returns has given its connection up, or was left early by a
\* failed write.
LEMMA LinkStep == IInv /\ [Next]_vars => UpstreamReleased'
<1> SUFFICES ASSUME IInv, [Next]_vars PROVE UpstreamReleased'
  OBVIOUS
<1> USE DEF adminVars, postVars
<1>0. TypeOK /\ PostInv /\ UpstreamReleased
  BY DEF IInv
<1>1. ASSUME link' \subseteq link, UNCHANGED <<phase, outcome, stop>>
      PROVE  UpstreamReleased'
  BY <1>0, <1>1 DEF UpstreamReleased, LivePost
<1>2. ASSUME \/ \E c \in Convs, n \in Nodes :
                  CreateConversation(c, n) \/ UpdateTarget(c, n)
             \/ \E c \in Convs : DeleteConversation(c)
             \/ \E n \in Nodes : ToggleNode(n) \/ PurgeNode(n)
      PROVE  UpstreamReleased'
  BY <1>1, <1>2 DEF CreateConversation, UpdateTarget, DeleteConversation,
                    ToggleNode, PurgeNode
<1>3. ASSUME NEW c \in Convs, Stop(c)
      PROVE  UpstreamReleased'
  BY <1>3, <1>0 DEF Stop, UpstreamReleased, LivePost
<1>4. ASSUME NEW p \in Posts, Chunk(p) \/ AbandonedCloses(p) \/ ClientLeaves(p)
      PROVE  UpstreamReleased'
  BY <1>1, <1>4 DEF Chunk, AbandonedCloses, ClientLeaves
<1>5. ASSUME NEW p \in Posts, NEW c \in Convs, Accept(p, c)
      PROVE  UpstreamReleased'
  BY <1>5, <1>0 DEF Accept, TypeOK, UpstreamReleased, LivePost
<1>6. ASSUME NEW p \in Posts, NEW c \in Convs, Refuse(p, c)
      PROVE  UpstreamReleased'
  <2>1. /\ p \notin link /\ UNCHANGED <<link, stop>>
        /\ \A q \in Posts \ {p} : /\ phase'[q] = phase[q]
                                  /\ outcome'[q] = outcome[q]
    BY <1>6, <1>0 DEF Refuse, TypeOK, PostInv
  <2>2. link \subseteq Posts
    BY <1>0 DEF TypeOK
  <2> QED  BY <1>0, <2>1, <2>2 DEF UpstreamReleased, LivePost
<1>7. ASSUME NEW p \in Posts, FetchAnswered(p)
      PROVE  UpstreamReleased'
  <2>1. /\ phase[p] = "connecting" /\ UNCHANGED <<link, stop, outcome>>
        /\ phase'[p] \in {"streaming", "errorBody"}
        /\ \A q \in Posts \ {p} : phase'[q] = phase[q]
    BY <1>7, <1>0 DEF FetchAnswered, TypeOK
  <2>2. link \subseteq Posts
    BY <1>0 DEF TypeOK
  <2> QED  BY <1>0, <2>1, <2>2 DEF UpstreamReleased, LivePost
<1>8. ASSUME NEW p \in Posts, Ends(p)
      PROVE  UpstreamReleased'
  <2>1. PICK how \in {"unreached", "complete", "cut"} : Leave(p, how)
    BY <1>8, <1>0, EndsFacts
  <2>2. \A q \in Posts \ {p} : phase'[q] = phase[q] /\ outcome'[q] = outcome[q]
    BY <2>1, <1>0, LeaveFacts DEF Outcomes
  <2>3. stop' = stop
    BY <1>8, <1>0, EndsFacts
  <2>4. \/ link' = link \ {p}
        \/ link' = link /\ outcome'[p] = "cut"
    <3>1. CASE ProgressFails(p)
      BY <3>1, <1>0, LeaveFacts DEF ProgressFails, Cut, Outcomes
    <3> QED
      BY <1>8, <3>1
         DEF Ends, FetchRejected, ErrorBodyRead, StreamEnd, StreamFails
  <2> SUFFICES ASSUME NEW q \in link', ~ LivePost(q)'
               PROVE  outcome'[q] = "cut" /\ q \notin stop
    BY <2>3 DEF UpstreamReleased
  <2>5. q \in Posts /\ q \in link
    BY <2>4, <1>0 DEF TypeOK
  <2>6. CASE q = p
    BY <2>4, <2>5, <2>6, <1>0 DEF PostInv
  <2>7. CASE q # p
    BY <2>2, <2>5, <2>7, <1>0 DEF UpstreamReleased, LivePost
  <2> QED  BY <2>6, <2>7
<1>9. CASE ProcessRestart
  BY <1>9 DEF ProcessRestart, UpstreamReleased
<1>10. CASE UNCHANGED vars
  BY <1>1, <1>10 DEF vars
<1> QED
  BY <1>2, <1>3, <1>4, <1>5, <1>6, <1>7, <1>8, <1>9, <1>10
     DEF Next, PostStep, AdminStep, Ends

\* The action of FinalWhenIdle: only a live post's answer is written.
Final == \A p \in Posts :
           HasRow(p) /\ active[postConv[p]] = None => stored'[p] = stored[p]

LEMMA FinalStep == IInv /\ [Next]_vars => Final
<1> SUFFICES ASSUME IInv, [Next]_vars, NEW p \in Posts,
                    HasRow(p), active[postConv[p]] = None
             PROVE  stored'[p] = stored[p]
  BY DEF Final
<1> USE DEF adminVars, postVars
<1>0. TypeOK
  BY DEF IInv
<1>1. ~ LivePost(p)
  BY NoneAssumption DEF IInv, ActiveExact
<1>2. ASSUME NEW q \in Posts, PostStep(q)
      PROVE  stored'[p] = stored[p]
  <2>1. CASE Chunk(q)
    <3>1. q # p
      BY <1>1, <2>1 DEF Chunk, LivePost
    <3> QED  BY <2>1, <3>1, <1>0 DEF Chunk, Persisted, TypeOK
  <2>2. CASE Ends(q)
    BY <1>0, <1>1, <2>2, EndsFacts
  <2>3. CASE UNCHANGED stored
    BY <2>3
  <2> QED
    BY <1>2, <2>1, <2>2, <2>3
       DEF PostStep, Ends, Accept, Refuse, FetchAnswered, AbandonedCloses,
           ClientLeaves
<1>3. CASE AdminStep
  BY <1>3 DEF AdminStep, CreateConversation, UpdateTarget,
              DeleteConversation, Stop, ToggleNode, PurgeNode
<1>4. CASE ProcessRestart \/ UNCHANGED vars
  BY <1>4 DEF ProcessRestart, vars
<1> QED  BY <1>2, <1>3, <1>4 DEF Next

LEMMA IInvStep == IInv /\ [Next]_vars => IInv'
BY TypeStep, PostInvStep, ActiveStep, StoredStep, RecordStep, LinkStep DEF IInv

-----------------------------------------------------------------------------
(* The refinement.                                                         *)

\* The posts that have had their turn, or lost it.
Spent == {p \in Posts : phase[p] # "new"}

LEMMA TurnsInit == Init => Turns!Init
BY DEF Init, Turns!Init

\* A step that starts and ends nothing is a stutter.
LEMMA TurnsStutter ==
  ASSUME UNCHANGED active, Spent' = Spent
  PROVE  UNCHANGED Turns!vars
BY DEF Turns!vars, Spent

LEMMA TurnsBegin ==
  ASSUME TypeOK, NEW p \in Posts, NEW c \in Convs, Accept(p, c)
  PROVE  Turns!Begin(c, p)
<1>1. phase[p] = "new" /\ active[c] = None
  BY DEF Accept
<1>2. active' = [active EXCEPT ![c] = p]
  BY DEF Accept
<1>3. Spent' = Spent \cup {p}
  BY DEF TypeOK, Accept, Spent
<1> QED  BY <1>1, <1>2, <1>3 DEF Turns!Begin, Spent

LEMMA TurnsRefuse ==
  ASSUME TypeOK, NEW p \in Posts, NEW c \in Convs, Refuse(p, c)
  PROVE  Turns!Drop({p})
<1>1. phase[p] = "new" /\ UNCHANGED active
  BY DEF Refuse
<1>2. Spent' = Spent \cup {p}
  BY DEF TypeOK, Refuse, Spent
<1> QED  BY <1>1, <1>2 DEF Turns!Drop, Spent

LEMMA TurnsEnd ==
  ASSUME IInv, NEW p \in Posts, Ends(p)
  PROVE  Turns!End({postConv[p]}) /\ postConv[p] \in Convs
<1>0. TypeOK
  BY DEF IInv
<1>1. PICK how \in {"unreached", "complete", "cut"} : Leave(p, how)
  BY <1>0, EndsFacts
<1>2. how \in Outcomes
  BY DEF Outcomes
<1>3. LivePost(p) /\ postConv[p] \in Convs /\ active[postConv[p]] = p
  BY <1>0, EndsFacts DEF IInv, PostInv, ActiveExact
<1>4. /\ phase'[p] = "over" /\ phase[p] # "new"
      /\ \A q \in Posts \ {p} : phase'[q] = phase[q]
  BY <1>0, <1>1, <1>2, <1>3, LeaveFacts DEF LivePost
<1>5. /\ active' \in [Convs -> Posts \cup {None}]
      /\ \A c \in Convs : active'[c] = IF c = postConv[p] THEN None
                                                          ELSE active[c]
  BY <1>0, <1>1, <1>2, <1>3, LeaveFacts
<1>6. active' = [c \in Convs |-> IF c \in {postConv[p]} THEN None
                                                       ELSE active[c]]
  BY <1>5
<1>7. Spent' = Spent
  BY <1>4 DEF Spent
<1>8. \A c \in {postConv[p]} : active[c] # None
  BY <1>3, NoneAssumption
<1> QED  BY <1>3, <1>6, <1>7, <1>8 DEF Turns!End, Spent

LEMMA TurnsRestart ==
  ASSUME TypeOK, ProcessRestart
  PROVE  Turns!End({c \in Convs : active[c] # None})
<1>1. active' = [c \in Convs |-> None]
  BY DEF ProcessRestart
<1>2. active' = [c \in Convs |-> IF c \in {d \in Convs : active[d] # None}
                                THEN None ELSE active[c]]
  BY <1>1
<1>3. Spent' = Spent
  BY DEF TypeOK, ProcessRestart, LivePost, Spent
<1> QED  BY <1>2, <1>3 DEF Turns!End, Spent

\* Every step of a handler, an administrator or the process is a step of
\* ConversationTurns or a stutter.
LEMMA TurnsStep == IInv /\ [Next]_vars => [Turns!Next]_(Turns!vars)
<1> SUFFICES ASSUME IInv, [Next]_vars PROVE [Turns!Next]_(Turns!vars)
  OBVIOUS
<1> USE DEF adminVars, postVars
<1>0. TypeOK
  BY DEF IInv
<1>1. ASSUME UNCHANGED <<active, phase>>
      PROVE  UNCHANGED Turns!vars
  BY <1>1, TurnsStutter DEF Spent
<1>2. CASE AdminStep
  BY <1>1, <1>2 DEF AdminStep, CreateConversation, UpdateTarget,
                    DeleteConversation, Stop, ToggleNode, PurgeNode
<1>3. ASSUME NEW p \in Posts, PostStep(p)
      PROVE  [Turns!Next]_(Turns!vars)
  <2>1. ASSUME NEW c \in Convs, Accept(p, c)
        PROVE  Turns!Next
    BY <1>0, <2>1, TurnsBegin DEF Turns!Next
  <2>2. ASSUME NEW c \in Convs, Refuse(p, c)
        PROVE  Turns!Next
    <3>1. Turns!Drop({p}) /\ {p} \in SUBSET Posts
      BY <1>0, <2>2, TurnsRefuse
    <3> QED  BY <3>1 DEF Turns!Next
  <2>3. CASE FetchAnswered(p)
    <3>1. Spent' = Spent
      BY <1>0, <2>3 DEF TypeOK, FetchAnswered, Spent
    <3> QED  BY <2>3, <3>1, TurnsStutter DEF FetchAnswered
  <2>4. CASE Chunk(p) \/ AbandonedCloses(p) \/ ClientLeaves(p)
    BY <1>1, <2>4 DEF Chunk, AbandonedCloses, ClientLeaves
  <2>5. CASE Ends(p)
    <3>1. Turns!End({postConv[p]}) /\ {postConv[p]} \in SUBSET Convs
      BY <2>5, TurnsEnd
    <3> QED  BY <3>1 DEF Turns!Next
  <2> QED  BY <1>3, <2>1, <2>2, <2>3, <2>4, <2>5 DEF PostStep, Ends
<1>4. CASE ProcessRestart
  <2>1. Turns!End({c \in Convs : active[c] # None})
    BY <1>0, <1>4, TurnsRestart
  <2>2. {c \in Convs : active[c] # None} \in SUBSET Convs
    OBVIOUS
  <2> QED  BY <2>1, <2>2 DEF Turns!Next
<1>5. CASE UNCHANGED vars
  BY <1>1, <1>5 DEF vars
<1> QED  BY <1>2, <1>3, <1>4, <1>5 DEF Next

-----------------------------------------------------------------------------
(* The theorems.                                                           *)

\* The strengthened invariant holds in every reachable state.
THEOREM GenerationInvariant == Spec => []IInv
BY InitIInv, IInvStep, PTL DEF Spec

\* Type correctness of conversations, rows, generations and usage records.
THEOREM GenerationTypeCorrect == Spec => []TypeOK
<1>1. IInv => TypeOK
  BY DEF IInv
<1> QED  BY GenerationInvariant, <1>1, PTL

\* activeGenerations is exact: one generation per conversation, and no entry
\* outlives its handler, whether it ends, fails, is stopped, or its
\* conversation or machine is deleted under it.
THEOREM GenerationActive == Spec => []ActiveExact
<1>1. IInv => ActiveExact
  BY DEF IInv
<1> QED  BY GenerationInvariant, <1>1, PTL

\* The assistant row holds all the text that was streamed, but for the chunk
\* whose own write failed (onProgress and updateMessageContent).
THEOREM GenerationStored == Spec => []StoredIsStreamed
<1>1. IInv => StoredIsStreamed
  BY DEF IInv
<1> QED  BY GenerationInvariant, <1>1, PTL

\* At most one usage record for a post, with the status that says how it
\* ended, and none for a machine that was purged.
THEOREM GenerationRecords == Spec => []RecordMeaning
<1>1. IInv => RecordMeaning
  BY DEF IInv
<1> QED  BY GenerationInvariant, <1>1, PTL

\* streamDashboardChat returns with its upstream connection closed, except
\* when storing a chunk threw.
THEOREM GenerationReleases == Spec => []UpstreamReleased
<1>1. IInv => UpstreamReleased
  BY DEF IInv
<1> QED  BY GenerationInvariant, <1>1, PTL

\* No step changes a stored answer of a conversation that is idle: what a
\* poller reads with generation_in_progress = false is the last version.
THEOREM GenerationFinal == Spec => FinalWhenIdle
<1>1. IInv /\ [Next]_vars =>
        [\A p \in Posts :
           HasRow(p) /\ active[postConv[p]] = None
             => stored'[p] = stored[p]]_vars
  BY FinalStep DEF Final
<1> QED  BY GenerationInvariant, <1>1, PTL DEF Spec, FinalWhenIdle

\* The handlers of conversations and messages implement ConversationTurns, for
\* any posts and conversations: one post at a time generates for a
\* conversation, and one that ended, was refused or was lost in a restart
\* never generates again.
THEOREM GenerationImplementsTurns == Spec => ImplementsTurns
<1>1. Init => Turns!Init
  BY TurnsInit
<1>2. IInv /\ [Next]_vars => [Turns!Next]_(Turns!vars)
  BY TurnsStep
<1> QED  BY <1>1, <1>2, GenerationInvariant, PTL
         DEF Spec, ImplementsTurns, Turns!Spec
============================================================================
