------------------------- MODULE NodeRegistryProofs -------------------------
(***************************************************************************)
(* Proofs about NodeRegistry for any machines, models, keys, conversations *)
(* and requests, any credentials and any number of secrets.                *)
(*                                                                         *)
(* None of the safety properties is inductive: that a record is kept until *)
(* its machine is purged needs to know that a deleted id never comes back  *)
(* and that a request has named a machine which was created; that every    *)
(* machine serves something after a start needs its primary model; that a  *)
(* credential is presented at home needs to know whose copy is stored, and *)
(* that the default machine was given what its process runs with.          *)
(***************************************************************************)
EXTENDS NodeRegistry, TLAPS

\* What request[r] may be, by TypeOK.
RequestRecord ==
  [phase : {"new", "flight", "done", "lost"}, node : Nodes \cup {None},
   model : Models \cup {None},
   credential : EnvCredentials \cup NodeCredentials \cup {None}]

\* The row of a key, by TypeOK.
KeyRecord == [node : Nodes, secret : Secrets, revoked : BOOLEAN]

-----------------------------------------------------------------------------
(* Type correctness.                                                       *)

LEMMA InitTyped == Init => TypeOK
BY DefaultAssumption DEF Init, TypeOK, Env

\* buildAuthHeaders presents a credential or nothing.
LEMMA PresentedTyped ==
  ASSUME TypeOK, NEW n \in Nodes
  PROVE  Presented(n) \in EnvCredentials \cup NodeCredentials \cup {None}
BY DEF TypeOK, Presented, ResolveCredential, Readable, Env, Sealed

\* encryptNodeKey yields what the column may hold.
LEMMA SealTyped ==
  ASSUME TypeOK, NEW c \in Offered
  PROVE  Seal(c) \in Sealed \cup {None}
BY DEF TypeOK, Seal, Offered, Env, Sealed

\* What a machine has been given is a set of credentials.
LEMMA EnteredTyped ==
  ASSUME TypeOK, NEW n \in Nodes, NEW c \in Offered, Entered(n, c)
  PROVE  entered' \in [Nodes -> SUBSET (EnvCredentials \cup NodeCredentials)]
BY DEF TypeOK, Entered, Offered

\* A key that is accepted names a machine that is switched on.
LEMMA AcceptedNode ==
  ASSUME TypeOK, NEW k \in Keys, Accepted(k)
  PROVE  key[k].node \in enabled /\ key[k].node \in Nodes
BY DEF TypeOK, Accepted

\* What is left of the requests when the process is gone.
LEMMA ProcessGoneTyped ==
  ASSUME TypeOK, ProcessGone
  PROVE  /\ process' \in {"up", "down"}
         /\ request' \in [Requests -> RequestRecord]
<1>1. \A r \in Requests :
        [request[r] EXCEPT !.phase = IF @ = "flight" THEN "lost" ELSE @]
          \in RequestRecord
  <2> SUFFICES ASSUME NEW r \in Requests
               PROVE  [request[r] EXCEPT !.phase = IF @ = "flight" THEN "lost"
                                                               ELSE @]
                        \in RequestRecord
    OBVIOUS
  <2>1. request[r] \in RequestRecord
    BY DEF TypeOK, RequestRecord
  <2> QED  BY <2>1 DEF RequestRecord
<1> QED  BY <1>1 DEF ProcessGone

LEMMA TypeStep == TypeOK /\ [Next]_vars => TypeOK'
<1> SUFFICES ASSUME TypeOK, [Next]_vars PROVE TypeOK'
  OBVIOUS
<1>1. ASSUME NEW n \in Nodes, NEW m \in Models, NEW c \in Offered,
             CreateNode(n, m, c)
      PROVE  TypeOK'
  BY <1>1, SealTyped, EnteredTyped DEF TypeOK, CreateNode, InsertNode
<1>2. ASSUME NEW n \in Nodes, NEW m \in Models, NEW c \in Offered,
             CreateNodeCrash(n, m, c)
      PROVE  TypeOK'
  BY <1>2, SealTyped, EnteredTyped, ProcessGoneTyped
     DEF TypeOK, CreateNodeCrash, InsertNode, RequestRecord
<1>3. ASSUME NEW n \in Nodes, NEW m \in Models, AddNodeModel(n, m)
      PROVE  TypeOK'
  BY <1>3 DEF TypeOK, AddNodeModel
<1>4. ASSUME NEW n \in Nodes, NEW m \in Models, DeleteNodeModel(n, m)
      PROVE  TypeOK'
  BY <1>4 DEF TypeOK, DeleteNodeModel
<1>5. ASSUME NEW n \in Nodes, NEW m \in Models, NEW on \in BOOLEAN,
             SetNodeModelEnabled(n, m, on)
      PROVE  TypeOK'
  BY <1>5 DEF TypeOK, SetNodeModelEnabled
<1>6. ASSUME NEW n \in Nodes, NEW on \in BOOLEAN, SetNodeEnabled(n, on)
      PROVE  TypeOK'
  BY <1>6 DEF TypeOK, SetNodeEnabled
<1>7. ASSUME NEW n \in Nodes, NEW purge \in BOOLEAN, DeleteNode(n, purge)
      PROVE  TypeOK'
  BY <1>7 DEF TypeOK, DeleteNode, Purged
<1>8. ASSUME NEW n \in Nodes, NEW c \in Offered, UpdateNodeAuth(n, c)
      PROVE  TypeOK'
  BY <1>8, SealTyped, EnteredTyped DEF TypeOK, UpdateNodeAuth
<1>9. ASSUME NEW n \in Nodes, NEW k \in Keys, CreateApiKey(k, n)
      PROVE  TypeOK'
  BY <1>9 DEF TypeOK, CreateApiKey, nodeVars, Env
<1>10. ASSUME NEW n \in Nodes, NEW c \in Convs, SetConversation(c, n)
       PROVE  TypeOK'
  BY <1>10 DEF TypeOK, SetConversation, nodeVars
<1>11. ASSUME NEW r \in Requests, NEW k \in Keys, NEW m \in Models \cup {None},
              Send(r, k, m)
       PROVE  TypeOK'
  <2>1. key[k].node \in Nodes
    BY <1>11, AcceptedNode DEF Send
  <2>2. Presented(key[k].node)
          \in EnvCredentials \cup NodeCredentials \cup {None}
    BY <2>1, PresentedTyped
  <2> QED  BY <1>11, <2>1, <2>2 DEF TypeOK, Send, nodeVars
<1>12. ASSUME NEW r \in Requests, NEW k \in Keys, NEW m \in Models \cup {None},
              ProxyChat(r, k, m)
       PROVE  TypeOK'
  <2>1. CASE m = None
    <3>1. Accepted(k) /\ Send(r, k, primary[key[k].node])
      BY <1>12, <2>1 DEF ProxyChat
    <3>2. primary[key[k].node] \in Models \cup {None}
      BY <3>1, AcceptedNode DEF TypeOK
    <3> QED  BY <3>1, <3>2, <1>11
  <2>2. CASE m # None
    BY <1>12, <2>2, <1>11 DEF ProxyChat
  <2> QED  BY <2>1, <2>2
<1>13. ASSUME NEW r \in Requests, NEW k \in Keys, NEW m \in Models,
              RefuseModel(r, k, m)
       PROVE  TypeOK'
  <2>1. key[k].node \in Nodes
    BY <1>13, AcceptedNode DEF RefuseModel
  <2>2. request[r] \in RequestRecord /\ request \in [Requests -> RequestRecord]
    BY DEF TypeOK, RequestRecord
  <2>3. [request[r] EXCEPT !.phase = "done", !.node = key[k].node]
          \in RequestRecord
    BY <2>1, <2>2 DEF RequestRecord
  <2>4. request' =
          [request EXCEPT ![r] =
             [request[r] EXCEPT !.phase = "done", !.node = key[k].node]]
    BY <1>13, <2>2 DEF RefuseModel, RequestRecord
  <2>5. request' \in [Requests -> RequestRecord]
    BY <2>2, <2>3, <2>4
  <2> QED  BY <1>13, <2>5 DEF TypeOK, RefuseModel, nodeVars, RequestRecord
<1>14. ASSUME NEW r \in Requests, Finish(r)
       PROVE  TypeOK'
  <2>1. process' \in {"up", "down"} /\ request' \in [Requests -> RequestRecord]
    <3>1. CASE ProcessGone
      BY <3>1, ProcessGoneTyped
    <3>2. CASE /\ request' = [request EXCEPT ![r].phase = "done"]
               /\ UNCHANGED process
      <4>1. request \in [Requests -> RequestRecord]
        BY DEF TypeOK, RequestRecord
      <4>2. [request[r] EXCEPT !.phase = "done"] \in RequestRecord
        BY <4>1 DEF RequestRecord
      <4> QED  BY <3>2, <4>1, <4>2 DEF TypeOK
    <3> QED  BY <1>14, <3>1, <3>2 DEF Finish
  <2>2. log' \in SUBSET Requests
    BY <1>14 DEF TypeOK, Finish
  <2> QED  BY <1>14, <2>1, <2>2 DEF TypeOK, Finish, nodeVars, RequestRecord
<1>15. ASSUME NEW k \in Keys, RevokeApiKey(k)
       PROVE  TypeOK'
  <2>1. key[k] \in KeyRecord /\ key \in [Keys -> KeyRecord \cup {None}]
    BY <1>15 DEF TypeOK, RevokeApiKey, KeyRecord
  <2>2. [key[k] EXCEPT !.revoked = TRUE] \in KeyRecord
    BY <2>1 DEF KeyRecord
  <2>3. key' \in [Keys -> KeyRecord \cup {None}]
    BY <1>15, <2>1, <2>2 DEF RevokeApiKey
  <2> QED  BY <1>15, <2>3 DEF TypeOK, RevokeApiKey, KeyRecord, nodeVars
<1>16. ASSUME NEW c \in Convs, DeleteConversation(c)
       PROVE  TypeOK'
  BY <1>16 DEF TypeOK, DeleteConversation, nodeVars
<1>17. CASE Crash
  BY <1>17, ProcessGoneTyped DEF TypeOK, Crash, nodeVars, RequestRecord
<1>18. ASSUME NEW e \in Env, Start(e)
       PROVE  TypeOK'
  BY <1>18, DefaultAssumption DEF TypeOK, Start, Env, Sealed, Backfilled
<1>19. CASE UNCHANGED vars
  BY <1>19 DEF TypeOK, vars, nodeVars
<1> QED
  BY <1>1, <1>2, <1>3, <1>4, <1>5, <1>6, <1>7, <1>8, <1>9, <1>10, <1>11,
     <1>12, <1>13, <1>14, <1>15, <1>16, <1>17, <1>18, <1>19
     DEF Next, NodeStep, RequestStep, ListModels

\* Type correctness: the database, the process and the requests in flight
\* keep their types whatever the handlers of db.js and server.js do.
THEOREM RegistryTypeCorrect == Spec => []TypeOK
BY InitTyped, TypeStep, PTL DEF Spec

-----------------------------------------------------------------------------
(* The inductive invariant.                                                *)

\* The default machine, once there, stays; a machine that is there has a
\* primary model, which is what a start completes its model rows from.
MachineInv ==
  /\ status[DefaultNode] # "deleted"
  /\ \A n \in Nodes : Exists(n) => primary[n] \in Models

\* A request names a machine from the moment it is accepted, one that has
\* been created at some time, and only an answered request is recorded.
RequestInv ==
  /\ \A r \in Requests :
       /\ request[r].phase = "new" => request[r].credential = None
       /\ request[r].phase # "new" => /\ request[r].node \in Nodes
                                      /\ status[request[r].node] # "unborn"
  /\ \A r \in log : request[r].phase = "done"

\* A stored copy is one its machine was given and still has, and so is what
\* the default machine falls back on.
StoredAtHome ==
  /\ \A n \in Nodes :
       stored[n] # None => stored[n].credential \in entered[n]
  /\ process = "up" => env.credential \in entered[DefaultNode]

IInv == /\ TypeOK
        /\ MachineInv
        /\ RequestInv
        /\ References
        /\ ServesSomething
        /\ RecordedOrPurged
        /\ StoredAtHome

LEMMA InitIInv == Init => IInv
BY InitTyped, DefaultAssumption, NoneAssumption
   DEF Init, IInv, MachineInv, RequestInv, References, ServesSomething,
       RecordedOrPurged, StoredAtHome, Exists

-----------------------------------------------------------------------------
(* What single steps do to requests and credentials.                       *)

\* A process that goes takes the requests in flight with it and changes
\* nothing else about any request.
LEMMA ProcessGoneRequest ==
  ASSUME TypeOK, ProcessGone, NEW r \in Requests
  PROVE  /\ request'[r].phase =
              IF request[r].phase = "flight" THEN "lost" ELSE request[r].phase
         /\ request'[r].node = request[r].node
         /\ request'[r].credential = request[r].credential
BY DEF TypeOK, ProcessGone

\* What is presented to a machine is its own.
LEMMA PresentedAtHome ==
  ASSUME TypeOK, StoredAtHome, process = "up", NEW n \in Nodes
  PROVE  Presented(n) = None \/ Presented(n) \in entered[n]
BY DEF StoredAtHome, Presented, ResolveCredential, Readable

\* A machine whose credential is entered has it stored or has none.
LEMMA SealedAtHome ==
  ASSUME TypeOK, StoredAtHome, NEW n \in Nodes \ {DefaultNode},
         NEW c \in Offered, Entered(n, c),
         stored' = [stored EXCEPT ![n] = Seal(c)],
         process' = "up" => process = "up", env' = env
  PROVE  StoredAtHome'
<1>1. Seal(c) # None => Seal(c).credential \in {c} \ {None}
  BY DEF Seal
<1> QED  BY <1>1, DefaultAssumption DEF TypeOK, StoredAtHome, Entered

\* Requests after Send, RefuseModel and the answer of Finish.
LEMMA SendRequest ==
  ASSUME TypeOK, NEW r \in Requests, NEW k \in Keys, NEW m, Send(r, k, m)
  PROVE  /\ Accepted(k)
         /\ request[r].phase = "new"
         /\ request'[r].phase = "flight"
         /\ request'[r].node = key[k].node
         /\ request'[r].credential = Presented(key[k].node)
         /\ \A q \in Requests \ {r} : request'[q] = request[q]
BY DEF TypeOK, Send

LEMMA RefusedRequest ==
  ASSUME TypeOK, NEW r \in Requests, NEW k \in Keys, NEW m \in Models,
         RefuseModel(r, k, m)
  PROVE  /\ Accepted(k)
         /\ request[r].phase = "new"
         /\ request'[r].phase = "done"
         /\ request'[r].node = key[k].node
         /\ request'[r].credential = request[r].credential
         /\ \A q \in Requests \ {r} : request'[q] = request[q]
<1>1. request[r] \in RequestRecord
  BY DEF TypeOK, RequestRecord
<1>2. request'[r] = [request[r] EXCEPT !.phase = "done", !.node = key[k].node]
  BY DEF TypeOK, RefuseModel
<1> QED  BY <1>1, <1>2 DEF TypeOK, RefuseModel, RequestRecord

LEMMA AnsweredRequest ==
  ASSUME TypeOK, NEW r \in Requests,
         request' = [request EXCEPT ![r].phase = "done"]
  PROVE  /\ request'[r].phase = "done"
         /\ request'[r].node = request[r].node
         /\ request'[r].credential = request[r].credential
         /\ \A q \in Requests \ {r} : request'[q] = request[q]
BY DEF TypeOK

-----------------------------------------------------------------------------
(* Every step preserves IInv.                                              *)

LEMMA IInvStep == IInv /\ [Next]_vars => IInv'
<1> SUFFICES ASSUME IInv, [Next]_vars PROVE IInv'
  OBVIOUS
<1>0. TypeOK /\ TypeOK'
  BY TypeStep DEF IInv
<1>1. ASSUME NEW n \in Nodes, NEW m \in Models, NEW c \in Offered,
             CreateNode(n, m, c)
      PROVE  IInv'
  <2>1. StoredAtHome'
    <3>1. /\ stored' = [stored EXCEPT ![n] = Seal(c)]
          /\ Entered(n, c) /\ n # DefaultNode
          /\ process' = "up" => process = "up"
          /\ env' = env
      BY <1>1 DEF CreateNode, InsertNode
    <3> QED  BY <1>0, <3>1, SealedAtHome DEF IInv
  <2>2. MachineInv' /\ References' /\ ServesSomething'
    BY <1>1, <1>0
       DEF IInv, TypeOK, MachineInv, References, ServesSomething, CreateNode,
           InsertNode, Exists
  <2>3. RequestInv' /\ RecordedOrPurged'
    BY <1>1, <1>0
       DEF IInv, TypeOK, RequestInv, RecordedOrPurged,
           CreateNode, InsertNode, Exists
  <2> QED  BY <1>0, <2>1, <2>2, <2>3 DEF IInv
<1>2. ASSUME NEW n \in Nodes, NEW m \in Models, NEW c \in Offered,
             CreateNodeCrash(n, m, c)
      PROVE  IInv'
  <2>1. StoredAtHome'
    <3>1. /\ stored' = [stored EXCEPT ![n] = Seal(c)]
          /\ Entered(n, c) /\ n # DefaultNode
          /\ process' = "up" => process = "up"
          /\ env' = env
      BY <1>2 DEF CreateNodeCrash, InsertNode, ProcessGone
    <3> QED  BY <1>0, <3>1, SealedAtHome DEF IInv
  <2>2. RequestInv' /\ RecordedOrPurged'
    <3>1. ProcessGone /\ log' = log /\ status[n] = "unborn"
          /\ status' = [status EXCEPT ![n] = "exists"]
      BY <1>2 DEF CreateNodeCrash, InsertNode
    <3>2. RequestInv'
      <4>1. \A x \in Nodes : status[x] # "unborn" => status'[x] # "unborn"
        BY <1>0, <3>1 DEF TypeOK
      <4> QED
        BY <1>0, <3>1, <4>1, ProcessGoneRequest DEF IInv, TypeOK, RequestInv
    <3>3. RecordedOrPurged'
      <4> SUFFICES ASSUME NEW r \in Requests, request'[r].phase = "done"
                   PROVE  r \in log' <=> status'[request'[r].node] = "exists"
        BY DEF RecordedOrPurged, Exists
      <4>1. request[r].phase = "done" /\ request'[r].node = request[r].node
        BY <1>0, <3>1, ProcessGoneRequest
      <4>2. request[r].node \in Nodes /\ request[r].node # n
        BY <3>1, <4>1 DEF IInv, RequestInv
      <4>3. status'[request[r].node] = status[request[r].node]
        BY <1>0, <3>1, <4>2 DEF TypeOK
      <4> QED  BY <3>1, <4>1, <4>3 DEF IInv, RecordedOrPurged, Exists
    <3> QED  BY <3>2, <3>3
  <2>4. References'
    BY <1>2, <1>0, ProcessGoneRequest
       DEF IInv, TypeOK, RequestInv, References, CreateNodeCrash, InsertNode,
           Exists
  <2>3. MachineInv' /\ ServesSomething'
    BY <1>2, <1>0
       DEF IInv, TypeOK, MachineInv, ServesSomething, CreateNodeCrash,
           InsertNode, ProcessGone, Exists
  <2> QED  BY <1>0, <2>1, <2>2, <2>3, <2>4 DEF IInv
<1>3. ASSUME NEW n \in Nodes, NEW m \in Models, AddNodeModel(n, m)
      PROVE  IInv'
  <2>1. References' /\ ServesSomething'
    BY <1>3, <1>0
       DEF IInv, TypeOK, References, ServesSomething, AddNodeModel,
           Admin, Exists
  <2>2. /\ MachineInv' /\ RequestInv' /\ RecordedOrPurged'
        /\ StoredAtHome'
    BY <1>3, <1>0
       DEF IInv, TypeOK, MachineInv, RequestInv, RecordedOrPurged,
           StoredAtHome, AddNodeModel, Exists
  <2> QED  BY <1>0, <2>1, <2>2 DEF IInv
<1>4. ASSUME NEW n \in Nodes, NEW m \in Models, DeleteNodeModel(n, m)
      PROVE  IInv'
  <2>1. References' /\ ServesSomething'
    BY <1>4, <1>0
       DEF IInv, TypeOK, References, ServesSomething, DeleteNodeModel,
           Admin, Exists
  <2>2. /\ MachineInv' /\ RequestInv' /\ RecordedOrPurged'
        /\ StoredAtHome'
    BY <1>4, <1>0
       DEF IInv, TypeOK, MachineInv, RequestInv, RecordedOrPurged,
           StoredAtHome, DeleteNodeModel, Exists
  <2> QED  BY <1>0, <2>1, <2>2 DEF IInv
<1>5. ASSUME NEW n \in Nodes, NEW m \in Models, NEW on \in BOOLEAN,
             SetNodeModelEnabled(n, m, on)
      PROVE  IInv'
  <2>1. References' /\ ServesSomething'
    BY <1>5, <1>0
       DEF IInv, TypeOK, References, ServesSomething,
           SetNodeModelEnabled, Admin, Exists
  <2>2. /\ MachineInv' /\ RequestInv' /\ RecordedOrPurged'
        /\ StoredAtHome'
    BY <1>5, <1>0
       DEF IInv, TypeOK, MachineInv, RequestInv, RecordedOrPurged,
           StoredAtHome, SetNodeModelEnabled, Exists
  <2> QED  BY <1>0, <2>1, <2>2 DEF IInv
<1>6. ASSUME NEW n \in Nodes, NEW on \in BOOLEAN, SetNodeEnabled(n, on)
      PROVE  IInv'
  <2>1. References'
    BY <1>6, <1>0 DEF IInv, TypeOK, References, SetNodeEnabled, Admin, Exists
  <2>2. /\ MachineInv' /\ RequestInv' /\ ServesSomething'
        /\ RecordedOrPurged' /\ StoredAtHome'
    BY <1>6, <1>0
       DEF IInv, TypeOK, MachineInv, RequestInv, ServesSomething,
           RecordedOrPurged, StoredAtHome, SetNodeEnabled,
           Exists
  <2> QED  BY <1>0, <2>1, <2>2 DEF IInv
<1>7. ASSUME NEW n \in Nodes, NEW purge \in BOOLEAN, DeleteNode(n, purge)
      PROVE  IInv'
  <2>1. References'
    BY <1>7, <1>0
       DEF IInv, TypeOK, References, RequestInv, DeleteNode, Purged,
           Admin, KeysOf, ConvsOf, RecordsOf, Exists
  <2>2. RecordedOrPurged'
    BY <1>7, <1>0
       DEF IInv, TypeOK, RecordedOrPurged, RequestInv, DeleteNode,
           Purged, RecordsOf, Exists
  <2>3. RequestInv'
    BY <1>7, <1>0
       DEF IInv, TypeOK, RequestInv, DeleteNode, Purged, Admin, Exists
  <2>4. MachineInv' /\ ServesSomething'
    BY <1>7, <1>0
       DEF IInv, TypeOK, MachineInv, ServesSomething, DeleteNode, Purged,
           Exists
  <2>5. StoredAtHome'
    BY <1>7, <1>0
       DEF IInv, TypeOK, StoredAtHome, DeleteNode,
           Purged
  <2> QED  BY <1>0, <2>1, <2>2, <2>3, <2>4, <2>5 DEF IInv
<1>8. ASSUME NEW n \in Nodes, NEW c \in Offered, UpdateNodeAuth(n, c)
      PROVE  IInv'
  <2>1. StoredAtHome'
    <3>1. /\ stored' = [stored EXCEPT ![n] = Seal(c)]
          /\ Entered(n, c) /\ n # DefaultNode
          /\ process' = "up" => process = "up"
          /\ env' = env
      BY <1>8 DEF UpdateNodeAuth
    <3> QED  BY <1>0, <3>1, SealedAtHome DEF IInv
  <2>2. /\ MachineInv' /\ RequestInv' /\ References'
        /\ ServesSomething' /\ RecordedOrPurged'
    BY <1>8, <1>0
       DEF IInv, TypeOK, MachineInv, RequestInv, References,
           ServesSomething, RecordedOrPurged,
           UpdateNodeAuth, Exists
  <2> QED  BY <1>0, <2>1, <2>2 DEF IInv
<1>9. ASSUME NEW n \in Nodes, NEW k \in Keys, CreateApiKey(k, n)
      PROVE  IInv'
  <2>1. References'
    BY <1>9, <1>0
       DEF IInv, TypeOK, References, CreateApiKey, Usable, Admin,
           nodeVars, Exists
  <2>2. /\ MachineInv' /\ RequestInv' /\ ServesSomething'
        /\ RecordedOrPurged' /\ StoredAtHome'
    BY <1>9, <1>0
       DEF IInv, TypeOK, MachineInv, RequestInv, ServesSomething,
           RecordedOrPurged, StoredAtHome, CreateApiKey,
           nodeVars, Exists
  <2> QED  BY <1>0, <2>1, <2>2 DEF IInv
<1>10. ASSUME NEW n \in Nodes, NEW c \in Convs, SetConversation(c, n)
       PROVE  IInv'
  <2>1. References'
    BY <1>10, <1>0
       DEF IInv, TypeOK, References, SetConversation, Usable, Admin,
           nodeVars, Exists
  <2>2. MachineInv' /\ ServesSomething' /\ StoredAtHome'
    BY <1>10 DEF IInv, MachineInv, ServesSomething, StoredAtHome,
                 SetConversation, nodeVars, Exists
  <2>3. RequestInv' /\ RecordedOrPurged'
    BY <1>10 DEF IInv, RequestInv, RecordedOrPurged,
                 SetConversation, nodeVars, Exists
  <2> QED  BY <1>0, <2>1, <2>2, <2>3 DEF IInv
<1>11. ASSUME NEW r \in Requests, NEW k \in Keys, NEW m \in Models \cup {None},
              Send(r, k, m)
       PROVE  IInv'
  <2>1. /\ RequestInv' /\ References' /\ RecordedOrPurged'
    <3>1. /\ key[k].node \in enabled /\ key[k].node \in Nodes
          /\ UNCHANGED <<status, enabled, served, key, conv, log>>
          /\ request[r].phase = "new" /\ log \subseteq Requests
      BY <1>11, <1>0, AcceptedNode DEF Send, nodeVars, TypeOK
    <3>2. Exists(key[k].node)
      BY <3>1 DEF IInv, References
    <3>3. RequestInv'
      BY <1>11, <1>0, <3>1, <3>2, SendRequest DEF IInv, RequestInv, Exists
    <3>4. r \notin log
      BY <3>1 DEF IInv, RequestInv
    <3>5. References'
      BY <1>11, <1>0, <3>1, <3>4, SendRequest DEF IInv, References, Exists
    <3>6. RecordedOrPurged'
      BY <1>11, <1>0, <3>1, SendRequest DEF IInv, RecordedOrPurged, Exists
    <3> QED  BY <3>3, <3>5, <3>6
  <2>3. /\ MachineInv' /\ ServesSomething' /\ StoredAtHome'
    BY <1>11, <1>0
       DEF IInv, TypeOK, MachineInv, ServesSomething, StoredAtHome, Send,
           nodeVars, Exists
  <2> QED  BY <1>0, <2>1, <2>3 DEF IInv
<1>12. ASSUME NEW r \in Requests, NEW k \in Keys, NEW m \in Models,
              RefuseModel(r, k, m)
       PROVE  IInv'
  <2>0. /\ request[r].phase = "new" /\ request'[r].phase = "done"
        /\ request'[r].node = key[k].node
        /\ request'[r].credential = request[r].credential
        /\ \A q \in Requests \ {r} : request'[q] = request[q]
        /\ log' = log \cup {r} /\ status' = status
        /\ key[k].node \in Nodes /\ Exists(key[k].node)
    <3>1. Accepted(k) /\ log' = log \cup {r} /\ status' = status
      BY <1>12 DEF RefuseModel, nodeVars
    <3>2. key[k].node \in Nodes /\ Exists(key[k].node)
      BY <1>0, <3>1, AcceptedNode DEF IInv, References
    <3> QED  BY <1>12, <1>0, <3>1, <3>2, RefusedRequest
  <2>1. /\ RequestInv' /\ References' /\ RecordedOrPurged'
    <3>1. RequestInv'
      <4> SUFFICES ASSUME NEW q \in Requests
                   PROVE  /\ request'[q].phase = "new" =>
                               request'[q].credential = None
                          /\ request'[q].phase # "new" =>
                               /\ request'[q].node \in Nodes
                               /\ status'[request'[q].node] # "unborn"
                          /\ q \in log' => request'[q].phase = "done"
        BY <1>0 DEF TypeOK, RequestInv
      <4>1. CASE q = r
        BY <4>1, <2>0 DEF Exists
      <4>2. CASE q # r
        BY <4>2, <2>0 DEF IInv, RequestInv
      <4> QED  BY <4>1, <4>2
    <3>2. References'
      <4>1. UNCHANGED <<key, conv, served, enabled, status>>
        BY <1>12 DEF RefuseModel, nodeVars
      <4>2. \A q \in log' : Exists(request'[q].node)
        <5>1. \A q \in log : q # r => Exists(request[q].node)
          BY DEF IInv, References
        <5>2. log \subseteq Requests
          BY <1>0 DEF TypeOK
        <5> QED  BY <2>0, <5>1, <5>2 DEF Exists
      <4> QED  BY <4>1, <4>2 DEF IInv, References, Exists
    <3>3. RecordedOrPurged'
      BY <2>0, <1>0 DEF IInv, RecordedOrPurged, Exists
    <3> QED  BY <3>1, <3>2, <3>3
  <2>3. /\ MachineInv' /\ ServesSomething' /\ StoredAtHome'
    BY <1>12, <1>0
       DEF IInv, TypeOK, MachineInv, ServesSomething, StoredAtHome,
           RefuseModel, nodeVars, Exists
  <2> QED  BY <1>0, <2>1, <2>3 DEF IInv
<1>13. ASSUME NEW r \in Requests, Finish(r)
       PROVE  IInv'
  <2>1. CASE /\ Exists(request[r].node)
             /\ request' = [request EXCEPT ![r].phase = "done"]
             /\ log' = log \cup {r}
             /\ UNCHANGED process
    <3>1. /\ RequestInv' /\ References' /\ RecordedOrPurged'
      <4>1. /\ request[r].phase = "flight"
            /\ UNCHANGED <<key, conv, served, enabled, status>>
            /\ log \subseteq Requests
        BY <1>13, <1>0 DEF Finish, nodeVars, TypeOK
      <4>2. RequestInv'
        <5>1. ASSUME NEW q \in Requests
              PROVE  /\ request'[q].phase = "new" <=> request[q].phase = "new"
                     /\ request[q].phase = "done" => request'[q].phase = "done"
                     /\ request'[q].node = request[q].node
                     /\ request'[q].credential = request[q].credential
          BY <1>0, <2>1, <4>1, AnsweredRequest
        <5>2. request'[r].phase = "done"
          BY <1>0, <2>1, AnsweredRequest
        <5> QED  BY <2>1, <4>1, <5>1, <5>2 DEF IInv, RequestInv
      <4>3. References'
        BY <1>0, <2>1, <4>1, AnsweredRequest DEF IInv, References, Exists
      <4>4. RecordedOrPurged'
        BY <1>0, <2>1, <4>1, AnsweredRequest
           DEF IInv, RecordedOrPurged, Exists
      <4> QED  BY <4>2, <4>3, <4>4
    <3> QED
      BY <1>13, <1>0, <2>1, <3>1
         DEF IInv, MachineInv, ServesSomething, StoredAtHome, Finish,
             nodeVars, Exists
  <2>2. CASE ProcessGone /\ UNCHANGED log
    <3>1. /\ RequestInv' /\ References' /\ RecordedOrPurged'
      <4>1. /\ status' = status /\ log' = log
            /\ UNCHANGED <<key, conv, served, enabled>>
        BY <1>13, <2>2 DEF Finish, nodeVars
      <4>2. RequestInv'
        <5>1. ASSUME NEW q \in Requests
              PROVE  /\ request'[q].phase = "new" => request[q].phase = "new"
                     /\ request[q].phase = "new" => request'[q].phase = "new"
                     /\ request[q].phase = "done" => request'[q].phase = "done"
                     /\ request'[q].node = request[q].node
                     /\ request'[q].credential = request[q].credential
          BY <1>0, <2>2, ProcessGoneRequest
        <5>2. log \subseteq Requests
          BY <1>0 DEF TypeOK
        <5> QED  BY <4>1, <5>1, <5>2 DEF IInv, RequestInv
      <4>3. RecordedOrPurged'
        BY <1>0, <2>2, <4>1, ProcessGoneRequest
           DEF IInv, RecordedOrPurged, Exists
      <4>4. References'
        BY <1>0, <2>2, <4>1, ProcessGoneRequest
           DEF IInv, TypeOK, RequestInv, References, Exists
      <4> QED  BY <4>2, <4>3, <4>4
    <3> QED
      BY <1>13, <1>0, <2>2, <3>1
         DEF IInv, MachineInv, ServesSomething, StoredAtHome, Finish,
             ProcessGone, nodeVars, Exists
  <2> QED  BY <1>13, <2>1, <2>2 DEF Finish
<1>14. ASSUME NEW k \in Keys, RevokeApiKey(k)
       PROVE  IInv'
  <2>1. References'
    BY <1>14, <1>0
       DEF IInv, TypeOK, References, RevokeApiKey, nodeVars, Exists
  <2>2. /\ MachineInv' /\ RequestInv' /\ ServesSomething'
        /\ RecordedOrPurged' /\ StoredAtHome'
    BY <1>14, <1>0
       DEF IInv, TypeOK, MachineInv, RequestInv, ServesSomething,
           RecordedOrPurged, StoredAtHome, RevokeApiKey,
           nodeVars, Exists
  <2> QED  BY <1>0, <2>1, <2>2 DEF IInv
<1>15. ASSUME NEW c \in Convs, DeleteConversation(c)
       PROVE  IInv'
  <2>1. References'
    BY <1>15, <1>0
       DEF IInv, TypeOK, References, DeleteConversation, nodeVars, Exists
  <2>2. /\ MachineInv' /\ RequestInv' /\ ServesSomething'
        /\ RecordedOrPurged' /\ StoredAtHome'
    BY <1>15, <1>0
       DEF IInv, TypeOK, MachineInv, RequestInv, ServesSomething,
           RecordedOrPurged, StoredAtHome,
           DeleteConversation, nodeVars, Exists
  <2> QED  BY <1>0, <2>1, <2>2 DEF IInv
<1>16. CASE Crash
  <2>0. /\ ProcessGone /\ log \subseteq Requests
        /\ UNCHANGED <<status, enabled, served, key, conv, log>>
    BY <1>16, <1>0 DEF Crash, nodeVars, TypeOK
  <2>1. RequestInv' /\ RecordedOrPurged'
    BY <2>0, <1>0, ProcessGoneRequest
       DEF IInv, RequestInv, RecordedOrPurged, Exists
  <2>3. References'
    BY <2>0, <1>0, ProcessGoneRequest DEF IInv, References, Exists
  <2>2. /\ MachineInv' /\ ServesSomething' /\ StoredAtHome'
    BY <1>16, <1>0
       DEF IInv, TypeOK, MachineInv, ServesSomething, StoredAtHome,
           Crash, ProcessGone, nodeVars, Exists
  <2> QED  BY <1>0, <2>1, <2>2, <2>3 DEF IInv
<1>17. ASSUME NEW e \in Env, Start(e)
       PROVE  IInv'
  <2>1. /\ status' = [status EXCEPT ![DefaultNode] = "exists"]
        /\ primary' = [primary EXCEPT ![DefaultNode] = e.model]
        /\ e.model \in Models /\ e.credential \in EnvCredentials
    BY <1>17 DEF Start, Env
  <2>2. MachineInv'
    BY <2>1, <1>0, DefaultAssumption DEF IInv, TypeOK, MachineInv, Exists
  <2>3. RequestInv' /\ RecordedOrPurged'
    BY <1>17, <2>1, <1>0, DefaultAssumption
       DEF IInv, TypeOK, MachineInv, RequestInv, RecordedOrPurged, Start,
           Exists
  <2>4. ASSUME NEW n \in Nodes, NEW m \in Models
        PROVE  /\ served'[n][m] # "none" => \/ served[n][m] # "none"
                                            \/ Exists(n)'
               /\ served[n][m] # "none" => served'[n][m] # "none"
               /\ Exists(n)' /\ m = primary'[n] => served'[n][m] # "none"
    BY <1>17, <1>0 DEF TypeOK, Start, Backfilled, Exists
  <2>5. References'
    <3>1. \A n \in Nodes : Exists(n) => Exists(n)'
      BY <2>1, <1>0 DEF TypeOK, Exists
    <3>2. Exists(DefaultNode)'
      BY <2>1, <1>0, DefaultAssumption DEF TypeOK, Exists
    <3>3. enabled' \subseteq enabled \cup {DefaultNode}
      BY <1>17 DEF Start
    <3>4. enabled' \subseteq {n \in Nodes : Exists(n)'}
      BY <3>1, <3>2, <3>3, DefaultAssumption DEF IInv, References
    <3>5. \A n \in Nodes, m \in Models : served'[n][m] # "none" => Exists(n)'
      BY <3>1, <2>4 DEF IInv, References
    <3>6. (\A r \in log : Exists(request[r].node))'
      BY <1>17, <1>0, <3>1
         DEF IInv, TypeOK, References, RequestInv, Start, Exists
    <3>7. (\A k \in Keys : key[k] # None => Exists(key[k].node))'
      BY <1>17, <1>0, <3>1 DEF IInv, TypeOK, References, Start, Exists
    <3>8. (\A c \in Convs : conv[c] # None => Exists(conv[c]))'
      BY <1>17, <1>0, <3>1 DEF IInv, TypeOK, References, Start, Exists
    <3> QED  BY <3>4, <3>5, <3>6, <3>7, <3>8 DEF References
  <2>6. ServesSomething'
    BY <2>2, <2>4 DEF MachineInv, ServesSomething
  <2>7. StoredAtHome'
    <3>1. /\ env' = e
          /\ entered' = [entered EXCEPT ![DefaultNode] = @ \cup {e.credential}]
          /\ stored' = [stored EXCEPT ![DefaultNode] =
               IF @ # None THEN @
               ELSE [credential |-> e.credential, secret |-> e.secret]]
      BY <1>17 DEF Start
    <3>2. \A n \in Nodes : entered[n] \subseteq entered'[n]
      BY <1>0, <3>1 DEF TypeOK
    <3>3. e.credential \in entered'[DefaultNode]
      BY <1>0, <3>1, DefaultAssumption DEF TypeOK
    <3>4. ASSUME NEW n \in Nodes, stored'[n] # None
          PROVE  stored'[n].credential \in entered'[n]
      <4>1. CASE n = DefaultNode /\ stored[n] = None
        <5>1. stored'[n] = [credential |-> e.credential, secret |-> e.secret]
          BY <1>0, <3>1, <4>1 DEF TypeOK
        <5> QED  BY <5>1, <4>1, <3>3
      <4>2. CASE ~ (n = DefaultNode /\ stored[n] = None)
        <5>1. stored'[n] = stored[n]
          BY <1>0, <3>1, <4>2 DEF TypeOK
        <5> QED  BY <5>1, <3>2, <3>4 DEF IInv, StoredAtHome
      <4> QED  BY <4>1, <4>2
    <3> QED  BY <3>1, <3>3, <3>4 DEF StoredAtHome
  <2> QED  BY <1>0, <2>2, <2>3, <2>5, <2>6, <2>7 DEF IInv
<1>18. CASE UNCHANGED vars
  <2>1. /\ MachineInv' /\ RequestInv' /\ References'
        /\ ServesSomething' /\ RecordedOrPurged' /\ StoredAtHome'
    BY <1>18, <1>0
       DEF IInv, TypeOK, MachineInv, RequestInv, References,
           ServesSomething, RecordedOrPurged, StoredAtHome, vars, nodeVars,
           Exists
  <2> QED  BY <1>0, <2>1 DEF IInv
<1> QED
  <2>1. ASSUME NEW r \in Requests, NEW k \in Keys,
               NEW m \in Models \cup {None}, ProxyChat(r, k, m)
        PROVE  IInv'
    <3>1. CASE m = None
      <4>1. Accepted(k) /\ Send(r, k, primary[key[k].node])
        BY <2>1, <3>1 DEF ProxyChat
      <4>2. primary[key[k].node] \in Models \cup {None}
        BY <4>1, <1>0, AcceptedNode DEF TypeOK
      <4> QED  BY <4>1, <4>2, <1>11
    <3>2. CASE m # None
      BY <2>1, <3>2, <1>11 DEF ProxyChat
    <3> QED  BY <3>1, <3>2
  <2> QED
    BY <1>1, <1>2, <1>3, <1>4, <1>5, <1>6, <1>7, <1>8, <1>9, <1>10, <1>11,
       <1>12, <1>13, <1>14, <1>15, <1>16, <1>17, <1>18, <2>1
       DEF Next, NodeStep, RequestStep, ListModels

-----------------------------------------------------------------------------
(* The theorems.                                                           *)

\* The strengthened invariant holds in every reachable state.
THEOREM RegistryInvariant == Spec => []IInv
BY InitIInv, IInvStep, PTL DEF Spec

\* Whatever is disabled, purged, crashed or in flight, no row of the database
\* names a machine that is not there (the purge transaction of deleteNode,
\* and the insert of recordRequest that its foreign keys refuse).
THEOREM RegistryReferences == Spec => []References
<1>1. IInv => References
  BY DEF IInv
<1> QED  BY RegistryInvariant, <1>1, PTL

\* While the dashboard runs every machine has a model row: deleteNodeModel
\* stops at the last one, and the backfill of createStore completes what a
\* crash inside createNode left without one.
THEOREM RegistryServes == Spec => []ServesSomething
<1>1. IInv => ServesSomething
  BY DEF IInv
<1> QED  BY RegistryInvariant, <1>1, PTL

\* An answered /v1 request has its usage record exactly as long as its
\* machine exists.
THEOREM RegistryRecords == Spec => []RecordedOrPurged
<1>1. IInv => RecordedOrPurged
  BY DEF IInv
<1> QED  BY RegistryInvariant, <1>1, PTL

\* What a step puts into a request is a credential its machine was given.
LEMMA CredentialStep ==
  ASSUME IInv, [Next]_vars, NEW q \in Requests,
         request'[q].credential # request[q].credential
  PROVE  request'[q].credential \in entered[request'[q].node]
<1>0. TypeOK /\ StoredAtHome /\ RequestInv
  BY DEF IInv
<1>1. ASSUME NEW r \in Requests, NEW k \in Keys, NEW m, Send(r, k, m)
      PROVE  request'[q].credential \in entered[request'[q].node]
  <2>1. /\ q = r /\ request[r].credential = None /\ Accepted(k)
        /\ request'[r].node = key[k].node
        /\ request'[r].credential = Presented(key[k].node)
    BY <1>0, <1>1, SendRequest DEF RequestInv
  <2>2. key[k].node \in Nodes /\ process = "up"
    BY <1>0, <2>1, AcceptedNode DEF Accepted
  <2> QED  BY <1>0, <2>1, <2>2, PresentedAtHome
<1>2. ASSUME NEW r \in Requests, NEW k \in Keys, NEW m \in Models,
             RefuseModel(r, k, m)
      PROVE  FALSE
  BY <1>0, <1>2, RefusedRequest
<1>3. ASSUME NEW r \in Requests, Finish(r)
      PROVE  FALSE
  BY <1>0, <1>3, AnsweredRequest, ProcessGoneRequest DEF Finish
<1>4. request' # request /\ ~ ProcessGone
  BY <1>0, ProcessGoneRequest
<1> QED
  BY <1>1, <1>2, <1>3, <1>4
     DEF Next, NodeStep, RequestStep, ListModels, ProxyChat, CreateNode,
         CreateNodeCrash, AddNodeModel, DeleteNodeModel, SetNodeModelEnabled,
         SetNodeEnabled, DeleteNode, UpdateNodeAuth, CreateApiKey,
         SetConversation, RevokeApiKey, DeleteConversation, Crash, Start, vars

\* resolveCredential presents to a machine only what that machine itself was
\* given and still has, whatever was entered for others, also with a changed
\* KEY_HASH_SECRET or UPSTREAM_API_KEY.
THEOREM RegistryCredentials == Spec => CredentialsAtHome
<1>1. IInv /\ [Next]_vars =>
        [\A r \in Requests :
           request'[r].credential # request[r].credential =>
             request'[r].credential \in entered[request'[r].node]]_vars
  BY CredentialStep
<1> QED  BY RegistryInvariant, <1>1, PTL DEF Spec, CredentialsAtHome
=============================================================================
