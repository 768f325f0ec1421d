---------------------------- MODULE NodeRegistry ----------------------------
(***************************************************************************)
(* The dashboard's registry of machines (dashboard/src/db.js and the       *)
(* administration handlers of server.js) and the /v1 proxy that works from *)
(* it (requireApiKey, proxyOpenAI).                                        *)
(*                                                                         *)
(* Every handler but the proxy is synchronous, so it is one action; SQLite *)
(* statements are autocommitted, so a crash can fall between two of them.  *)
(* A /v1 request works with the snapshot of its machine that the API key   *)
(* was joined with, while administrators go on.  Names, prefixes and       *)
(* timestamps are left out; of the authentication strategies only whether  *)
(* one needs a credential matters: a machine's own strategy is "none"      *)
(* exactly when no credential is stored.                                   *)
(***************************************************************************)
EXTENDS Naturals, FiniteSets

CONSTANTS Nodes, Models, Keys, Convs, Requests,
          DefaultNode,      \* DEFAULT_NODE_ID
          EnvCredentials,   \* values UPSTREAM_API_KEY may take
          NodeCredentials,  \* credentials administrators enter
          Secrets,          \* values KEY_HASH_SECRET may take
          None

ASSUME DefaultAssumption == DefaultNode \in Nodes
ASSUME NoneAssumption ==
  None \notin Nodes \cup Models \cup EnvCredentials \cup NodeCredentials

VARIABLES
  process,  \* "up" or "down"
  env,      \* the environment the process was started with
  \* the database
  status,   \* nodes: "unborn", "exists" or "deleted" (an id is used once)
  enabled,  \* nodes.enabled
  primary,  \* nodes.model_id
  stored,   \* nodes.upstream_api_key and the secret it is encrypted with
  served,   \* node_models: no row, or a row that is on or off
  key,      \* api_keys
  conv,     \* conversations, by the machine they are set to
  log,      \* api_requests, by the request they record
  \* /v1 requests
  request,
  entered   \* history, which no guard reads: the credentials a machine has
            \* been given and not had replaced or withdrawn; the default
            \* machine's are those the process was started with

nodeVars == <<status, enabled, primary, stored, served>>
vars == <<process, env, nodeVars, key, conv, log, request, entered>>

Env    == [credential : EnvCredentials, secret : Secrets, model : Models]
Sealed == [credential : EnvCredentials \cup NodeCredentials, secret : Secrets]

\* Mutant: an empty credential is encrypted like any other.
Seal_Empty(c) == [credential |-> c, secret |-> env.secret]

\* encryptNodeKey
Seal(c) == IF c = None THEN None ELSE [credential |-> c, secret |-> env.secret]

Exists(n) == status[n] = "exists"

Init ==
  /\ process = "down" 
  /\ env \in Env
  /\ status = [n \in Nodes |-> "unborn"] /\ enabled = {}
  /\ primary = [n \in Nodes |-> None] /\ stored = [n \in Nodes |-> None]
  /\ served = [n \in Nodes |-> [m \in Models |-> "none"]]
  /\ key = [k \in Keys |-> None] /\ conv = [c \in Convs |-> None]
  /\ log = {}
  /\ request = [r \in Requests |-> [phase |-> "new", node |-> None,
                                    model |-> None, credential |-> None]]
  /\ entered = [n \in Nodes |-> {}]

-----------------------------------------------------------------------------
(* Process.                                                                *)

\* The process is gone and with it the requests in flight.
ProcessGone ==
  /\ process' = "down"
  /\ request' = [r \in Requests |->
       [request[r] EXCEPT !.phase = IF @ = "flight" THEN "lost" ELSE @]]

Crash == /\ process = "up"
         /\ ProcessGone
         /\ UNCHANGED <<env, nodeVars, key, conv, log, entered>>

\* Mutant: only the default machine is looked after.
Backfilled_DefaultOnly(prim, present) ==
  [n \in Nodes |-> [m \in Models |->
     IF n = DefaultNode /\ m = prim[n] /\ served[n][m] = "none"
     THEN "on" ELSE served[n][m]]]

\* The machines whose primary model has no row get one, switched on.
Backfilled(prim, present) ==
  [n \in Nodes |-> [m \in Models |->
     IF n \in present /\ m = prim[n] /\ served[n][m] = "none"
     THEN "on" ELSE served[n][m]]]

\* createStore: the default machine is inserted, or its name, URL and model
\* are updated while a stored credential is kept; then the backfill.
Start(e) ==
  /\ process = "down"
  /\ process' = "up"
  /\ env' = e
  /\ status' = [status EXCEPT ![DefaultNode] = "exists"]
  /\ enabled' = IF Exists(DefaultNode) THEN enabled
                                       ELSE enabled \cup {DefaultNode}
  /\ primary' = [primary EXCEPT ![DefaultNode] = e.model]
  /\ stored' = [stored EXCEPT ![DefaultNode] =
       IF @ # None THEN @
       ELSE [credential |-> e.credential, secret |-> e.secret]]
  /\ served' = Backfilled(primary', {n \in Nodes : status'[n] = "exists"})
  /\ entered' = [entered EXCEPT ![DefaultNode] = @ \cup {e.credential}]
  /\ UNCHANGED <<key, conv, log, request>>

-----------------------------------------------------------------------------
(* Machines and their models.                                              *)

\* A machine has the credential entered last, if any.
Entered(n, c) == entered' = [entered EXCEPT ![n] = {c} \ {None}]

InsertNode(n, m, c) ==
  /\ status[n] = "unborn"
  /\ n # DefaultNode
  /\ status' = [status EXCEPT ![n] = "exists"]
  /\ enabled' = enabled \cup {n}
  /\ primary' = [primary EXCEPT ![n] = m]
  /\ stored' = [stored EXCEPT ![n] = Seal(c)]
  /\ Entered(n, c)

\* createNode: the row of the machine, then the row of its primary model.
CreateNode(n, m, c) ==
  /\ process = "up"
  /\ InsertNode(n, m, c)
  /\ served' = [served EXCEPT ![n][m] = "on"]
  /\ UNCHANGED <<process, env, key, conv, log, request>>

\* The process dies between the two.
CreateNodeCrash(n, m, c) ==
  /\ process = "up"
  /\ InsertNode(n, m, c)
  /\ ProcessGone
  /\ UNCHANGED <<env, served, key, conv, log>>

\* The handlers look the machine up first.
Admin(n) == process = "up" /\ Exists(n)

SetNodeEnabled(n, on) ==
  /\ Admin(n)
  /\ on \/ n # DefaultNode
  /\ enabled' = IF on THEN enabled \cup {n} ELSE enabled \ {n}
  /\ UNCHANGED <<process, env, status, primary, stored, served, key,
                 conv, log, request, entered>>

UpdateNodeAuth(n, c) ==
  /\ Admin(n)
  /\ n # DefaultNode
  /\ stored' = [stored EXCEPT ![n] = Seal(c)]
  /\ Entered(n, c)
  /\ UNCHANGED <<process, env, status, enabled, primary, served, key,
                 conv, log, request>>

AddNodeModel(n, m) ==
  /\ Admin(n)
  /\ served[n][m] = "none"
  /\ served' = [served EXCEPT ![n][m] = "on"]
  /\ UNCHANGED <<process, env, status, enabled, primary, stored, key,
                 conv, log, request, entered>>

SetNodeModelEnabled(n, m, on) ==
  /\ Admin(n)
  /\ served[n][m] # "none"
  /\ served' = [served EXCEPT ![n][m] = IF on THEN "on" ELSE "off"]
  /\ UNCHANGED <<process, env, status, enabled, primary, stored, key,
                 conv, log, request, entered>>

\* The last row, on or off, cannot be removed; the primary model's can.
DeleteNodeModel(n, m) ==
  /\ Admin(n)
  /\ served[n][m] # "none"
  /\ \E other \in Models \ {m} : served[n][other] # "none"
  /\ served' = [served EXCEPT ![n][m] = "none"]
  /\ UNCHANGED <<process, env, status, enabled, primary, stored, key,
                 conv, log, request, entered>>

KeysOf(n)     == {k \in Keys : key[k] # None /\ key[k].node = n}
ConvsOf(n)    == {c \in Convs : conv[c] = n}
RecordsOf(n)  == {r \in log : request[r].node = n}
Used(n) == KeysOf(n) \cup ConvsOf(n) \cup RecordsOf(n) # {}

\* The rows that name n are deleted in the transaction that deletes n (its
\* model rows by ON DELETE CASCADE).
Purged(n) ==
  /\ status' = [status EXCEPT ![n] = "deleted"]
  /\ enabled' = enabled \ {n}
  /\ primary' = [primary EXCEPT ![n] = None]
  /\ stored' = [stored EXCEPT ![n] = None]
  /\ entered' = [entered EXCEPT ![n] = {}]
  /\ served' = [served EXCEPT ![n] = [m \in Models |-> "none"]]
  /\ key' = [k \in Keys |-> IF k \in KeysOf(n) THEN None ELSE key[k]]

\* Mutant: the purge leaves the conversations of the machine.
DeleteNode_KeepsConversations(n, purge) ==
  /\ Admin(n)
  /\ n # DefaultNode
  /\ purge \/ ~ Used(n)
  /\ Purged(n)
  /\ log' = log \ RecordsOf(n)
  /\ UNCHANGED <<process, env, request, conv>>

\* A machine in use is deleted only with purge: true.
DeleteNode(n, purge) ==
  /\ Admin(n)
  /\ n # DefaultNode
  /\ purge \/ ~ Used(n)
  /\ Purged(n)
  /\ conv' = [c \in Convs |-> IF c \in ConvsOf(n) THEN None ELSE conv[c]]
  /\ log' = log \ RecordsOf(n)
  /\ UNCHANGED <<process, env, request>>

-----------------------------------------------------------------------------
(* Keys and conversations.                                                 *)

\* resolveEnabledNode
Usable(n) == Admin(n) /\ n \in enabled

\* A key is stored as its digest under KEY_HASH_SECRET.
CreateApiKey(k, n) ==
  /\ Usable(n)
  /\ key[k] = None
  /\ key' = [key EXCEPT ![k] = [node |-> n, secret |-> env.secret,
                                revoked |-> FALSE]]
  /\ UNCHANGED <<process, env, nodeVars, conv, log, request, entered>>

RevokeApiKey(k) ==
  /\ process = "up"
  /\ key[k] # None
  /\ key' = [key EXCEPT ![k].revoked = TRUE]
  /\ UNCHANGED <<process, env, nodeVars, conv, log, request, entered>>

\* POST /api/conversations, and PATCH .../target while nothing is generated
\* (DashboardGeneration has the generations): a model switched on.
SetConversation(c, n) ==
  /\ Usable(n)
  /\ \E m \in Models : served[n][m] = "on"
  /\ conv' = [conv EXCEPT ![c] = n]
  /\ UNCHANGED <<process, env, nodeVars, key, log, request, entered>>

DeleteConversation(c) ==
  /\ process = "up"
  /\ conv[c] # None
  /\ conv' = [conv EXCEPT ![c] = None]
  /\ UNCHANGED <<process, env, nodeVars, key, log, request, entered>>

-----------------------------------------------------------------------------
(* /v1 requests.                                                           *)

\* authenticateApiKey
Accepted(k) == /\ process = "up"
               /\ key[k] # None
               /\ ~ key[k].revoked
               /\ key[k].secret = env.secret
               /\ key[k].node \in enabled

\* decryptNodeKey succeeds only under the secret the value was stored with.
Readable(n) == stored[n] # None /\ stored[n].secret = env.secret

\* Mutant: the environment's credential stands in for any missing one.
ResolveCredential_AnyNode(n) ==
  IF Readable(n) THEN stored[n].credential ELSE env.credential

\* Only the default machine has a credential to fall back on.
ResolveCredential(n) ==
  CASE Readable(n)      -> stored[n].credential
    [] n = DefaultNode /\ ~ Readable(n) -> env.credential
    [] OTHER            -> None

\* buildAuthHeaders: with the strategy "none" nothing is presented.
Presented(n) == IF stored[n] = None THEN None ELSE ResolveCredential(n)

Send(r, k, m) ==
  /\ Accepted(k)
  /\ request[r].phase = "new"
  /\ request' = [request EXCEPT ![r] =
       [phase |-> "flight", node |-> key[k].node, model |-> m,
        credential |-> Presented(key[k].node)]]
  /\ UNCHANGED <<process, env, nodeVars, key, conv, log, entered>>

\* GET /v1/models asks the machine first.
ListModels(r, k) == Send(r, k, None)

\* POST /v1/chat/completions: a model the client names must be switched on;
\* without one the primary model of the snapshot is forwarded.
ProxyChat(r, k, asked) ==
  \/ asked = None /\ Accepted(k) /\ Send(r, k, primary[key[k].node])
  \/ /\ asked # None
     /\ Accepted(k)
     /\ served[key[k].node][asked] = "on"
     /\ Send(r, k, asked)

\* 400, and the finally block records it before anything else can run.
RefuseModel(r, k, asked) ==
  /\ Accepted(k)
  /\ request[r].phase = "new"
  /\ served[key[k].node][asked] # "on"
  /\ request' = [request EXCEPT ![r].phase = "done", ![r].node = key[k].node]
  /\ log' = log \cup {r}
  /\ UNCHANGED <<process, env, nodeVars, key, conv, entered>>

\* Mutant: a request whose machine answered badly is not recorded.
Finish_OnlyGood(r) ==
  /\ request[r].phase = "flight"
  /\ request' = [request EXCEPT ![r].phase = "done"]
  /\ log' \in {log, log \cup {r}}
  /\ UNCHANGED <<process, env, nodeVars, key, conv, entered>>

\* The answer, its end or its failure, and recordRequest in the finally
\* block.  If the machine was purged meanwhile the insert violates its
\* foreign keys; nobody awaits proxyOpenAI, so the rejection ends the process.
Finish(r) ==
  /\ request[r].phase = "flight"
  /\ \/ /\ Exists(request[r].node)
        /\ request' = [request EXCEPT ![r].phase = "done"]
        /\ log' = log \cup {r}
        /\ UNCHANGED process
     \/ /\ ~ Exists(request[r].node)
        /\ ProcessGone
        /\ UNCHANGED log
  /\ UNCHANGED <<env, nodeVars, key, conv, entered>>

-----------------------------------------------------------------------------
Offered == NodeCredentials \cup {None}

NodeStep(n) ==
  \/ \E m \in Models :
       \/ \E c \in Offered : CreateNode(n, m, c) \/ CreateNodeCrash(n, m, c)
       \/ AddNodeModel(n, m) \/ DeleteNodeModel(n, m)
       \/ \E on \in BOOLEAN : SetNodeModelEnabled(n, m, on)
  \/ \E on \in BOOLEAN : SetNodeEnabled(n, on) \/ DeleteNode(n, on)
  \/ \E c \in Offered : UpdateNodeAuth(n, c)
  \/ \E k \in Keys : CreateApiKey(k, n)
  \/ \E c \in Convs : SetConversation(c, n)

RequestStep(r) ==
  \/ \E k \in Keys : \/ ListModels(r, k)
                     \/ \E m \in Models \cup {None} : ProxyChat(r, k, m)
                     \/ \E m \in Models : RefuseModel(r, k, m)
  \/ Finish(r)

Next == \/ \E n \in Nodes : NodeStep(n)
        \/ \E r \in Requests : RequestStep(r)
        \/ \E k \in Keys : RevokeApiKey(k)
        \/ \E c \in Convs : DeleteConversation(c)
        \/ Crash \/ \E e \in Env : Start(e)

Spec == Init /\ [][Next]_vars

-----------------------------------------------------------------------------
(* Properties.                                                             *)

TypeOK ==
  /\ process \in {"up", "down"}
  /\ env \in Env
  /\ status \in [Nodes -> {"unborn", "exists", "deleted"}]
  /\ enabled \in SUBSET Nodes
  /\ primary \in [Nodes -> Models \cup {None}]
  /\ stored \in [Nodes -> Sealed \cup {None}]
  /\ served \in [Nodes -> [Models -> {"none", "off", "on"}]]
  /\ key \in [Keys -> {None} \cup
                [node : Nodes, secret : Secrets, revoked : BOOLEAN]]
  /\ conv \in [Convs -> Nodes \cup {None}]
  /\ log \in SUBSET Requests
  /\ request \in [Requests ->
       [phase : {"new", "flight", "done", "lost"}, node : Nodes \cup {None},
        model : Models \cup {None},
        credential : EnvCredentials \cup NodeCredentials \cup {None}]]
  /\ entered \in [Nodes -> SUBSET (EnvCredentials \cup NodeCredentials)]

\* Whatever administrators, clients and crashes do and in which order, nothing
\* in the database names a machine that is not there: a purge takes the keys,
\* conversations, request records and model rows of the machine with it, and
\* a request that was in flight then does not leave a record behind.
References ==
  /\ \A k \in Keys : key[k] # None => Exists(key[k].node)
  /\ \A c \in Convs : conv[c] # None => Exists(conv[c])
  /\ \A r \in log : Exists(request[r].node)
  /\ \A n \in Nodes, m \in Models : served[n][m] # "none" => Exists(n)
  /\ enabled \subseteq {n \in Nodes : Exists(n)}

\* Every machine has a model row whenever the dashboard runs: removals stop at
\* the last one, and a machine whose creation was cut by a crash is completed
\* by the next start.
ServesSomething ==
  process = "up" => \A n \in Nodes :
    Exists(n) => \E m \in Models : served[n][m] # "none"

\* A request that was answered is in the usage records, whatever was disabled,
\* revoked or removed while it was in flight, until its machine is purged.
RecordedOrPurged ==
  \A r \in Requests :
    request[r].phase = "done" => (r \in log <=> Exists(request[r].node))

\* A request carries a credential only to a machine that was itself given it:
\* the one entered for it last, or for the default machine one that the
\* process was started with.  Nobody is lent the credential of another
\* machine, nor sent one that was replaced, withdrawn or purged before, also
\* when a changed secret has made the stored copies unreadable
\* (resolveCredential, proxy.js:22-24).
CredentialsAtHome ==
  [][\A r \in Requests :
       request'[r].credential # request[r].credential =>
         request'[r].credential \in entered[request'[r].node]]_vars

\* dashboard/README.md:67 and server.js:372 say that the default machine's
\* credential is managed by the environment.  Not so after the first start:
\* the stored copy is kept and preferred, so a changed UPSTREAM_API_KEY is
\* never presented.
DefaultKeyFromEnv ==
  \A r \in Requests :
    request[r].phase = "flight" /\ request[r].node = DefaultNode =>
      request[r].credential = env.credential
=============================================================================
