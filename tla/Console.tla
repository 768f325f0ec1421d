------------------------------- MODULE Console -------------------------------
(***************************************************************************)
(* The administration side of the page (dashboard/public/app.js): signing  *)
(* in and out, the polled list of machines with its forms, and which       *)
(* conversation is selected while requests about others are on their way.  *)
(* ChatClient has the sending of messages and its polling.                 *)
(*                                                                         *)
(* One action is one callback, code between two awaits.  A GET is answered *)
(* with the server's state when it is sent; answers are handled in any     *)
(* order or not at all.  Machines can also come and go from elsewhere:     *)
(* another console, an agent that enrolls.  Which conversations exist is   *)
(* not kept: a request about one may fail.                                 *)
(* Nor are state.sending and generation_in_progress, which ChatClient has: *)
(* they only keep the user from changing a target or deleting.             *)
(***************************************************************************)
EXTENDS Integers, FiniteSets

CONSTANTS Nodes, Convs,
          Kinds,      \* the forms on a machine: "key", "model"
          MaxLoads,   \* bound: unanswered list requests
          MaxOther,   \* bound: other unanswered requests (showApp's come on top)
          None

ASSUME BoundsAssumption == MaxLoads \in Nat \ {0} /\ MaxOther \in Nat \ {0}
ASSUME NamesAssumption == None \notin Nodes \cup Convs

VARIABLES
  \* the server
  node,      \* "unborn", "present" or "gone"
  session,   \* the browser's cookie is accepted
  \* the page
  view,      \* "login" or "app"
  starting,  \* showApp has not come to its end: "boot", "login" or "no"; or
             \* the conversation whose messages bootstrap waits for
  tab,       \* state.currentView
  list,      \* state.nodes
  rows,      \* the machines drawn by renderNodes
  form,      \* state.editingNodeId ("key") and addingModelNodeId ("model")
  timer,     \* state.statusPollTimer is armed
  loads,     \* list requests: what their answer will hold
  saves,     \* forms that were submitted, with their machines
  current,   \* state.current.id
  shown,     \* whose messages renderMessages has drawn
  selects,   \* GETs of a conversation
  targets,   \* changes of a conversation's target
  deleting,  \* a conversation whose deletion has not been answered
  \* history
  late       \* state.current is the answer to a change of target that came
             \* after another selection

serverVars == <<node, session>>
frameVars  == <<view, starting>>
nodeVars   == <<list, rows, form, timer, loads, saves>>
chatVars   == <<current, shown, selects, targets, deleting, late>>
vars == <<serverVars, frameVars, tab, nodeVars, chatVars>>

Present == {n \in Nodes : node[n] = "present"}

\* The answer 401, told from a list of machines by its member.
Refused == {None}

\* loadNodes, up to its await.
Answer == IF session THEN Present ELSE Refused
Load == /\ Cardinality(loads) < MaxLoads
        /\ loads' = loads \cup {Answer}

Others == Cardinality(saves) + Cardinality(selects) + Cardinality(targets)
          + (IF deleting = None THEN 0 ELSE 1)

Init ==
  /\ node \in [Nodes -> {"unborn", "present"}]
  /\ session \in BOOLEAN
  /\ view = (IF session THEN "app" ELSE "login")
  /\ starting = (IF session THEN "boot" ELSE "no")
  /\ tab = "chat"
  /\ list = {} /\ rows = {} /\ form = [k \in Kinds |-> None]
  /\ timer = FALSE
  /\ loads = (IF session THEN {Present} ELSE {})
  /\ saves = {}
  /\ current = None /\ shown = None /\ selects = {}
  /\ targets = {} /\ deleting = None /\ late = FALSE

-----------------------------------------------------------------------------
(* Elsewhere.                                                              *)

NodeAdded(n) == /\ node[n] = "unborn"
                /\ node' = [node EXCEPT ![n] = "present"]
                /\ UNCHANGED <<session, frameVars, tab, nodeVars, chatVars>>

NodePurged(n) == /\ node[n] = "present"
                 /\ node' = [node EXCEPT ![n] = "gone"]
                 /\ UNCHANGED <<session, frameVars, tab, nodeVars, chatVars>>

\* verifySessionCookie: exp has passed.
SessionExpires == /\ session /\ session' = FALSE
                  /\ UNCHANGED <<node, frameVars, tab, nodeVars, chatVars>>

\* The login of another window; the cookie is theirs together.
SessionRenewed == /\ ~ session /\ session' = TRUE
                  /\ UNCHANGED <<node, frameVars, tab, nodeVars, chatVars>>

-----------------------------------------------------------------------------
(* Signing in and out.                                                     *)

Login ==
  /\ view = "login"
  /\ session' = TRUE /\ view' = "app" /\ starting' = "login"
  /\ Cardinality(loads) < MaxLoads /\ loads' = loads \cup {Present}
  /\ UNCHANGED <<node, tab, list, rows, form, timer, saves, chatVars>>

\* The end of showApp: the chat is shown, with the last conversation if the
\* list still has it (localStorage, which all pages write).
AppShown ==
  /\ starting \in {"boot", "login"}
  /\ tab' = "chat"
  /\ \/ \E last \in Convs :
          /\ selects' = selects \cup {last}
          /\ starting' = IF starting = "boot" THEN last ELSE "no"
     \/ starting' = "no" /\ UNCHANGED selects
  /\ UNCHANGED <<serverVars, view, nodeVars, current, shown, targets, deleting,
                 late>>

\* loadConversations rejects: bootstrap goes to the login view, the handler of
\* the login form stays.
AppFails ==
  /\ starting \in {"boot", "login"} /\ starting' = "no"
  /\ view' = IF starting = "boot" THEN "login" ELSE view
  /\ UNCHANGED <<serverVars, tab, nodeVars, chatVars>>

\* The timer is cleared; a list request that is still out arms it again.
Logout ==
  /\ view = "app"
  /\ session' = FALSE
  /\ timer' = FALSE /\ current' = None /\ view' = "login"
  /\ UNCHANGED <<node, starting, tab, list, rows, form, loads, saves, shown,
                 selects, targets, deleting, late>>

-----------------------------------------------------------------------------
(* The list of machines.                                                   *)

\* The else branch of loadNodes' test: forms are not drawn over.
NoForm == \A k \in Kinds : form[k] = None
Drawn(s) == IF tab = "nodes" /\ NoForm THEN s ELSE rows

\* updateNodeStatus arms the one timer anew.
NodesLoaded(s) ==
  /\ s \in loads /\ s # Refused
  /\ loads' = loads \ {s}
  /\ list' = s /\ rows' = Drawn(s) /\ timer' = TRUE
  /\ UNCHANGED <<serverVars, frameVars, tab, form, saves, chatVars>>

\* Mutant: only the try block arms the timer.
LoadFails_NoTimer(s) ==
  /\ s \in loads
  /\ loads' = loads \ {s}
  /\ list' = {}
  /\ UNCHANGED <<serverVars, frameVars, tab, rows, form, timer, saves,
                 chatVars>>

\* 401, or the connection: the list is empty, what was drawn stays.
LoadFails(s) ==
  /\ s \in loads
  /\ loads' = loads \ {s}
  /\ list' = {} /\ timer' = TRUE
  /\ UNCHANGED <<serverVars, frameVars, tab, rows, form, saves, chatVars>>

TimerFires ==
  /\ timer /\ timer' = FALSE
  /\ Load
  /\ UNCHANGED <<serverVars, frameVars, tab, list, rows, form, saves, chatVars>>

\* switchView draws the machines whatever form is open.
SwitchView(t) ==
  /\ view = "app" /\ tab' = t
  /\ rows' = IF t = "nodes" THEN list ELSE rows
  /\ UNCHANGED <<serverVars, frameVars, list, form, timer, loads, saves,
                 chatVars>>

OnNodes == view = "app" /\ tab = "nodes"

\* refreshNodesButton; runMessage and every request that has added, switched
\* or deleted a machine end with it as well.
Refresh ==
  /\ view = "app"
  /\ Load
  /\ UNCHANGED <<serverVars, frameVars, tab, list, rows, form, timer, saves,
                 chatVars>>

OpenForm(k, n) ==
  /\ OnNodes /\ n \in rows
  /\ form' = [form EXCEPT ![k] = n] /\ rows' = list
  /\ UNCHANGED <<serverVars, frameVars, tab, list, timer, loads, saves,
                 chatVars>>

\* Its cancel button is there only if its machine was drawn.
CancelForm(k) ==
  /\ OnNodes /\ form[k] \in rows
  /\ form' = [form EXCEPT ![k] = None] /\ rows' = list
  /\ UNCHANGED <<serverVars, frameVars, tab, list, timer, loads, saves,
                 chatVars>>

SubmitForm(k) ==
  /\ OnNodes /\ form[k] \in rows /\ Others < MaxOther
  /\ saves' = saves \cup {<<k, form[k]>>}
  /\ UNCHANGED <<serverVars, frameVars, tab, list, rows, form, timer, loads,
                 chatVars>>

\* The form of that kind that is open now is closed, and the list loaded.  On
\* an error (404, 401) there is a toast only.
SaveAnswered(k, n) ==
  /\ <<k, n>> \in saves /\ saves' = saves \ {<<k, n>>}
  /\ \/ form' = [form EXCEPT ![k] = None] /\ Load
     \/ UNCHANGED <<form, loads>>
  /\ UNCHANGED <<serverVars, frameVars, tab, list, rows, timer, chatVars>>

\* Delete (with purge: true) on a drawn row; Refresh follows its answer.
PressDelete(n) ==
  /\ OnNodes /\ n \in rows
  /\ session /\ node[n] = "present"
  /\ node' = [node EXCEPT ![n] = "gone"]
  /\ UNCHANGED <<session, frameVars, tab, nodeVars, chatVars>>

-----------------------------------------------------------------------------
(* Conversations.                                                          *)

Select(c) ==
  /\ view = "app" /\ session /\ Others < MaxOther
  /\ selects' = selects \cup {c}
  /\ UNCHANGED <<serverVars, frameVars, tab, nodeVars, current, shown,
                 targets, deleting, late>>

\* createConversation up to the GET of what its POST has created.
CreateConversation(c) ==
  /\ view = "app" /\ session /\ list # {}
  /\ Others < MaxOther
  /\ tab' = "chat"
  /\ selects' = selects \cup {c}
  /\ UNCHANGED <<serverVars, frameVars, nodeVars, current, shown,
                 targets, deleting, late>>

\* Mutant: renderMessages is not called.
SelectAnswered_NotDrawn(c) ==
  /\ c \in selects /\ selects' = selects \ {c}
  /\ current' = c /\ late' = FALSE
  /\ tab' = "chat" /\ starting' = IF starting = c THEN "no" ELSE starting
  /\ UNCHANGED <<serverVars, view, nodeVars, shown, targets, deleting>>

\* selectConversation behind its await; the order of the answers decides.
SelectAnswered(c) ==
  /\ c \in selects /\ selects' = selects \ {c}
  /\ current' = c /\ shown' = c /\ late' = FALSE
  /\ tab' = "chat" /\ starting' = IF starting = c THEN "no" ELSE starting
  /\ UNCHANGED <<serverVars, view, nodeVars, targets, deleting>>

\* It can fail: nothing is assigned; bootstrap goes to the login view.
SelectFails(c) ==
  /\ c \in selects /\ selects' = selects \ {c}
  /\ IF starting = c THEN view' = "login" /\ starting' = "no"
     ELSE UNCHANGED <<view, starting>>
  /\ UNCHANGED <<serverVars, tab, nodeVars, current, shown,
                 targets, deleting, late>>

ChangeTarget ==
  /\ view = "app" /\ tab = "chat" /\ current # None /\ list # {}
  /\ Others < MaxOther
  /\ targets' = targets \cup {current}
  /\ UNCHANGED <<serverVars, frameVars, tab, nodeVars, current, shown,
                 selects, deleting, late>>

\* updateConversationTarget behind its await: the answer becomes state.current
\* whatever is selected by now, and the messages are not drawn again.
TargetAnswered(c) ==
  /\ c \in targets /\ targets' = targets \ {c}
  /\ current' = c /\ late' = (late \/ c # current)
  /\ timer' = TRUE
  /\ UNCHANGED <<serverVars, frameVars, tab, list, rows, form, loads, saves,
                 shown, selects, deleting>>

TargetFails(c) ==
  /\ c \in targets /\ targets' = targets \ {c}
  /\ UNCHANGED <<serverVars, frameVars, tab, nodeVars, current, shown,
                 selects, deleting, late>>

DeleteConversation ==
  /\ view = "app" /\ tab = "chat" /\ current # None /\ deleting = None
  /\ Others < MaxOther
  /\ deleting' = current
  /\ UNCHANGED <<serverVars, frameVars, tab, nodeVars, current, shown,
                 selects, targets, late>>

\* The chat is closed, whatever is selected by now.
DeletionAnswered ==
  /\ deleting # None /\ deleting' = None
  /\ current' = None /\ shown' = None
  /\ UNCHANGED <<serverVars, frameVars, tab, nodeVars, selects, targets, late>>

DeletionFails ==
  /\ deleting # None /\ deleting' = None
  /\ UNCHANGED <<serverVars, frameVars, tab, nodeVars, current, shown,
                 selects, targets, late>>

-----------------------------------------------------------------------------
Next ==
  \/ SessionExpires \/ SessionRenewed \/ Login \/ AppShown \/ AppFails \/ Logout
  \/ TimerFires \/ Refresh
  \/ ChangeTarget \/ DeleteConversation \/ DeletionAnswered \/ DeletionFails
  \/ \E s \in SUBSET Nodes \cup {Refused} : NodesLoaded(s) \/ LoadFails(s)
  \/ \E t \in {"chat", "nodes"} : SwitchView(t)
  \/ \E k \in Kinds : CancelForm(k) \/ SubmitForm(k)
  \/ \E n \in Nodes : \/ NodeAdded(n) \/ NodePurged(n) \/ PressDelete(n)
                      \/ \E k \in Kinds : OpenForm(k, n) \/ SaveAnswered(k, n)
  \/ \E c \in Convs : \/ CreateConversation(c) \/ Select(c)
                      \/ SelectAnswered(c) \/ SelectFails(c)
                      \/ TargetAnswered(c) \/ TargetFails(c)

Spec == Init /\ [][Next]_vars

\* The timer fires, a list request is answered or fails, and one of those sent
\* again and again is answered at some time.
FairSpec ==
  /\ Spec
  /\ WF_vars(TimerFires)
  /\ WF_vars(\E s \in loads : NodesLoaded(s) \/ LoadFails(s))
  /\ SF_vars(\E s \in loads : NodesLoaded(s))

-----------------------------------------------------------------------------
(* Properties.                                                             *)

Settled(n) == n \in rows <=> node[n] = "present"

\* The machines on screen catch up with the server's, through failed polls,
\* answers out of order, an expired session that was renewed in another
\* window, and log-outs: polling never dies.  Only while a form is open is the
\* list left as it is.
RowsCatchUp ==
  \A n \in Nodes :
    OnNodes /\ session /\ NoForm
      ~> Settled(n) \/ ~ (OnNodes /\ session /\ NoForm)

\* A message goes to the conversation whose messages are on the screen: the
\* header, the target and sendMessage use state.current.  The one exception is
\* a change of target answered after another conversation was selected.
SentWhereShown ==
  view = "app" /\ current # None => shown = current \/ late
=============================================================================
