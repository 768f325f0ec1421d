---------------------------- MODULE ConsoleProofs ----------------------------
(***************************************************************************)
(* Which conversation a message goes to, for any machines, conversations   *)
(* and numbers of outstanding requests.                                    *)
(*                                                                         *)
(* SentWhereShown speaks of the app view only.  It is inductive without    *)
(* that condition: the answers that arrive at the login view assign        *)
(* state.current as well, and the next login shows what they left.         *)
(***************************************************************************)
EXTENDS Console, TLAPS

ShownInv == current # None => shown = current \/ late

LEMMA InitShown == Init => ShownInv
BY DEF Init, ShownInv

\* Only answers to requests about conversations, and a log-out, assign
\* state.current.
LEMMA ShownStep == ShownInv /\ [Next]_vars => ShownInv'
<1> SUFFICES ASSUME ShownInv, [Next]_vars PROVE ShownInv'
  OBVIOUS
<1> USE DEF ShownInv
<1>1. ASSUME UNCHANGED <<current, shown, late>>
      PROVE  ShownInv'
  BY <1>1
<1>2. ASSUME NEW c \in Convs, SelectAnswered(c)
      PROVE  ShownInv'
  BY <1>2 DEF SelectAnswered
<1>3. ASSUME NEW c \in Convs, TargetAnswered(c)
      PROVE  ShownInv'
  <2>1. c # None
    BY NamesAssumption
  <2>2. current' = c /\ shown' = shown /\ (late' <=> late \/ c # current)
    BY <1>3 DEF TargetAnswered
  <2>3. CASE c = current
    BY <2>1, <2>2, <2>3
  <2>4. CASE c # current
    BY <2>2, <2>4
  <2> QED  BY <2>3, <2>4
<1>4. CASE Logout \/ DeletionAnswered
  BY <1>4 DEF Logout, DeletionAnswered
<1>5. CASE \/ SessionExpires \/ SessionRenewed \/ Login \/ AppShown \/ AppFails
           \/ TimerFires \/ Refresh
           \/ ChangeTarget \/ DeleteConversation \/ DeletionFails
  <2>1. UNCHANGED <<current, shown, late>>
    BY <1>5 DEF SessionExpires, SessionRenewed, Login, AppShown, AppFails,
                TimerFires, Refresh, ChangeTarget, DeleteConversation,
                DeletionFails, chatVars
  <2> QED  BY <1>1, <2>1
<1>6. ASSUME \/ \E s \in SUBSET Nodes \cup {Refused} : NodesLoaded(s) \/ LoadFails(s)
             \/ \E t \in {"chat", "nodes"} : SwitchView(t)
             \/ \E k \in Kinds : CancelForm(k) \/ SubmitForm(k)
             \/ \E n \in Nodes :
                  \/ NodeAdded(n) \/ NodePurged(n) \/ PressDelete(n)
                  \/ \E k \in Kinds : OpenForm(k, n) \/ SaveAnswered(k, n)
      PROVE  UNCHANGED <<current, shown, late>>
  BY <1>6 DEF NodesLoaded, LoadFails, SwitchView, CancelForm, SubmitForm,
              NodeAdded, NodePurged, PressDelete, OpenForm, SaveAnswered,
              chatVars
<1>7. ASSUME NEW c \in Convs,
             CreateConversation(c) \/ Select(c) \/ SelectFails(c) \/ TargetFails(c)
      PROVE  UNCHANGED <<current, shown, late>>
  BY <1>7 DEF CreateConversation, Select, SelectFails, TargetFails
<1>8. CASE UNCHANGED vars
  BY <1>1, <1>8 DEF vars, chatVars
<1> HIDE DEF ShownInv
<1> QED
  BY <1>1, <1>2, <1>3, <1>4, <1>5, <1>6, <1>7, <1>8 DEF Next

\* The conversation a message is sent to is the one whose messages are on the
\* screen, unless a change of target was answered after another selection.
THEOREM ConsoleSentWhereShown == Spec => []SentWhereShown
<1>1. ShownInv => SentWhereShown
  BY DEF ShownInv, SentWhereShown
<1> QED  BY <1>1, InitShown, ShownStep, PTL DEF Spec
=============================================================================
