-------------------------- MODULE ConversationTurns --------------------------
(***************************************************************************)
(* What both ends of a chat rely on: a conversation answers one message at *)
(* a time, and a message gets one turn at most.  What was refused, given   *)
(* up or lost once is never answered later.  DashboardGeneration (the      *)
(* server) and ChatClient (the page, late requests of an earlier page, and *)
(* the server as they see it) are both shown to implement this.            *)
(***************************************************************************)
CONSTANTS Convs,     \* conversations
          Messages,  \* what is sent to them
          None

VARIABLES gen,       \* the message a conversation is answering, or None
          spent      \* the messages that cannot have a turn any more

vars == <<gen, spent>>

Init == gen = [c \in Convs |-> None] /\ spent = {}

Begin(c, m) == /\ gen[c] = None
               /\ m \notin spent
               /\ gen' = [gen EXCEPT ![c] = m]
               /\ spent' = spent \cup {m}

\* Answers end, all at once when the process does.
End(C) == /\ \A c \in C : gen[c] # None
          /\ gen' = [c \in Convs |-> IF c \in C THEN None ELSE gen[c]]
          /\ UNCHANGED spent

\* Messages are refused or lost before they had a turn.
Drop(M) == /\ M \cap spent = {}
           /\ spent' = spent \cup M
           /\ UNCHANGED gen

Next == \/ \E c \in Convs, m \in Messages : Begin(c, m)
        \/ \E C \in SUBSET Convs : End(C)
        \/ \E M \in SUBSET Messages : Drop(M)

Spec == Init /\ [][Next]_vars
=============================================================================
