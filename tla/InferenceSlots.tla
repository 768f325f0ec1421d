-------------------------- MODULE InferenceSlots --------------------------
(***************************************************************************)
(* What the MLX gateway promises about inference jobs, with HTTP left out: *)
(* at most Limit jobs are served at once, the others wait in arrival       *)
(* order, a free slot is given at once to the head of the line, and every  *)
(* job that settles does so exactly once.  MlxGateway is shown to          *)
(* implement this specification.                                           *)
(***************************************************************************)
EXTENDS Integers, Sequences, FiniteSets, FiniteSetsExt

CONSTANTS Jobs,     \* inference requests
          Limit     \* slots (PARALLEL_REQUESTS)

VARIABLES waiting,  \* the line: a sequence of jobs
          serving,  \* the jobs that hold a slot
          entered,  \* the jobs that have joined the line at some time
          outcome   \* how a job settled, "none" until it does

vars == <<waiting, serving, entered, outcome>>

Outcomes == {"completed", "failed", "cancelled"}

Init == /\ waiting = <<>>
        /\ serving = {}
        /\ entered = {}
        /\ outcome = [j \in Jobs |-> "none"]

\* Line w and slots s after every free slot has gone to the head of the line.
Grant(w, s) ==
  LET n == Min({Limit - Cardinality(s), Len(w)})
  IN  /\ waiting' = SubSeq(w, n + 1, Len(w))
      /\ serving' = s \cup {w[i] : i \in 1..n}

Join(j) == /\ j \notin entered
           /\ outcome[j] = "none"
           /\ entered' = entered \cup {j}
           /\ Grant(Append(waiting, j), serving)
           /\ UNCHANGED outcome

\* A request turned away before it joins the line (body too large or aborted).
TurnAway(j) == /\ j \notin entered
               /\ outcome[j] = "none"
               /\ \E o \in Outcomes \ {"completed"} :
                    outcome' = [outcome EXCEPT ![j] = o]
               /\ UNCHANGED <<waiting, serving, entered>>

Serve(j) == /\ j \in serving
            /\ outcome[j] = "none"
            /\ \E o \in Outcomes : outcome' = [outcome EXCEPT ![j] = o]
            /\ Grant(waiting, serving \ {j})
            /\ UNCHANGED entered

\* Only a cancellation takes a job out of the line without serving it.
Leave(j) == /\ outcome[j] = "none"
            /\ \E i \in 1..Len(waiting) :
                 /\ waiting[i] = j
                 /\ waiting' = SubSeq(waiting, 1, i - 1)
                                 \o SubSeq(waiting, i + 1, Len(waiting))
            /\ outcome' = [outcome EXCEPT ![j] = "cancelled"]
            /\ UNCHANGED <<serving, entered>>

\* The process ends: whoever waits or is served is lost, without an outcome.
Lose == /\ waiting' = <<>>
        /\ serving' = {}
        /\ UNCHANGED <<entered, outcome>>

Next == \/ \E j \in Jobs : Join(j) \/ TurnAway(j) \/ Serve(j) \/ Leave(j)
        \/ Lose

Spec == Init /\ [][Next]_vars
=============================================================================
