--------------------------- MODULE ChatClientProofs ---------------------------
(***************************************************************************)
(* Proofs about ChatClient for any conversations, any finite set of        *)
(* messages, any queue limit and any bounds on pages, loads and stops.     *)
(*                                                                         *)
(* IInv says where every message is: typed and still queued, or posted; in *)
(* which order the queue holds them; and which one runMessage works for.   *)
(***************************************************************************)
EXTENDS ChatClient, FiniteSetTheorems, TLAPS

Distinct(s) == \A i, j \in 1..Len(s) : s[i] = s[j] => i = j

\* What was typed on this page is queued or has been posted, each message
\* once, and the queue keeps the order of typing.
QueueInv ==
  /\ Distinct(typed) /\ Distinct(queue) /\ Distinct(posted)
  /\ Elems(typed) = Elems(queue) \cup Elems(posted)
  /\ Elems(queue) \cap Elems(posted) = {}
  /\ \A i, j \in 1..Len(queue) : i < j => Before(queue[i], queue[j])

\* A run begins when its message is posted.
RunInv ==
  /\ \A m \in Elems(queue) : run[m] = "none"
  /\ \A m \in Elems(posted) : run[m] # "none"
  /\ \A m \in Messages \ Elems(typed) : run[m] \in {"none", "over"}

IInv == /\ TypeOK
        /\ QueueInv
        /\ RunInv
        /\ SingleRun
        /\ IdleQueueDrained
        /\ OvertakenOnlyWatching

-----------------------------------------------------------------------------
(* Sequences without repetition.                                           *)

LEMMA AppendFacts ==
  ASSUME NEW S, NEW s \in Seq(S), NEW x \in S
  PROVE  /\ Append(s, x) \in Seq(S)
         /\ Len(Append(s, x)) = Len(s) + 1 /\ Len(s) \in Nat
         /\ \A i \in 1..Len(s) : Append(s, x)[i] = s[i]
         /\ Append(s, x)[Len(s) + 1] = x
         /\ Elems(Append(s, x)) = Elems(s) \cup {x}
         /\ Distinct(s) /\ x \notin Elems(s) => Distinct(Append(s, x))
<1>1. /\ Append(s, x) \in Seq(S)
      /\ Len(Append(s, x)) = Len(s) + 1 /\ Len(s) \in Nat
      /\ \A i \in 1..Len(s) : Append(s, x)[i] = s[i]
      /\ Append(s, x)[Len(s) + 1] = x
  OBVIOUS
<1>2. Elems(Append(s, x)) = Elems(s) \cup {x}
  <2>1. \A i \in 1..(Len(s) + 1) : i \in 1..Len(s) \/ i = Len(s) + 1
    BY <1>1
  <2>2. 1..Len(s) \subseteq 1..(Len(s) + 1) /\ Len(s) + 1 \in 1..(Len(s) + 1)
    BY <1>1
  <2> QED  BY <1>1, <2>1, <2>2 DEF Elems
<1>3. ASSUME Distinct(s), x \notin Elems(s)
      PROVE  Distinct(Append(s, x))
  <2> SUFFICES ASSUME NEW i \in 1..(Len(s) + 1), NEW j \in 1..(Len(s) + 1),
                      Append(s, x)[i] = Append(s, x)[j]
               PROVE  i = j
    BY <1>1 DEF Distinct
  <2>1. \A k \in 1..Len(s) : Append(s, x)[k] = s[k] /\ s[k] # x
    BY <1>1, <1>3 DEF Elems
  <2>2. \A k \in 1..(Len(s) + 1) : k \in 1..Len(s) \/ k = Len(s) + 1
    BY <1>1
  <2> QED  BY <1>1, <1>3, <2>1, <2>2 DEF Distinct
<1> QED  BY <1>1, <1>2, <1>3

LEMMA TailFacts ==
  ASSUME NEW S, NEW s \in Seq(S), s # <<>>
  PROVE  /\ Tail(s) \in Seq(S) /\ Head(s) \in S
         /\ Len(s) \in Nat \ {0} /\ Len(Tail(s)) = Len(s) - 1
         /\ Head(s) = s[1] /\ 1 \in 1..Len(s)
         /\ \A i \in 1..Len(Tail(s)) : /\ Tail(s)[i] = s[i + 1]
                                       /\ i + 1 \in 2..Len(s)
         /\ Elems(s) = {Head(s)} \cup Elems(Tail(s))
         /\ Distinct(s) => Distinct(Tail(s)) /\ Head(s) \notin Elems(Tail(s))
<1>1. /\ Tail(s) \in Seq(S) /\ Head(s) \in S
      /\ Len(s) \in Nat \ {0} /\ Len(Tail(s)) = Len(s) - 1
      /\ Head(s) = s[1] /\ 1 \in 1..Len(s)
      /\ \A i \in 1..Len(Tail(s)) : Tail(s)[i] = s[i + 1] /\ i + 1 \in 2..Len(s)
  OBVIOUS
<1>2. Elems(s) = {Head(s)} \cup Elems(Tail(s))
  <2>1. ASSUME NEW i \in 1..Len(s)
        PROVE  s[i] \in {Head(s)} \cup Elems(Tail(s))
    <3>1. CASE i = 1
      BY <3>1, <1>1
    <3>2. CASE i # 1
      <4>1. i - 1 \in 1..Len(Tail(s)) /\ Tail(s)[i - 1] = s[i]
        BY <3>2, <1>1
      <4> QED  BY <4>1 DEF Elems
    <3> QED  BY <3>1, <3>2
  <2>2. ASSUME NEW i \in 1..Len(Tail(s))
        PROVE  Tail(s)[i] \in Elems(s)
    <3>1. i + 1 \in 1..Len(s) /\ Tail(s)[i] = s[i + 1]
      BY <1>1
    <3> QED  BY <3>1 DEF Elems
  <2> QED  BY <1>1, <2>1, <2>2 DEF Elems
<1>3. ASSUME Distinct(s)
      PROVE  Distinct(Tail(s)) /\ Head(s) \notin Elems(Tail(s))
  <2>1. \A i \in 1..Len(Tail(s)) :
          i + 1 \in 1..Len(s) /\ i + 1 # 1 /\ Tail(s)[i] = s[i + 1]
    BY <1>1
  <2>2. Distinct(Tail(s))
    <3> SUFFICES ASSUME NEW i \in 1..Len(Tail(s)), NEW j \in 1..Len(Tail(s)),
                        Tail(s)[i] = Tail(s)[j]
                 PROVE  i = j
      BY DEF Distinct
    <3>1. i + 1 = j + 1
      BY <1>3, <2>1 DEF Distinct
    <3> QED  BY <3>1
  <2>3. Head(s) \notin Elems(Tail(s))
    <3> SUFFICES ASSUME NEW i \in 1..Len(Tail(s)), Head(s) = Tail(s)[i]
                 PROVE  FALSE
      BY DEF Elems
    <3>1. s[1] = s[i + 1] /\ 1 \in 1..Len(s) /\ i + 1 \in 1..Len(s) /\ i + 1 # 1
      BY <1>1, <2>1
    <3> QED  BY <1>3, <3>1 DEF Distinct
  <2> QED  BY <2>2, <2>3
<1> QED  BY <1>1, <1>2, <1>3

LEMMA EmptyFacts ==
  /\ Len(<<>>) = 0 /\ Elems(<<>>) = {} /\ Distinct(<<>>)
  /\ \A S : <<>> \in Seq(S)
<1>1. Len(<<>>) = 0 /\ 1..0 = {} /\ \A S : <<>> \in Seq(S)
  OBVIOUS
<1> QED  BY <1>1 DEF Elems, Distinct

\* A sequence without repetition is no longer than its set is large.
LEMMA DistinctLength ==
  ASSUME NEW S, IsFiniteSet(S), NEW s \in Seq(S), Distinct(s)
  PROVE  Len(s) \in 0..Cardinality(S)
<1>1. Len(s) \in Nat /\ s \in [1..Len(s) -> S]
  OBVIOUS
<1>2. s \in Injection(1..Len(s), S)
  BY <1>1 DEF Injection, IsInjective, Distinct
<1>3. Cardinality(1..Len(s)) <= Cardinality(S)
  BY <1>2, FS_Injection
<1>4. Cardinality(1..Len(s)) = Len(s)
  <2>1. Cardinality(1..Len(s)) = IF 1 > Len(s) THEN 0 ELSE Len(s) - 1 + 1
    BY <1>1, FS_Interval
  <2> QED  BY <1>1, <2>1
<1>5. Cardinality(S) \in Nat
  BY FS_CardinalityType
<1> QED  BY <1>1, <1>3, <1>4, <1>5

\* Nothing comes before what is typed last, and what was before stays before.
LEMMA BeforeAppend ==
  ASSUME NEW s \in Seq(Messages), s = typed, NEW x \in Messages,
         x \notin Elems(s), typed' = Append(s, x), NEW m, NEW n
  PROVE  /\ Before(m, n) => Before(m, n)'
         /\ Before(m, n)' => Before(m, n) \/ (m \in Elems(s) /\ n = x)
         /\ m \in Elems(s) => Before(m, x)'
<1>1. /\ Len(typed') = Len(s) + 1 /\ Len(s) \in Nat
      /\ \A i \in 1..Len(s) : typed'[i] = s[i]
      /\ typed'[Len(s) + 1] = x
  BY AppendFacts
<1>2. \A i \in 1..Len(s) : i \in 1..Len(typed') /\ i < Len(s) + 1
  BY <1>1
<1>3. ASSUME Before(m, n)
      PROVE  Before(m, n)'
  BY <1>1, <1>2, <1>3 DEF Before
<1>4. ASSUME Before(m, n)'
      PROVE  Before(m, n) \/ (m \in Elems(s) /\ n = x)
  <2>1. PICK i \in 1..Len(typed'), j \in 1..Len(typed') :
               i < j /\ typed'[i] = m /\ typed'[j] = n
    BY <1>4 DEF Before
  <2>2. i \in 1..Len(s) /\ s[i] = m
    BY <1>1, <2>1
  <2>3. CASE j = Len(s) + 1
    BY <1>1, <2>1, <2>2, <2>3 DEF Elems
  <2>4. CASE j # Len(s) + 1
    <3>1. j \in 1..Len(s) /\ s[j] = n
      BY <1>1, <2>1, <2>4
    <3> QED  BY <2>1, <2>2, <3>1 DEF Before
  <2> QED  BY <2>3, <2>4
<1>5. ASSUME m \in Elems(s)
      PROVE  Before(m, x)'
  <2>1. PICK i \in 1..Len(s) : s[i] = m
    BY <1>5 DEF Elems
  <2>2. Len(s) + 1 \in 1..Len(typed')
    BY <1>1
  <2> QED  BY <1>1, <1>2, <2>1, <2>2 DEF Before
<1> QED  BY <1>3, <1>4, <1>5

\* A sequence without repetition has one order.
LEMMA BeforeOneWay ==
  ASSUME typed \in Seq(Messages), Distinct(typed), NEW m, NEW n, Before(m, n)
  PROVE  ~ Before(n, m)
<1> SUFFICES ASSUME Before(n, m) PROVE FALSE
  OBVIOUS
<1>1. PICK i, j \in 1..Len(typed) : i < j /\ typed[i] = m /\ typed[j] = n
  BY DEF Before
<1>2. PICK k, l \in 1..Len(typed) : k < l /\ typed[k] = n /\ typed[l] = m
  BY DEF Before
<1>3. i = l /\ j = k
  BY <1>1, <1>2 DEF Distinct
<1> QED  BY <1>1, <1>2, <1>3

LEMMA ElemsType ==
  \A S : \A s \in Seq(S) : Elems(s) \subseteq S
BY DEF Elems

\* The messages that Before relates have been typed.
LEMMA BeforeElems ==
  ASSUME NEW m, NEW n, Before(m, n)
  PROVE  m \in Elems(typed) /\ n \in Elems(typed)
BY DEF Before, Elems

-----------------------------------------------------------------------------
(* Type correctness.                                                       *)

LEMMA InitTyped == Init => TypeOK
<1> SUFFICES ASSUME Init PROVE TypeOK
  OBVIOUS
<1>1. queue \in Seq(Messages) /\ typed \in Seq(Messages) /\ posted \in Seq(Messages)
  BY EmptyFacts DEF Init
<1>2. Len(queue) <= Limit /\ page \in 1..MaxPages
  BY EmptyFacts, LimitAssumption, BoundsAssumption DEF Init
<1>3. \A m \in Messages : "none" \in Runs
  BY DEF Runs
<1> QED  BY <1>1, <1>2, <1>3 DEF Init, TypeOK

\* An answer of the server to a GET.
LEMMA LoadRecord ==
  ASSUME NEW k \in {"select", "poll"}, NEW c \in Convs, NEW b \in BOOLEAN
  PROVE  [kind |-> k, conv |-> c, gen |-> b] \in Loads
BY DEF Loads

LEMMA RequestTyped ==
  ASSUME TypeOK, NEW k \in {"select", "poll"}, NEW c \in Convs, Request(k, c)
  PROVE  loads' \subseteq Loads
<1>1. (gen[c] # None) \in BOOLEAN
  OBVIOUS
<1>2. [kind |-> k, conv |-> c, gen |-> gen[c] # None] \in Loads
  BY <1>1, LoadRecord
<1> QED  BY <1>2 DEF Request, TypeOK

LEMMA ShowsNextTyped ==
  ASSUME TypeOK
  PROVE  ShowsNext(shows) \in BOOLEAN
BY ZenonT(20) DEF ShowsNext, TypeOK

LEMMA RunFailsTyped ==
  ASSUME TypeOK, NEW m \in Messages, RunFails(m)
  PROVE  /\ run' \in [Messages -> Runs]
         /\ shows' \in BOOLEAN
<1>1. run' \in [Messages -> Runs]
  BY DEF RunFails, TypeOK, Runs
<1>2. (shows /\ current # to[m]) \in BOOLEAN
  OBVIOUS
<1> QED  BY <1>1, <1>2 DEF RunFails

LEMMA FinishTyped ==
  ASSUME TypeOK, NEW m \in Messages, Finish(m)
  PROVE  /\ run' \in [Messages -> Runs] /\ sending' \in BOOLEAN
         /\ active' \in Convs \cup {None} /\ stopping' \in BOOLEAN
         /\ queue' \in Seq(Messages) /\ Len(queue') <= Limit
         /\ posted' \in Seq(Messages) /\ wire' \subseteq Messages
         /\ to' \in [Messages -> Convs \cup {None}]
<1> USE DEF TypeOK
<1>1. CASE queue = <<>>
  <2>1. /\ run' = [run EXCEPT ![m] = "over"]
        /\ sending' = FALSE /\ active' = None /\ stopping' = FALSE
        /\ UNCHANGED <<to, queue, posted, wire>>
    BY <1>1 DEF Finish
  <2>2. run' \in [Messages -> Runs]
    BY <2>1 DEF Runs
  <2> QED  BY <2>1, <2>2
<1>2. CASE queue # <<>>
  <2>1. /\ StartRun(Head(queue), [run EXCEPT ![m] = "over"])
        /\ queue' = Tail(queue) /\ to' = to
    BY <1>2 DEF Finish
  <2>2. /\ Head(queue) \in Messages /\ Tail(queue) \in Seq(Messages)
        /\ Len(queue) \in Nat /\ Len(Tail(queue)) = Len(queue) - 1
    BY <1>2, TailFacts
  <2>3. Len(queue') <= Limit
    BY <2>1, <2>2, LimitAssumption
  <2>4. [run EXCEPT ![m] = "over"] \in [Messages -> Runs]
    BY DEF Runs
  <2>5. run' \in [Messages -> Runs]
    BY <2>1, <2>2, <2>4 DEF StartRun, Runs
  <2>6. posted' \in Seq(Messages)
    BY <2>1, <2>2, AppendFacts DEF StartRun
  <2> QED  BY <2>1, <2>2, <2>3, <2>5, <2>6 DEF StartRun
<1> QED  BY <1>1, <1>2

\* Every action keeps the types; a stop records a number of posted messages,
\* which their being distinct bounds.
LEMMA TypeStep ==
  ASSUME TypeOK, QueueInv, [Next]_vars
  PROVE  TypeOK'
<1> USE DEF TypeOK, serverVars, viewVars, sendVars
<1>1. ASSUME NEW m \in Messages, SendNow(m)
      PROVE  TypeOK'
  <2>1. current \in Convs
    BY <1>1 DEF SendNow, CanSend
  <2>2. /\ to' = [to EXCEPT ![m] = current] /\ typed' = Append(typed, m)
        /\ how' = [how EXCEPT ![m] = "direct"] /\ StartRun(m, run)
    BY <1>1 DEF SendNow
  <2>3. to' \in [Messages -> Convs \cup {None}]
    BY <2>1, <2>2
  <2>4. how' \in [Messages -> {"unsent", "direct", "sending", "watching"}]
    BY <2>2
  <2>5. run' \in [Messages -> Runs]
    BY <2>2 DEF StartRun, Runs
  <2>6. typed' \in Seq(Messages) /\ posted' \in Seq(Messages)
    BY <2>2, AppendFacts DEF StartRun
  <2>7. active' \in Convs \cup {None} /\ wire' \subseteq Messages
    BY <2>2, <2>3 DEF StartRun
  <2> QED  BY <1>1, <2>2, <2>3, <2>4, <2>5, <2>6, <2>7 DEF SendNow, StartRun
<1>2. ASSUME NEW m \in Messages, Enqueue(m)
      PROVE  TypeOK'
  <2>1. current \in Convs
    BY <1>2 DEF Enqueue, CanSend
  <2>2. /\ to' = [to EXCEPT ![m] = current] /\ typed' = Append(typed, m)
        /\ how' = [how EXCEPT ![m] = IF sending THEN "sending" ELSE "watching"]
        /\ queue' = Append(queue, m) /\ Len(queue) < Limit
    BY <1>2 DEF Enqueue
  <2>3. to' \in [Messages -> Convs \cup {None}]
    BY <2>1, <2>2
  <2>4. how' \in [Messages -> {"unsent", "direct", "sending", "watching"}]
    BY <2>2
  <2>5. /\ typed' \in Seq(Messages) /\ queue' \in Seq(Messages)
        /\ Len(queue') = Len(queue) + 1 /\ Len(queue) \in Nat
    BY <2>2, AppendFacts
  <2>6. Len(queue') <= Limit
    BY <2>2, <2>5, LimitAssumption
  <2> QED  BY <1>2, <2>3, <2>4, <2>5, <2>6 DEF Enqueue
<1>3. ASSUME NEW m \in Messages, Accepted(m)
      PROVE  TypeOK'
  <2>1. gen' \in [Convs -> Messages \cup {None}]
    BY <1>3 DEF Accepted
  <2>2. run' \in [Messages -> Runs]
    BY <1>3 DEF Accepted, Runs
  <2> QED  BY <1>3, <2>1, <2>2 DEF Accepted
<1>4. ASSUME NEW m \in Messages, Refused(m)
      PROVE  TypeOK'
  <2>1. CASE run[m] = "posting"
    <3>1. RunFails(m)
      BY <1>4, <2>1 DEF Refused
    <3> QED  BY <1>4, <3>1, RunFailsTyped DEF Refused, RunFails
  <2>2. CASE run[m] # "posting"
    <3>1. UNCHANGED <<page, viewVars, sendVars, to, typed, how>>
      BY <1>4, <2>2 DEF Refused
    <3> QED  BY <1>4, <3>1 DEF Refused
  <2> QED  BY <2>1, <2>2
<1>5. ASSUME NEW m \in Messages, PostFails(m)
      PROVE  TypeOK'
  BY <1>5, RunFailsTyped DEF PostFails, RunFails
<1>6. ASSUME NEW c \in Convs, GenerationEnds(c)
      PROVE  TypeOK'
  BY <1>6 DEF GenerationEnds
<1>7. ASSUME NEW m \in Messages, StreamEnds(m)
      PROVE  TypeOK'
  <2>1. CASE current = to[m]
    <3>1. run' \in [Messages -> Runs]
      BY <1>7, <2>1 DEF StreamEnds, Runs
    <3> QED  BY <1>7, <2>1, <3>1 DEF StreamEnds
  <2>2. CASE current # to[m]
    <3>1. Finish(m) /\ shows' = ShowsNext(shows)
      BY <1>7, <2>2 DEF StreamEnds
    <3> HIDE DEF TypeOK
    <3>2. shows' \in BOOLEAN
      BY <3>1, ShowsNextTyped
    <3>3. UNCHANGED <<gen, stops, refused, page, current, timer, loads, typed, how>>
      BY <1>7 DEF StreamEnds
    <3> QED  BY <3>1, <3>2, <3>3, FinishTyped DEF TypeOK
  <2> QED  BY <2>1, <2>2
<1>8. ASSUME NEW m \in Messages, StreamBreaks(m)
      PROVE  TypeOK'
  BY <1>8, RunFailsTyped DEF StreamBreaks, RunFails
<1>9. ASSUME NEW m \in Messages, Reloaded(m)
      PROVE  TypeOK'
  <2>1. CASE RunFails(m)
    BY <1>9, <2>1, RunFailsTyped DEF Reloaded, RunFails
  <2>2. CASE ~ RunFails(m)
    <3>1. run' \in [Messages -> Runs]
      BY <1>9, <2>2 DEF Reloaded, Runs
    <3> QED  BY <1>9, <2>2, <3>1 DEF Reloaded
  <2> QED  BY <2>1, <2>2
<1>10. ASSUME NEW m \in Messages, RunCloses(m)
       PROVE  TypeOK'
  <2> HIDE DEF TypeOK
  <2>1. Finish(m) /\ shows' = ShowsNext(shows)
    BY <1>10 DEF RunCloses
  <2>2. shows' \in BOOLEAN
    BY <2>1, ShowsNextTyped
  <2>3. UNCHANGED <<gen, stops, refused, page, current, timer, loads, typed, how>>
    BY <1>10 DEF RunCloses
  <2> QED  BY <2>1, <2>2, <2>3, FinishTyped DEF TypeOK
<1>11. ASSUME PressStop
       PROVE  TypeOK'
  <2>1. Len(posted) \in 0..Cardinality(Messages)
    BY DistinctLength, BoundsAssumption DEF QueueInv
  <2>2. current \in Convs
    BY <1>11 DEF PressStop
  <2> QED  BY <1>11, <2>1, <2>2 DEF PressStop
<1>12. ASSUME NEW s \in stops, StopHandled(s)
       PROVE  TypeOK'
  BY <1>12 DEF StopHandled
<1>13. ASSUME NEW c \in Convs, Select(c)
       PROVE  TypeOK'
  <2>1. loads' \subseteq Loads
    BY <1>13, RequestTyped DEF Select
  <2> QED  BY <1>13, <2>1 DEF Select
<1>14. ASSUME NEW l \in loads, SelectAnswered(l)
       PROVE  TypeOK'
  <2>1. l.conv \in Convs /\ l.gen \in BOOLEAN
    BY DEF Loads
  <2> QED  BY <1>14, <2>1 DEF SelectAnswered, Schedule
<1>15. ASSUME NEW l \in loads, PollAnswered(l)
       PROVE  TypeOK'
  <2>1. l.conv \in Convs /\ l.gen \in BOOLEAN
    BY DEF Loads
  <2> QED  BY <1>15, <2>1 DEF PollAnswered, Schedule
<1>16. ASSUME NEW l \in loads, LoadFails(l)
       PROVE  TypeOK'
  BY <1>16 DEF LoadFails, Schedule
<1>17. ASSUME PollFires
       PROVE  TypeOK'
  <2>1. loads' \subseteq Loads
    BY <1>17, RequestTyped DEF PollFires
  <2> QED  BY <1>17, <2>1 DEF PollFires
<1>18. ASSUME ReloadPage
       PROVE  TypeOK'
  <2>1. page' \in 1..MaxPages
    BY <1>18, BoundsAssumption DEF ReloadPage
  <2>2. run' \in [Messages -> Runs]
    BY <1>18 DEF ReloadPage, Runs
  <2>3. /\ queue' \in Seq(Messages) /\ typed' \in Seq(Messages)
        /\ posted' \in Seq(Messages) /\ Len(queue') <= Limit
    BY <1>18, EmptyFacts, LimitAssumption DEF ReloadPage
  <2> QED  BY <1>18, <2>1, <2>2, <2>3 DEF ReloadPage
<1>19. CASE UNCHANGED vars
  BY <1>19 DEF vars
<1> HIDE DEF TypeOK
<1> QED
  BY <1>1, <1>2, <1>3, <1>4, <1>5, <1>6, <1>7, <1>8, <1>9, <1>10, <1>11, <1>12,
     <1>13, <1>14, <1>15, <1>16, <1>17, <1>18, <1>19
     DEF Next, ServerStep, PageStep

-----------------------------------------------------------------------------
(* The invariant.                                                          *)

LEMMA InitInv == Init => IInv
<1> SUFFICES ASSUME Init PROVE IInv
  OBVIOUS
<1>1. TypeOK
  BY InitTyped
<1>2. QueueInv
  BY EmptyFacts DEF Init, QueueInv
<1>3. RunInv
  BY EmptyFacts DEF Init, RunInv
<1>4. SingleRun
  BY DEF Init, SingleRun, Running
<1>5. IdleQueueDrained /\ OvertakenOnlyWatching
  BY EmptyFacts DEF Init, IdleQueueDrained, OvertakenOnlyWatching
<1> QED  BY <1>1, <1>2, <1>3, <1>4, <1>5 DEF IInv

\* What the invariant says of a running message: it was posted, it is the only
\* one, and nothing runs on an idle page.
LEMMA RunningFacts ==
  ASSUME IInv
  PROVE  /\ \A m \in Messages : Running(m) => m \in Elems(posted) /\ sending
         /\ \A m, n \in Messages : Running(m) /\ Running(n) => m = n
<1>1. ASSUME NEW m \in Messages, Running(m)
      PROVE  m \in Elems(posted) /\ sending
  BY <1>1 DEF IInv, SingleRun, RunInv, QueueInv, Running
<1>2. \A m, n \in Messages : Running(m) /\ Running(n) => m = n
  BY DEF IInv, SingleRun
<1> QED  BY <1>1, <1>2

LEMMA QueueKept ==
  ASSUME QueueInv, UNCHANGED <<typed, queue, posted>>
  PROVE  QueueInv'
<1>1. typed' = typed /\ queue' = queue /\ posted' = posted
  OBVIOUS
<1>2. Distinct(typed)' /\ Distinct(queue)' /\ Distinct(posted)'
  BY <1>1 DEF QueueInv, Distinct
<1>3. /\ Elems(typed') = Elems(typed) /\ Elems(queue') = Elems(queue)
      /\ Elems(posted') = Elems(posted)
  BY <1>1
<1>4. \A i, j \in 1..Len(queue) : i < j => Before(queue[i], queue[j])'
  BY <1>1 DEF QueueInv, Before
<1> QED  BY <1>1, <1>2, <1>3, <1>4 DEF QueueInv

Steady == UNCHANGED <<typed, posted, queue, sending, active, to, how>>

\* A step that only moves the running message from one await to another, or
\* no message at all.
LEMMA QuietStep ==
  ASSUME IInv, Steady,
         \A m \in Messages : run'[m] = run[m] \/ (Running(m) /\ Running(m)')
  PROVE  QueueInv' /\ RunInv' /\ SingleRun' /\ IdleQueueDrained'
         /\ OvertakenOnlyWatching'
<1>1. /\ typed' = typed /\ posted' = posted /\ queue' = queue
      /\ sending' = sending /\ active' = active /\ to' = to /\ how' = how
  BY DEF Steady
<1>2. /\ QueueInv /\ RunInv /\ SingleRun /\ IdleQueueDrained
      /\ OvertakenOnlyWatching
  BY DEF IInv
<1>3. \A m \in Messages : Running(m)' <=> Running(m)
  BY DEF Running
<1>4. Elems(queue) \subseteq Messages /\ Elems(posted) \subseteq Messages
  BY ElemsType DEF IInv, TypeOK
<1>5. QueueInv'
  BY <1>1, <1>2, QueueKept
<1>6. RunInv'
  <2>1. Elems(typed') = Elems(typed) /\ Elems(posted') = Elems(posted)
        /\ Elems(queue') = Elems(queue)
    BY <1>1
  <2>2. \A m \in Messages : Running(m) => run[m] \notin {"none", "over"}
    BY DEF Running
  <2>3. \A m \in Messages : Running(m)' => run'[m] # "none"
    BY DEF Running
  <2> QED  BY <1>2, <1>4, <2>1, <2>2, <2>3 DEF RunInv
<1>7. SingleRun'
  BY <1>1, <1>2, <1>3 DEF SingleRun
<1>8. IdleQueueDrained'
  BY <1>1, <1>2 DEF IdleQueueDrained, Elems
<1>9. OvertakenOnlyWatching'
  BY <1>1, <1>2 DEF OvertakenOnlyWatching, Before, Elems
<1> QED  BY <1>5, <1>6, <1>7, <1>8, <1>9

\* sendMessage on an idle page: the queue can only hold messages queued while
\* watching, and those are what the new one overtakes.
LEMMA SendNowStep ==
  ASSUME IInv, NEW m \in Messages, SendNow(m)
  PROVE  QueueInv' /\ RunInv' /\ SingleRun' /\ IdleQueueDrained'
         /\ OvertakenOnlyWatching'
<1>1. /\ m \notin Elems(typed) /\ run[m] = "none" /\ ~ sending
      /\ typed' = Append(typed, m) /\ posted' = Append(posted, m)
      /\ queue' = queue /\ sending' = TRUE /\ active' = to'[m]
      /\ run' = [run EXCEPT ![m] = "posting"]
      /\ how' = [how EXCEPT ![m] = "direct"]
  BY DEF SendNow, StartRun, CanSend
<1>2. /\ QueueInv /\ RunInv /\ SingleRun /\ IdleQueueDrained
      /\ OvertakenOnlyWatching
  BY DEF IInv
<1>3. /\ typed \in Seq(Messages) /\ posted \in Seq(Messages)
      /\ queue \in Seq(Messages) /\ run \in [Messages -> Runs]
      /\ how \in [Messages -> {"unsent", "direct", "sending", "watching"}]
  BY DEF IInv, TypeOK
<1>4. m \notin Elems(queue) /\ m \notin Elems(posted)
  BY <1>1, <1>2 DEF QueueInv
<1>5. /\ Elems(typed') = Elems(typed) \cup {m} /\ Distinct(typed)'
      /\ Elems(posted') = Elems(posted) \cup {m} /\ Distinct(posted)'
      /\ Elems(queue') = Elems(queue)
      /\ posted'[Len(posted')] = m
  BY <1>1, <1>2, <1>3, <1>4, AppendFacts DEF QueueInv
<1>6. Elems(queue) \subseteq Messages /\ Elems(posted) \subseteq Messages
  BY <1>3, ElemsType
<1>7. QueueInv'
  <2>1. \A a, b \in Messages : Before(a, b) => Before(a, b)'
    BY <1>1, <1>3, BeforeAppend
  <2>2. \A i \in 1..Len(queue) : queue[i] \in Messages
    BY <1>3
  <2>3. \A i, j \in 1..Len(queue) : i < j => Before(queue[i], queue[j])
    BY <1>2 DEF QueueInv
  <2>4. \A i, j \in 1..Len(queue) : i < j => Before(queue[i], queue[j])'
    BY <1>1, <2>1, <2>2, <2>3
  <2> QED  BY <1>1, <1>2, <1>4, <1>5, <2>4 DEF QueueInv
<1>8. RunInv'
  BY <1>1, <1>2, <1>3, <1>4, <1>5, <1>6 DEF RunInv
<1>9. SingleRun'
  <2>1. \A n \in Messages : n # m => ~ Running(n)'
    BY <1>1, <1>3, RunningFacts DEF Running
  <2>2. Running(m)'
    BY <1>1, <1>3 DEF Running
  <2> QED  BY <1>1, <1>5, <2>1, <2>2 DEF SingleRun
<1>10. IdleQueueDrained'
  BY <1>1 DEF IdleQueueDrained
<1>11. OvertakenOnlyWatching'
  <2> SUFFICES ASSUME NEW a \in Elems(typed'), a \notin Elems(posted')
               PROVE  how'[a] = "watching"
    BY DEF OvertakenOnlyWatching
  <2>1. a \in Elems(queue) /\ a # m
    BY <1>2, <1>5 DEF QueueInv
  <2> QED  BY <1>1, <1>2, <1>3, <1>6, <2>1 DEF IdleQueueDrained
<1> QED  BY <1>7, <1>8, <1>9, <1>10, <1>11

\* enqueue puts the message after everything typed before it.
LEMMA EnqueueStep ==
  ASSUME IInv, NEW m \in Messages, Enqueue(m)
  PROVE  QueueInv' /\ RunInv' /\ SingleRun' /\ IdleQueueDrained'
         /\ OvertakenOnlyWatching'
<1>1. /\ m \notin Elems(typed) /\ run[m] = "none"
      /\ typed' = Append(typed, m) /\ queue' = Append(queue, m)
      /\ to' = [to EXCEPT ![m] = current]
      /\ how' = [how EXCEPT ![m] = IF sending THEN "sending" ELSE "watching"]
      /\ UNCHANGED <<posted, sending, active, run>>
  BY DEF Enqueue, CanSend
<1>2. /\ QueueInv /\ RunInv /\ SingleRun /\ IdleQueueDrained
      /\ OvertakenOnlyWatching
  BY DEF IInv
<1>3. /\ typed \in Seq(Messages) /\ posted \in Seq(Messages)
      /\ queue \in Seq(Messages) /\ to \in [Messages -> Convs \cup {None}]
      /\ how \in [Messages -> {"unsent", "direct", "sending", "watching"}]
  BY DEF IInv, TypeOK
<1>4. m \notin Elems(queue) /\ m \notin Elems(posted)
  BY <1>1, <1>2 DEF QueueInv
<1>5. /\ Elems(typed') = Elems(typed) \cup {m} /\ Distinct(typed)'
      /\ Elems(queue') = Elems(queue) \cup {m} /\ Distinct(queue)'
      /\ Elems(posted') = Elems(posted)
      /\ Len(queue') = Len(queue) + 1 /\ Len(queue) \in Nat
      /\ queue'[Len(queue) + 1] = m
      /\ \A i \in 1..Len(queue) : queue'[i] = queue[i]
  BY <1>1, <1>2, <1>3, <1>4, AppendFacts DEF QueueInv
<1>6. Elems(queue) \subseteq Messages /\ Elems(posted) \subseteq Messages
      /\ Elems(typed) \subseteq Messages
  BY <1>3, ElemsType
<1>7. QueueInv'
  <2>1. ASSUME NEW i \in 1..Len(queue'), NEW j \in 1..Len(queue'), i < j
        PROVE  Before(queue[i], queue[j])'
    <3>1. i \in 1..Len(queue) /\ queue'[i] = queue[i]
      BY <1>5, <2>1
    <3>2. PICK a, b : a = queue'[i] /\ b = queue'[j]
      OBVIOUS
    <3>3. CASE j = Len(queue) + 1
      <4>1. a \in Elems(typed)
        BY <1>2, <3>1, <3>2 DEF QueueInv, Elems
      <4>2. Before(a, m)'
        BY <1>1, <1>3, <4>1, BeforeAppend
      <4> QED  BY <1>5, <3>2, <3>3, <4>2 DEF Before
    <3>4. CASE j # Len(queue) + 1
      <4>1. j \in 1..Len(queue) /\ queue'[j] = queue[j]
        BY <1>5, <3>4
      <4>2. Before(a, b)
        BY <1>2, <2>1, <3>1, <3>2, <4>1 DEF QueueInv
      <4>3. Before(a, b)'
        BY <1>1, <1>3, <4>2, BeforeAppend
      <4> QED  BY <3>2, <4>3 DEF Before
    <3> QED  BY <3>3, <3>4
  <2>2. Distinct(posted)'
    BY <1>1, <1>2 DEF QueueInv, Distinct
  <2> QED  BY <1>2, <1>4, <1>5, <2>1, <2>2 DEF QueueInv
<1>8. RunInv'
  BY <1>1, <1>2, <1>5 DEF RunInv
<1>9. SingleRun'
  <2>1. \A n \in Messages : (Running(n)' <=> Running(n)) /\ (Running(n) => n # m)
    BY <1>1 DEF Running
  <2> QED  BY <1>1, <1>2, <1>3, <2>1 DEF SingleRun
<1>10. IdleQueueDrained'
  BY <1>1, <1>2, <1>3, <1>5, <1>6 DEF IdleQueueDrained
<1>11. OvertakenOnlyWatching'
  <2> SUFFICES ASSUME NEW a \in Elems(typed'), NEW b \in Elems(posted'),
                      Before(a, b)', a \notin Elems(posted')
               PROVE  how'[a] = "watching"
    BY DEF OvertakenOnlyWatching
  <2>1. b # m
    BY <1>4, <1>5
  <2>2. Before(a, b)
    BY <1>1, <1>3, <2>1, BeforeAppend
  <2>3. a \in Elems(typed)
    BY <2>2, BeforeElems
  <2> QED  BY <1>1, <1>2, <1>3, <1>5, <1>6, <2>2, <2>3 DEF OvertakenOnlyWatching
<1> QED  BY <1>7, <1>8, <1>9, <1>10, <1>11

\* The end of a run, and the start of the next one from the head of the queue:
\* what was typed first among what waits.
LEMMA FinishStep ==
  ASSUME IInv, NEW m \in Messages, Running(m), Finish(m), UNCHANGED <<typed, how>>
  PROVE  QueueInv' /\ RunInv' /\ SingleRun' /\ IdleQueueDrained'
         /\ OvertakenOnlyWatching'
<1>1. /\ QueueInv /\ RunInv /\ SingleRun /\ IdleQueueDrained
      /\ OvertakenOnlyWatching
  BY DEF IInv
<1>2. /\ typed \in Seq(Messages) /\ posted \in Seq(Messages)
      /\ queue \in Seq(Messages) /\ run \in [Messages -> Runs]
  BY DEF IInv, TypeOK
<1>3. m \in Elems(posted) /\ m \notin Elems(queue)
      /\ \A n \in Messages : Running(n) => n = m
  BY <1>1, RunningFacts DEF QueueInv
<1>4. Elems(queue) \subseteq Messages /\ Elems(posted) \subseteq Messages
  BY <1>2, ElemsType
<1>5. CASE queue = <<>>
  <2>1. /\ run' = [run EXCEPT ![m] = "over"] /\ sending' = FALSE
        /\ UNCHANGED <<to, queue, posted>>
    BY <1>5 DEF Finish
  <2>2. QueueInv'
    BY <1>1, <2>1, QueueKept
  <2>3. Elems(typed') = Elems(typed) /\ Elems(posted') = Elems(posted)
        /\ Elems(queue') = Elems(queue)
    BY <2>1
  <2>4. RunInv'
    BY <1>1, <1>2, <1>3, <1>4, <2>1, <2>3 DEF RunInv
  <2>5. SingleRun'
    <3>1. \A n \in Messages : ~ Running(n)'
      BY <1>2, <1>3, <2>1 DEF Running
    <3> QED  BY <2>1, <3>1 DEF SingleRun
  <2>6. IdleQueueDrained'
    BY <1>5, <2>3, EmptyFacts DEF IdleQueueDrained
  <2>7. OvertakenOnlyWatching'
    BY <1>1, <2>1 DEF OvertakenOnlyWatching, Before, Elems
  <2> QED  BY <2>2, <2>4, <2>5, <2>6, <2>7
<1>6. CASE queue # <<>>
  <2> PICK h : h = Head(queue)
    OBVIOUS
  <2>1. /\ run' = [[run EXCEPT ![m] = "over"] EXCEPT ![h] = "posting"]
        /\ sending' = TRUE /\ active' = to'[h]
        /\ posted' = Append(posted, h) /\ queue' = Tail(queue)
    BY <1>6 DEF Finish, StartRun
  <2>2. /\ Tail(queue) \in Seq(Messages) /\ h \in Messages
        /\ h = queue[1] /\ 1 \in 1..Len(queue) /\ Len(queue) \in Nat
        /\ \A i \in 1..Len(Tail(queue)) : /\ Tail(queue)[i] = queue[i + 1]
                                          /\ i + 1 \in 2..Len(queue)
        /\ Elems(queue) = {h} \cup Elems(Tail(queue))
        /\ Distinct(Tail(queue)) /\ h \notin Elems(Tail(queue))
    BY <1>1, <1>2, <1>6, TailFacts DEF QueueInv
  <2>3. h \in Elems(queue) /\ h \notin Elems(posted) /\ h # m
    BY <1>1, <1>3, <2>2 DEF QueueInv
  <2>4. /\ Elems(posted') = Elems(posted) \cup {h} /\ Distinct(posted)'
        /\ posted'[Len(posted')] = h
    BY <1>1, <1>2, <2>1, <2>2, <2>3, AppendFacts DEF QueueInv
  <2>5. Elems(queue') = Elems(queue) \ {h} /\ Elems(typed') = Elems(typed)
    BY <2>1, <2>2
  <2>6. QueueInv'
    <3>1. ASSUME NEW i \in 1..Len(queue'), NEW j \in 1..Len(queue'), i < j
          PROVE  Before(queue[i], queue[j])'
      <4>1. /\ queue'[i] = queue[i + 1] /\ queue'[j] = queue[j + 1]
            /\ i + 1 \in 1..Len(queue) /\ j + 1 \in 1..Len(queue)
            /\ i + 1 < j + 1
        BY <2>1, <2>2, <3>1
      <4>2. Before(queue[i + 1], queue[j + 1])
        BY <1>1, <4>1 DEF QueueInv
      <4> QED  BY <4>1, <4>2 DEF Before
    <3>2. Distinct(typed)' /\ Distinct(queue)'
      BY <1>1, <2>1, <2>2 DEF QueueInv
    <3> QED  BY <1>1, <2>3, <2>4, <2>5, <3>1, <3>2 DEF QueueInv
  <2>7. \A n \in Messages :
          run'[n] = IF n = h THEN "posting" ELSE IF n = m THEN "over" ELSE run[n]
    BY <1>2, <2>1, <2>2
  <2>8. RunInv'
    BY <1>1, <1>3, <1>4, <2>3, <2>4, <2>5, <2>7 DEF RunInv, QueueInv
  <2>9. SingleRun'
    <3>1. \A n \in Messages : n # h => ~ Running(n)'
      BY <1>3, <2>7 DEF Running
    <3>2. Running(h)'
      BY <2>2, <2>7 DEF Running
    <3>3. active' = to'[h] /\ posted'[Len(posted')] = h /\ sending'
      BY <2>1, <2>4
    <3> QED  BY <2>2, <3>1, <3>2, <3>3 DEF SingleRun
  <2>10. IdleQueueDrained'
    BY <2>1 DEF IdleQueueDrained
  <2>11. OvertakenOnlyWatching'
    <3> SUFFICES ASSUME NEW a \in Elems(typed), NEW b \in Elems(posted'),
                        Before(a, b), a \notin Elems(posted')
                 PROVE  how[a] = "watching"
      BY DEF OvertakenOnlyWatching, Before, Elems
    <3>1. CASE b \in Elems(posted)
      BY <1>1, <2>4, <3>1 DEF OvertakenOnlyWatching
    <3>2. CASE b = h
      <4>1. a \in Elems(Tail(queue))
        BY <1>1, <2>2, <2>4 DEF QueueInv
      <4>2. PICK i \in 1..Len(Tail(queue)) : a = Tail(queue)[i]
        BY <4>1 DEF Elems
      <4>3. a = queue[i + 1] /\ i + 1 \in 1..Len(queue) /\ 1 < i + 1
        BY <2>2, <4>2
      <4>4. Before(h, a)
        BY <1>1, <2>2, <4>3 DEF QueueInv
      <4> QED  BY <1>1, <1>2, <3>2, <4>4, BeforeOneWay DEF QueueInv
    <3> QED  BY <2>4, <3>1, <3>2
  <2> QED  BY <2>6, <2>8, <2>9, <2>10, <2>11
<1> QED  BY <1>5, <1>6

\* A new page has typed nothing; the runs of the old one are over.
LEMMA ReloadStep ==
  ASSUME IInv, ReloadPage
  PROVE  QueueInv' /\ RunInv' /\ SingleRun' /\ IdleQueueDrained'
         /\ OvertakenOnlyWatching'
<1>1. /\ typed' = <<>> /\ queue' = <<>> /\ posted' = <<>> /\ sending' = FALSE
      /\ run' = [m \in Messages |-> IF m \in Elems(typed) THEN "over" ELSE run[m]]
  BY DEF ReloadPage
<1>2. Elems(typed') = {} /\ Elems(queue') = {} /\ Elems(posted') = {}
  BY <1>1, EmptyFacts
<1>3. QueueInv'
  BY <1>1, <1>2, EmptyFacts DEF QueueInv
<1>4. \A m \in Messages : run'[m] \in {"none", "over"}
  BY <1>1 DEF IInv, RunInv
<1>5. RunInv'
  BY <1>2, <1>4 DEF RunInv
<1>6. SingleRun'
  BY <1>1, <1>4 DEF SingleRun, Running
<1>7. IdleQueueDrained' /\ OvertakenOnlyWatching'
  BY <1>2 DEF IdleQueueDrained, OvertakenOnlyWatching
<1> QED  BY <1>3, <1>5, <1>6, <1>7

\* Every action, with the part of the page it disturbs.
LEMMA InvStep == IInv /\ [Next]_vars => IInv'
<1> SUFFICES ASSUME IInv, [Next]_vars PROVE IInv'
  OBVIOUS
<1> DEFINE Rest == QueueInv' /\ RunInv' /\ SingleRun' /\ IdleQueueDrained'
                   /\ OvertakenOnlyWatching'
<1>1. TypeOK'
  BY TypeStep DEF IInv
<1>2. run \in [Messages -> Runs]
  BY DEF IInv, TypeOK
<1>3. ASSUME NEW m \in Messages, Running(m), RunFails(m)
      PROVE  Rest
  <2>1. Steady /\ run' = [run EXCEPT ![m] = "closing"]
    BY <1>3 DEF RunFails, Steady
  <2>2. Running(m)'
    BY <1>2, <2>1 DEF Running
  <2> QED  BY <1>2, <1>3, <2>1, <2>2, QuietStep
<1>4. ASSUME NEW m \in Messages, Accepted(m)
      PROVE  Rest
  <2>1. /\ Steady
        /\ run' = [run EXCEPT ![m] = IF @ = "posting" THEN "streaming" ELSE @]
    BY <1>4 DEF Accepted, Steady
  <2>2. run[m] = "posting" => Running(m) /\ Running(m)'
    BY <1>2, <2>1 DEF Running
  <2> QED  BY <1>2, <2>1, <2>2, QuietStep
<1>5. ASSUME NEW m \in Messages, Refused(m)
      PROVE  Rest
  <2>1. CASE run[m] = "posting"
    BY <1>3, <1>5, <2>1 DEF Refused, Running
  <2>2. CASE run[m] # "posting"
    <3>1. Steady /\ run' = run
      BY <1>5, <2>2 DEF Refused, Steady, sendVars
    <3> QED  BY <3>1, QuietStep
  <2> QED  BY <2>1, <2>2
<1>6. ASSUME NEW m \in Messages, PostFails(m)
      PROVE  Rest
  BY <1>3, <1>6 DEF PostFails, Running
<1>7. ASSUME NEW m \in Messages, StreamEnds(m)
      PROVE  Rest
  <2>1. Running(m)
    BY <1>7 DEF StreamEnds, Running
  <2>2. CASE current = to[m]
    <3>1. Steady /\ run' = [run EXCEPT ![m] = "reloading"]
      BY <1>7, <2>2 DEF StreamEnds, Steady
    <3>2. Running(m)'
      BY <1>2, <3>1 DEF Running
    <3> QED  BY <1>2, <2>1, <3>1, <3>2, QuietStep
  <2>3. CASE current # to[m]
    BY <1>7, <2>1, <2>3, FinishStep DEF StreamEnds
  <2> QED  BY <2>2, <2>3
<1>8. ASSUME NEW m \in Messages, StreamBreaks(m)
      PROVE  Rest
  BY <1>3, <1>8 DEF StreamBreaks, Running
<1>9. ASSUME NEW m \in Messages, Reloaded(m)
      PROVE  Rest
  <2>1. Running(m)
    BY <1>9 DEF Reloaded, Running
  <2>2. CASE RunFails(m)
    BY <1>3, <2>1, <2>2
  <2>3. CASE ~ RunFails(m)
    <3>1. Steady /\ run' = [run EXCEPT ![m] = "closing"]
      BY <1>9, <2>3 DEF Reloaded, Steady
    <3>2. Running(m)'
      BY <1>2, <3>1 DEF Running
    <3> QED  BY <1>2, <2>1, <3>1, <3>2, QuietStep
  <2> QED  BY <2>2, <2>3
<1>10. ASSUME NEW m \in Messages, RunCloses(m)
       PROVE  Rest
  <2>1. Running(m)
    BY <1>10 DEF RunCloses, Running
  <2> QED  BY <1>10, <2>1, FinishStep DEF RunCloses
<1>11. ASSUME \/ \E c \in Convs : GenerationEnds(c)
              \/ \E s \in stops : StopHandled(s)
              \/ PressStop
       PROVE  Rest
  <2>1. Steady /\ run' = run
    BY <1>11 DEF GenerationEnds, StopHandled, PressStop, Steady, sendVars
  <2> QED  BY <2>1, QuietStep
<1>12. ASSUME \/ PollFires
              \/ \E c \in Convs : Select(c)
              \/ \E l \in loads : SelectAnswered(l) \/ PollAnswered(l) \/ LoadFails(l)
       PROVE  Rest
  <2>1. Steady /\ run' = run
    BY <1>12 DEF PollFires, Select, SelectAnswered, PollAnswered, LoadFails,
                 Steady, sendVars
  <2> QED  BY <2>1, QuietStep
<1>13. ASSUME UNCHANGED vars
       PROVE  Rest
  <2>1. Steady /\ run' = run
    BY <1>13 DEF vars, sendVars, Steady
  <2> QED  BY <2>1, QuietStep
<1>14. Rest
  BY <1>4, <1>5, <1>6, <1>7, <1>8, <1>9, <1>10, <1>11, <1>12, <1>13,
     SendNowStep, EnqueueStep, ReloadStep DEF Next, ServerStep, PageStep
<1> QED  BY <1>1, <1>14 DEF IInv

-----------------------------------------------------------------------------
(* The refinement.                                                         *)

\* A post on the wire belongs to a message whose run was started, in the
\* conversation it was written in; what is typed has a conversation.
WireInv ==
  /\ \A m \in Elems(typed) : to[m] \in Convs
  /\ \A m \in wire : run[m] # "none" /\ to[m] \in Convs

\* A step that posts nothing that was posted before: the messages new on the
\* wire are those whose run it starts.
Starts ==
  /\ wire \subseteq wire'
  /\ \A n \in Messages :
       IF n \in wire' \ wire THEN run[n] = "none" /\ run'[n] # "none"
                             ELSE run'[n] = "none" <=> run[n] = "none"

Spent == {m \in Messages : run[m] # "none" /\ m \notin wire}

\* Starting a run gives no turn yet.
LEMMA TurnsStutter ==
  ASSUME UNCHANGED gen, Starts
  PROVE  UNCHANGED Turns!vars
<1>1. ASSUME NEW n \in Messages
      PROVE  n \in Spent' <=> n \in Spent
  <2>1. CASE n \in wire' \ wire
    BY <2>1 DEF Starts, Spent
  <2>2. CASE n \notin wire' \ wire
    <3>1. n \in wire' <=> n \in wire
      BY <2>2 DEF Starts
    <3> QED  BY <2>2, <3>1 DEF Starts, Spent
  <2> QED  BY <2>1, <2>2
<1>2. Spent' = Spent
  BY <1>1 DEF Spent
<1> QED  BY <1>2 DEF Turns!vars, Spent

LEMMA QuietStarts ==
  ASSUME wire' = wire,
         \A n \in Messages : run'[n] = "none" <=> run[n] = "none"
  PROVE  Starts
BY DEF Starts

\* Finish posts the head of the queue, which was not posted before.
LEMMA FinishStarts ==
  ASSUME IInv, WireInv, NEW m \in Messages, run[m] # "none", Finish(m)
  PROVE  /\ Starts /\ to' = to
         /\ \A n \in wire' : n \in wire \/ n \in Elems(typed)
<1>1. /\ run \in [Messages -> Runs] /\ queue \in Seq(Messages)
      /\ wire \subseteq Messages /\ QueueInv /\ RunInv
  BY DEF IInv, TypeOK
<1>2. CASE queue = <<>>
  <2>1. run' = [run EXCEPT ![m] = "over"] /\ UNCHANGED <<wire, to>>
    BY <1>2 DEF Finish
  <2> QED  BY <1>1, <2>1, QuietStarts
<1>3. CASE queue # <<>>
  <2> PICK h : h = Head(queue)
    OBVIOUS
  <2>1. /\ run' = [[run EXCEPT ![m] = "over"] EXCEPT ![h] = "posting"]
        /\ wire' = wire \cup {h} /\ to' = to
    BY <1>3 DEF Finish, StartRun
  <2>2. h \in Messages /\ h \in Elems(queue)
    BY <1>1, <1>3, TailFacts
  <2>3. run[h] = "none" /\ h \in Elems(typed)
    BY <1>1, <2>2 DEF RunInv, QueueInv
  <2>4. /\ run'[h] # "none"
        /\ \A n \in Messages \ {h} : run'[n] = "none" <=> run[n] = "none"
    BY <1>1, <2>1, <2>2
  <2>5. wire' \ wire = {h}
    BY <2>1, <2>3 DEF WireInv
  <2> QED  BY <2>1, <2>3, <2>4, <2>5 DEF Starts
<1> QED  BY <1>2, <1>3

LEMMA SendNowStarts ==
  ASSUME IInv, WireInv, NEW m \in Messages, SendNow(m)
  PROVE  /\ Starts /\ UNCHANGED gen
         /\ typed' = Append(typed, m) /\ wire' = wire \cup {m}
         /\ to' = [to EXCEPT ![m] = current] /\ current \in Convs
<1>1. /\ run[m] = "none" /\ current \in Convs /\ UNCHANGED gen
      /\ run' = [run EXCEPT ![m] = "posting"] /\ wire' = wire \cup {m}
      /\ typed' = Append(typed, m) /\ to' = [to EXCEPT ![m] = current]
  BY DEF IInv, TypeOK, SendNow, CanSend, StartRun
<1>2. wire' \ wire = {m}
  BY <1>1 DEF WireInv
<1>3. /\ run'[m] # "none"
      /\ \A n \in Messages \ {m} : run'[n] = run[n]
  BY <1>1 DEF IInv, TypeOK
<1> QED  BY <1>1, <1>2, <1>3 DEF Starts

\* The steps of a page that give no message its turn and take none away.
LEMMA PageStarts ==
  ASSUME IInv, WireInv,
         \/ \E m \in Messages : \/ Enqueue(m) \/ StreamEnds(m) \/ StreamBreaks(m)
                                \/ Reloaded(m) \/ RunCloses(m)
         \/ PressStop \/ PollFires
         \/ \E c \in Convs : Select(c)
         \/ \E l \in loads : SelectAnswered(l) \/ PollAnswered(l) \/ LoadFails(l)
         \/ \E s \in stops : StopHandled(s)
         \/ UNCHANGED vars
  PROVE  /\ Starts /\ UNCHANGED gen
         /\ \A n \in wire' : n \in wire \/ n \in Elems(typed)
         /\ \/ UNCHANGED <<typed, to>>
            \/ \E m \in Messages : Enqueue(m)
<1> DEFINE Goal == /\ Starts /\ UNCHANGED gen
                   /\ \A n \in wire' : n \in wire \/ n \in Elems(typed)
                   /\ \/ UNCHANGED <<typed, to>>
                      \/ \E m \in Messages : Enqueue(m)
<1> USE DEF serverVars, viewVars, sendVars
<1>1. run \in [Messages -> Runs]
  BY DEF IInv, TypeOK
<1>2. ASSUME UNCHANGED <<gen, wire, run, typed, to>>
      PROVE  Goal
  BY <1>2, QuietStarts
<1>3. ASSUME NEW m \in Messages, RunFails(m), run[m] # "none",
             UNCHANGED <<gen, wire>>
      PROVE  Goal
  <2>1. run' = [run EXCEPT ![m] = "closing"] /\ UNCHANGED <<typed, to>>
    BY <1>3 DEF RunFails
  <2> QED  BY <1>1, <1>3, <2>1, QuietStarts
<1>4. ASSUME NEW m \in Messages, Enqueue(m)
      PROVE  Goal
  <2>1. UNCHANGED <<gen, wire, run>>
    BY <1>4 DEF Enqueue
  <2> QED  BY <1>4, <2>1, QuietStarts
<1>5. ASSUME NEW m \in Messages, StreamEnds(m)
      PROVE  Goal
  <2>1. run[m] # "none" /\ UNCHANGED <<gen, typed>>
    BY <1>5 DEF StreamEnds
  <2>2. CASE Finish(m)
    BY <2>1, <2>2, FinishStarts
  <2>3. CASE run' = [run EXCEPT ![m] = "reloading"] /\ UNCHANGED <<to, wire>>
    BY <1>1, <2>1, <2>3, QuietStarts
  <2> QED  BY <1>5, <2>2, <2>3 DEF StreamEnds
<1>6. ASSUME NEW m \in Messages, StreamBreaks(m)
      PROVE  Goal
  BY <1>3, <1>6 DEF StreamBreaks
<1>7. ASSUME NEW m \in Messages, Reloaded(m)
      PROVE  Goal
  <2>1. run[m] # "none" /\ UNCHANGED <<gen, wire>>
    BY <1>7 DEF Reloaded
  <2>2. CASE RunFails(m)
    BY <1>3, <2>1, <2>2
  <2>3. CASE run' = [run EXCEPT ![m] = "closing"] /\ UNCHANGED <<to, typed>>
    BY <1>1, <2>1, <2>3, QuietStarts
  <2> QED  BY <1>7, <2>2, <2>3 DEF Reloaded
<1>8. ASSUME NEW m \in Messages, RunCloses(m)
      PROVE  Goal
  <2>1. run[m] # "none" /\ Finish(m) /\ UNCHANGED <<gen, typed>>
    BY <1>8 DEF RunCloses
  <2> QED  BY <2>1, FinishStarts
<1>9. ASSUME \/ PressStop \/ PollFires
             \/ \E c \in Convs : Select(c)
             \/ \E l \in loads : SelectAnswered(l) \/ PollAnswered(l) \/ LoadFails(l)
             \/ \E s \in stops : StopHandled(s)
      PROVE  Goal
  BY <1>2, <1>9 DEF PressStop, PollFires, Select, SelectAnswered, PollAnswered,
                    LoadFails, StopHandled
<1>10. ASSUME UNCHANGED vars
       PROVE  Goal
  BY <1>2, <1>10 DEF vars
<1> HIDE DEF Goal
<1>11. Goal
  BY <1>4, <1>5, <1>6, <1>7, <1>8, <1>9, <1>10
<1> QED  BY <1>11 DEF Goal

\* The steps that take posts off the wire.
LEMMA HandledFacts ==
  ASSUME IInv, WireInv, NEW m \in Messages,
         Accepted(m) \/ Refused(m) \/ PostFails(m)
  PROVE  /\ \A n \in Messages : run'[n] = "none" <=> run[n] = "none"
         /\ wire' = wire \/ (m \in wire /\ wire' = wire \ {m})
         /\ UNCHANGED <<typed, to>>
<1> USE DEF serverVars, viewVars, sendVars
<1>1. run \in [Messages -> Runs]
  BY DEF IInv, TypeOK
<1>2. CASE Accepted(m)
  BY <1>1, <1>2 DEF Accepted
<1>3. ASSUME RunFails(m), run[m] = "posting"
      PROVE  /\ \A n \in Messages : run'[n] = "none" <=> run[n] = "none"
             /\ UNCHANGED <<typed, to>>
  BY <1>1, <1>3 DEF RunFails
<1>4. CASE Refused(m)
  <2>1. m \in wire /\ wire' = wire \ {m}
    BY <1>4 DEF Refused
  <2>2. CASE run[m] = "posting"
    BY <1>3, <1>4, <2>1, <2>2 DEF Refused
  <2>3. CASE run[m] # "posting"
    <3>1. UNCHANGED <<run, typed, to>>
      BY <1>4, <2>3 DEF Refused
    <3> QED  BY <2>1, <3>1
  <2> QED  BY <2>2, <2>3
<1>5. CASE PostFails(m)
  <2>1. run[m] = "posting" /\ RunFails(m) /\ wire' \in {wire, wire \ {m}}
    BY <1>5 DEF PostFails
  <2>2. wire' = wire \/ (m \in wire /\ wire' = wire \ {m})
    BY <2>1
  <2> QED  BY <1>3, <2>1, <2>2
<1> QED  BY <1>2, <1>4, <1>5

LEMMA WireStep == IInv /\ WireInv /\ [Next]_vars => WireInv'
<1> SUFFICES ASSUME IInv, WireInv, [Next]_vars PROVE WireInv'
  OBVIOUS
<1>0. /\ to \in [Messages -> Convs \cup {None}] /\ wire \subseteq Messages
      /\ typed \in Seq(Messages) /\ Elems(typed) \subseteq Messages
  BY ElemsType DEF IInv, TypeOK
<1>1. ASSUME Starts, UNCHANGED <<typed, to>>,
             \A n \in wire' : n \in wire \/ n \in Elems(typed)
      PROVE  WireInv'
  <2>1. Elems(typed') = Elems(typed)
    BY <1>1
  <2>2. ASSUME NEW n \in wire'
        PROVE  run'[n] # "none" /\ to'[n] \in Convs
    BY <1>0, <1>1, <2>2 DEF Starts, WireInv
  <2> QED  BY <1>1, <2>1, <2>2 DEF WireInv
<1>2. ASSUME wire' \subseteq wire, UNCHANGED to,
             \A n \in Messages : run[n] # "none" => run'[n] # "none",
             Elems(typed') \subseteq Elems(typed)
      PROVE  WireInv'
  BY <1>0, <1>2 DEF WireInv
<1>3. ASSUME NEW m \in Messages, SendNow(m)
      PROVE  WireInv'
  <2>1. /\ Starts /\ typed' = Append(typed, m) /\ wire' = wire \cup {m}
        /\ to' = [to EXCEPT ![m] = current] /\ current \in Convs
    BY <1>3, SendNowStarts
  <2>2. Elems(typed') = Elems(typed) \cup {m}
    BY <1>0, <2>1, AppendFacts
  <2>3. \A n \in Messages : to[n] \in Convs \/ n = m => to'[n] \in Convs
    BY <1>0, <2>1
  <2>4. \A n \in wire' : run'[n] # "none"
    BY <1>0, <2>1 DEF Starts, WireInv
  <2> QED  BY <1>0, <2>1, <2>2, <2>3, <2>4 DEF WireInv
<1>4. ASSUME NEW m \in Messages, Enqueue(m)
      PROVE  WireInv'
  <2>1. /\ typed' = Append(typed, m) /\ UNCHANGED <<wire, run>>
        /\ to' = [to EXCEPT ![m] = current] /\ current \in Convs
    BY <1>4 DEF Enqueue, CanSend, serverVars, IInv, TypeOK
  <2>2. Elems(typed') = Elems(typed) \cup {m}
    BY <1>0, <2>1, AppendFacts
  <2>3. \A n \in Messages : to[n] \in Convs \/ n = m => to'[n] \in Convs
    BY <1>0, <2>1
  <2> QED  BY <1>0, <2>1, <2>2, <2>3 DEF WireInv
<1>5. ASSUME NEW m \in Messages, Accepted(m) \/ Refused(m) \/ PostFails(m)
      PROVE  WireInv'
  <2>1. /\ \A n \in Messages : run'[n] = "none" <=> run[n] = "none"
        /\ wire' \subseteq wire /\ UNCHANGED <<typed, to>>
    BY <1>5, HandledFacts
  <2> QED  BY <1>2, <2>1
<1>6. ASSUME NEW c \in Convs, GenerationEnds(c)
      PROVE  WireInv'
  BY <1>2, <1>6 DEF GenerationEnds, sendVars
<1>7. CASE ReloadPage
  <2>1. /\ typed' = <<>> /\ UNCHANGED <<wire, to>>
        /\ \A n \in Messages : run[n] # "none" => run'[n] # "none"
    BY <1>7 DEF ReloadPage, serverVars
  <2> QED  BY <1>2, <2>1, EmptyFacts
<1>8. ASSUME \/ \E m \in Messages : \/ StreamEnds(m) \/ StreamBreaks(m)
                                    \/ Reloaded(m) \/ RunCloses(m)
             \/ PressStop \/ PollFires
             \/ \E c \in Convs : Select(c)
             \/ \E l \in loads : SelectAnswered(l) \/ PollAnswered(l) \/ LoadFails(l)
             \/ \E s \in stops : StopHandled(s)
             \/ UNCHANGED vars
      PROVE  WireInv'
  BY <1>1, <1>4, <1>8, PageStarts
<1> QED
  BY <1>3, <1>4, <1>5, <1>6, <1>7, <1>8 DEF Next, ServerStep, PageStep

LEMMA TurnsInit == Init => Turns!Init /\ WireInv
BY EmptyFacts DEF Init, Turns!Init, WireInv

LEMMA TurnsBegin ==
  ASSUME IInv, WireInv, NEW m \in Messages, Accepted(m)
  PROVE  Turns!Begin(to[m], m) /\ to[m] \in Convs
<1>1. /\ m \in wire /\ gen[to[m]] = None /\ wire' = wire \ {m}
      /\ gen' = [gen EXCEPT ![to[m]] = m]
  BY DEF Accepted
<1>2. run[m] # "none" /\ to[m] \in Convs
  BY <1>1 DEF WireInv
<1>3. Spent' = Spent \cup {m}
  BY <1>1, <1>2, HandledFacts DEF Spent
<1>4. m \notin Spent
  BY <1>1 DEF Spent
<1> QED  BY <1>1, <1>2, <1>3, <1>4 DEF Turns!Begin, Spent

\* A post that is refused or lost is not answered later.
LEMMA TurnsDrop ==
  ASSUME IInv, WireInv, NEW m \in Messages, Refused(m) \/ PostFails(m)
  PROVE  Turns!Drop({m}) \/ UNCHANGED Turns!vars
<1>1. /\ \A n \in Messages : run'[n] = "none" <=> run[n] = "none"
      /\ wire' = wire \/ (m \in wire /\ wire' = wire \ {m})
  BY HandledFacts
<1>2. UNCHANGED gen
  BY DEF Refused, PostFails
<1>3. CASE wire' = wire
  BY <1>1, <1>2, <1>3, QuietStarts, TurnsStutter
<1>4. CASE m \in wire /\ wire' = wire \ {m}
  <2>1. run[m] # "none"
    BY <1>4 DEF WireInv
  <2>2. Spent' = Spent \cup {m} /\ m \notin Spent
    BY <1>1, <1>4, <2>1 DEF Spent
  <2> QED  BY <1>2, <2>2 DEF Turns!Drop, Spent
<1> QED  BY <1>1, <1>3, <1>4

\* A reload drops the queue; what is on the wire can still be answered.
LEMMA TurnsReload ==
  ASSUME IInv, WireInv, ReloadPage
  PROVE  \E M \in SUBSET Messages : Turns!Drop(M)
<1> PICK Lost : Lost = {m \in Elems(typed) : run[m] = "none"}
  OBVIOUS
<1>1. /\ UNCHANGED <<gen, wire>> /\ Elems(typed) \subseteq Messages
      /\ \A m \in Messages :
           run'[m] = IF m \in Elems(typed) THEN "over" ELSE run[m]
  BY ElemsType DEF ReloadPage, serverVars, IInv, TypeOK
<1>2. ASSUME NEW m \in Messages
      PROVE  m \in Spent' <=> m \in Spent \cup Lost
  <2>1. run[m] = "none" => m \notin wire
    BY DEF WireInv
  <2> QED  BY <1>1, <2>1 DEF Spent
<1>3. Spent' = Spent \cup Lost
  BY <1>1, <1>2 DEF Spent
<1>4. Lost \cap Spent = {}
  BY DEF Spent
<1>5. Turns!Drop(Lost)
  BY <1>1, <1>3, <1>4 DEF Turns!Drop, Spent
<1> QED  BY <1>1, <1>5

\* Every step of a page, the server or a request is a step of
\* ConversationTurns or a stutter.
LEMMA TurnsStep == IInv /\ WireInv /\ [Next]_vars => [Turns!Next]_(Turns!vars)
<1> SUFFICES ASSUME IInv, WireInv, [Next]_vars
             PROVE  [Turns!Next]_(Turns!vars)
  OBVIOUS
<1>1. ASSUME NEW m \in Messages, SendNow(m)
      PROVE  UNCHANGED Turns!vars
  BY <1>1, SendNowStarts, TurnsStutter
<1>2. ASSUME NEW m \in Messages, Accepted(m)
      PROVE  Turns!Next
  BY <1>2, TurnsBegin DEF Turns!Next
<1>3. ASSUME NEW m \in Messages, Refused(m) \/ PostFails(m)
      PROVE  [Turns!Next]_(Turns!vars)
  <2>1. {m} \in SUBSET Messages
    OBVIOUS
  <2> QED  BY <1>3, <2>1, TurnsDrop DEF Turns!Next
<1>4. ASSUME NEW c \in Convs, GenerationEnds(c)
      PROVE  Turns!Next
  <2>1. gen[c] # None /\ gen' = [gen EXCEPT ![c] = None]
        /\ UNCHANGED <<wire, run>>
    BY <1>4 DEF GenerationEnds, sendVars
  <2>2. gen' = [d \in Convs |-> IF d \in {c} THEN None ELSE gen[d]]
    BY <2>1 DEF IInv, TypeOK
  <2>3. Spent' = Spent
    BY <2>1 DEF Spent
  <2>4. Turns!End({c}) /\ {c} \in SUBSET Convs
    BY <2>1, <2>2, <2>3 DEF Turns!End, Spent
  <2> QED  BY <2>4 DEF Turns!Next
<1>5. CASE ReloadPage
  BY <1>5, TurnsReload DEF Turns!Next
<1>6. ASSUME \/ \E m \in Messages : \/ Enqueue(m) \/ StreamEnds(m) \/ StreamBreaks(m)
                                    \/ Reloaded(m) \/ RunCloses(m)
             \/ PressStop \/ PollFires
             \/ \E c \in Convs : Select(c)
             \/ \E l \in loads : SelectAnswered(l) \/ PollAnswered(l) \/ LoadFails(l)
             \/ \E s \in stops : StopHandled(s)
             \/ UNCHANGED vars
      PROVE  UNCHANGED Turns!vars
  BY <1>6, PageStarts, TurnsStutter
<1> QED
  BY <1>1, <1>2, <1>3, <1>4, <1>5, <1>6 DEF Next, ServerStep, PageStep

-----------------------------------------------------------------------------
(* Theorems.                                                               *)

\* The whole inductive invariant.
THEOREM ChatInvariant == Spec => []IInv
<1> QED  BY InitInv, InvStep, PTL DEF Spec

\* Every variable of the page and the server keeps its type; a stop never
\* counts more posted messages than there are.
THEOREM ChatTypeCorrect == Spec => []TypeOK
<1>1. IInv => TypeOK
  BY DEF IInv
<1> QED  BY <1>1, ChatInvariant, PTL

\* state.sending is set exactly while one runMessage is pending, whatever the
\* user types, selects or stops during its awaits.
THEOREM ChatSingleRun == Spec => []SingleRun
<1>1. IInv => SingleRun
  BY DEF IInv
<1> QED  BY <1>1, ChatInvariant, PTL

\* No message is posted twice by a page, nor posted while it still waits in the
\* queue: drainMessageQueue and sendMessage never both take it.
THEOREM ChatSentOnce == Spec => []SentOnce
<1>1. IInv => SentOnce
  BY DEF IInv, QueueInv, Distinct, SentOnce
<1> QED  BY <1>1, ChatInvariant, PTL

\* When no message runs, only messages queued while the page watched a
\* generation it had recovered are left in the queue.
THEOREM ChatIdleDrained == Spec => []IdleQueueDrained
<1>1. IInv => IdleQueueDrained
  BY DEF IInv
<1> QED  BY <1>1, ChatInvariant, PTL

\* Messages are posted in the order they were typed, except that those queued
\* while watching can be overtaken.
THEOREM ChatOrder == Spec => []OvertakenOnlyWatching
<1>1. IInv => OvertakenOnlyWatching
  BY DEF IInv
<1> QED  BY <1>1, ChatInvariant, PTL

\* The pages, what they have on its way and the server they see implement
\* ConversationTurns, for any conversations and messages: no failed run, queue
\* drained at once, reload or late post gives a message a second turn or a
\* conversation two answers at a time.
THEOREM ChatImplementsTurns == Spec => ImplementsTurns
<1>1. Init => Turns!Init /\ WireInv
  BY TurnsInit
<1>2. IInv /\ WireInv /\ [Next]_vars => WireInv'
  BY WireStep
<1>3. IInv /\ WireInv /\ [Next]_vars => [Turns!Next]_(Turns!vars)
  BY TurnsStep
<1> QED  BY <1>1, <1>2, <1>3, ChatInvariant, PTL
         DEF Spec, ImplementsTurns, Turns!Spec
===============================================================================
