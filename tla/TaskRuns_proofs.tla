--------------------------- MODULE TaskRuns_proofs ---------------------------
(***************************************************************************)
(* The safety invariants of TaskRuns, and its two action properties on     *)
(* limits and kills, hold for every set of tasks, every set of definitions *)
(* and every number of runs.                                               *)
(***************************************************************************)
EXTENDS TaskRuns, SequenceTheorems, FiniteSetTheorems, NaturalsInduction, WellFoundedInduction,
        TLAPS

-----------------------------------------------------------------------------
(* What the three operations on the lists of runs do to them *)

\* Append adds its element at the end (startRun, evaluateConcurrency).
LEMMA AppendFacts ==
    ASSUME NEW S, NEW s \in Seq(S), NEW e \in S
    PROVE  /\ Append(s, e) \in Seq(S)
           /\ Len(Append(s, e)) = Len(s) + 1
           /\ \A i \in 1 .. Len(s) : Append(s, e)[i] = s[i]
           /\ Append(s, e)[Len(s) + 1] = e
  OBVIOUS

\* Tail drops the first element (queueProcessLoop).
LEMMA TailFacts ==
    ASSUME NEW S, NEW s \in Seq(S), s # <<>>
    PROVE  /\ Len(s) \in Nat \ {0}
           /\ Head(s) = s[1] /\ Head(s) \in S
           /\ Tail(s) \in Seq(S)
           /\ Len(Tail(s)) = Len(s) - 1
           /\ \A i \in 1 .. Len(s) - 1 : Tail(s)[i] = s[i + 1]
  BY HeadTailProperties, EmptySeq

\* RemoveAt drops the element at its place and shifts the later ones (retireRun).
LEMMA RemoveAtFacts ==
    ASSUME NEW S, NEW s \in Seq(S), NEW i \in 1 .. Len(s)
    PROVE  /\ RemoveAt(s, i) \in Seq(S)
           /\ Len(RemoveAt(s, i)) = Len(s) - 1
           /\ \A j \in 1 .. Len(s) - 1 :
                RemoveAt(s, i)[j] = IF j < i THEN s[j] ELSE s[j + 1]
<1> DEFINE a == SubSeq(s, 1, i - 1)
           b == SubSeq(s, i + 1, Len(s))
<1>0. Len(s) \in Nat /\ i \in Nat /\ \A k \in 1 .. Len(s) : s[k] \in S
  BY LenProperties, ElementOfSeq
<1>1. /\ a \in Seq(S) /\ Len(a) = i - 1
      /\ \A j \in 1 .. i - 1 : a[j] = s[j]
  BY <1>0, SubSeqProperties, Z3
<1>2. /\ b \in Seq(S) /\ Len(b) = Len(s) - i
      /\ \A j \in 1 .. Len(s) - i : b[j] = s[i + j]
  BY <1>0, SubSeqProperties, Z3
<1>3. /\ a \o b \in Seq(S)
      /\ Len(a \o b) = Len(a) + Len(b)
      /\ \A j \in 1 .. Len(a) + Len(b) : (a \o b)[j] = IF j <= Len(a) THEN a[j] ELSE b[j - Len(a)]
  BY <1>1, <1>2, ConcatProperties
<1>4. RemoveAt(s, i) = a \o b
  BY DEF RemoveAt
<1>. HIDE DEF a, b
<1>5. RemoveAt(s, i) \in Seq(S) /\ Len(RemoveAt(s, i)) = Len(s) - 1
  <2>1. Len(a) = i - 1 /\ Len(b) = Len(s) - i /\ Len(a \o b) = Len(a) + Len(b)
    BY <1>1, <1>2, <1>3
  <2>2. Len(a \o b) = Len(s) - 1
    BY <1>0, <2>1
  <2>3. a \o b \in Seq(S)
    BY <1>3
  <2>. QED BY <1>4, <2>2, <2>3
<1>6. ASSUME NEW j \in 1 .. Len(s) - 1
      PROVE  RemoveAt(s, i)[j] = IF j < i THEN s[j] ELSE s[j + 1]
  <2>1. (a \o b)[j] = IF j <= Len(a) THEN a[j] ELSE b[j - Len(a)]
    BY <1>0, <1>1, <1>2, <1>3
  <2>2. CASE j < i
    BY <1>0, <1>1, <1>4, <2>1, <2>2
  <2>3. CASE ~(j < i)
    <3>1. j - Len(a) \in 1 .. Len(s) - i /\ i + (j - Len(a)) = j + 1
      BY <1>0, <1>1, <2>3
    <3>2. b[j - Len(a)] = s[j + 1]
      BY <1>2, <3>1
    <3>. QED BY <1>0, <1>1, <1>4, <2>1, <2>3, <3>2
  <2>. QED BY <2>2, <2>3
<1>. QED BY <1>5, <1>6

\* ToSet of the three results.
LEMMA ToSetIndex ==
    ASSUME NEW S, NEW s \in Seq(S)
    PROVE  /\ ToSet(s) \subseteq S
           /\ \A x : x \in ToSet(s) <=> \E i \in 1 .. Len(s) : x = s[i]
           /\ s = <<>> <=> ToSet(s) = {}
  BY LenProperties, ElementOfSeq, EmptySeq DEF ToSet

LEMMA AppendSet ==
    ASSUME NEW S, NEW s \in Seq(S), NEW e \in S
    PROVE  ToSet(Append(s, e)) = ToSet(s) \cup {e}
<1> DEFINE u == Append(s, e)
<1>1. /\ Len(s) \in Nat
      /\ u \in Seq(S) /\ Len(u) = Len(s) + 1
      /\ \A i \in 1 .. Len(s) : u[i] = s[i]
      /\ u[Len(s) + 1] = e
  BY AppendFacts, LenProperties
<1>. HIDE DEF u
<1>2. \A x : x \in ToSet(u) <=> \E i \in 1 .. Len(s) + 1 : x = u[i]
  BY <1>1, ToSetIndex
<1>3. \A x : x \in ToSet(s) <=> \E i \in 1 .. Len(s) : x = s[i]
  BY ToSetIndex
<1>4. ASSUME NEW x PROVE x \in ToSet(u) <=> x \in ToSet(s) \/ x = e
  BY <1>1, <1>2, <1>3
<1>. QED BY <1>4 DEF u

LEMMA TailSet ==
    ASSUME NEW S, NEW s \in Seq(S), s # <<>>
    PROVE  ToSet(s) = {Head(s)} \cup ToSet(Tail(s))
<1> DEFINE u == Tail(s)
<1>1. /\ Len(s) \in Nat \ {0} /\ Head(s) = s[1]
      /\ u \in Seq(S) /\ Len(u) = Len(s) - 1
      /\ \A i \in 1 .. Len(s) - 1 : u[i] = s[i + 1]
  BY TailFacts
<1>. HIDE DEF u
<1>2. \A x : x \in ToSet(u) <=> \E i \in 1 .. Len(s) - 1 : x = u[i]
  BY <1>1, ToSetIndex
<1>3. \A x : x \in ToSet(s) <=> \E i \in 1 .. Len(s) : x = s[i]
  BY ToSetIndex
<1>4. ASSUME NEW x PROVE x \in ToSet(s) <=> x = Head(s) \/ x \in ToSet(u)
  <2>1. \A i \in 1 .. Len(s) : i # 1 => i - 1 \in 1 .. Len(s) - 1 /\ s[i] = u[i - 1]
    BY <1>1
  <2>. QED BY <1>1, <1>2, <1>3, <2>1
<1>. QED BY <1>4 DEF u

\* In an ascending list every element occurs once.
LEMMA RemoveAtSet ==
    ASSUME NEW s \in Seq(RunIds), Ascending(s), NEW i \in 1 .. Len(s)
    PROVE  ToSet(RemoveAt(s, i)) = ToSet(s) \ {s[i]}
<1> DEFINE u == RemoveAt(s, i)
<1>1. /\ Len(s) \in Nat /\ \A j \in 1 .. Len(s) : s[j] \in Int
      /\ u \in Seq(RunIds) /\ Len(u) = Len(s) - 1
      /\ \A j \in 1 .. Len(s) - 1 : u[j] = IF j < i THEN s[j] ELSE s[j + 1]
  BY LenProperties, ElementOfSeq, RemoveAtFacts, TaskRunsAssumption DEF RunIds
<1>. HIDE DEF u
<1>2. \A x : x \in ToSet(u) <=> \E j \in 1 .. Len(s) - 1 : x = u[j]
  BY <1>1, ToSetIndex
<1>3. \A x : x \in ToSet(s) <=> \E j \in 1 .. Len(s) : x = s[j]
  BY ToSetIndex
<1>4. \A j \in 1 .. Len(s) : j # i => s[j] # s[i]
  BY <1>1 DEF Ascending
<1>5. ASSUME NEW x PROVE x \in ToSet(u) <=> x \in ToSet(s) /\ x # s[i]
  <2>1. ASSUME NEW k \in 1 .. Len(s), k # i
        PROVE  \E j \in 1 .. Len(s) - 1 : u[j] = s[k]
    <3>1. CASE k < i
      <4>1. k \in 1 .. Len(s) - 1
        BY <1>1, <3>1
      <4>2. u[k] = s[k]
        BY <1>1, <3>1, <4>1
      <4>. QED BY <4>1, <4>2
    <3>2. CASE k > i
      <4>1. k - 1 \in 1 .. Len(s) - 1 /\ ~(k - 1 < i) /\ (k - 1) + 1 = k
        BY <1>1, <3>2
      <4>. QED BY <1>1, <4>1
    <3>. QED BY <1>1, <2>1, <3>1, <3>2
  <2>2. ASSUME NEW j \in 1 .. Len(s) - 1
        PROVE  \E k \in 1 .. Len(s) : k # i /\ u[j] = s[k]
    BY <1>1
  <2>3. x \in ToSet(s) /\ x # s[i] => x \in ToSet(u)
    BY <1>2, <1>3, <2>1
  <2>4. x \in ToSet(u) => x \in ToSet(s) /\ x # s[i]
    BY <1>2, <1>3, <1>4, <2>2
  <2>. QED BY <2>3, <2>4
<1>. QED BY <1>5 DEF u

\* The lists stay ascending.
LEMMA AscendingAppend ==
    ASSUME NEW s \in Seq(RunIds), Ascending(s), NEW e \in RunIds, \A x \in ToSet(s) : x < e
    PROVE  Ascending(Append(s, e))
<1>1. Len(s) \in Nat /\ \A j \in 1 .. Len(s) : s[j] < e
  BY LenProperties, ToSetIndex
<1>2. /\ Len(Append(s, e)) = Len(s) + 1
      /\ \A i \in 1 .. Len(s) : Append(s, e)[i] = s[i]
      /\ Append(s, e)[Len(s) + 1] = e
  BY AppendFacts
<1>. QED BY <1>1, <1>2 DEF Ascending

LEMMA AscendingTail ==
    ASSUME NEW s \in Seq(RunIds), Ascending(s), s # <<>>
    PROVE  Ascending(Tail(s)) /\ \A x \in ToSet(Tail(s)) : Head(s) < x
<1>1. /\ Len(s) \in Nat \ {0} /\ Head(s) = s[1]
      /\ Tail(s) \in Seq(RunIds) /\ Len(Tail(s)) = Len(s) - 1
      /\ \A i \in 1 .. Len(s) - 1 : Tail(s)[i] = s[i + 1]
  BY TailFacts
<1>2. Ascending(Tail(s))
  BY <1>1 DEF Ascending
<1>3. \A x \in ToSet(Tail(s)) : \E i \in 1 .. Len(s) - 1 : x = s[i + 1]
  <2>1. \A x : x \in ToSet(Tail(s)) <=> \E i \in 1 .. Len(Tail(s)) : x = Tail(s)[i]
    BY <1>1, ToSetIndex
  <2>. QED BY <1>1, <2>1
<1>4. \A i \in 1 .. Len(s) - 1 : s[1] < s[i + 1]
  BY <1>1 DEF Ascending
<1>. QED BY <1>1, <1>2, <1>3, <1>4

LEMMA AscendingRemoveAt ==
    ASSUME NEW s \in Seq(RunIds), Ascending(s), NEW i \in 1 .. Len(s)
    PROVE  Ascending(RemoveAt(s, i))
<1> DEFINE u == RemoveAt(s, i)
<1>1. /\ Len(s) \in Nat /\ Len(u) = Len(s) - 1
      /\ \A j \in 1 .. Len(s) - 1 : u[j] = IF j < i THEN s[j] ELSE s[j + 1]
  BY LenProperties, RemoveAtFacts
<1>. HIDE DEF u
<1>2. ASSUME NEW j \in 1 .. Len(s) - 1, NEW k \in 1 .. Len(s) - 1, j < k
      PROVE  u[j] < u[k]
  <2> DEFINE a == IF j < i THEN j ELSE j + 1
             b == IF k < i THEN k ELSE k + 1
  <2>1. a \in 1 .. Len(s) /\ b \in 1 .. Len(s) /\ a < b
    BY <1>1, <1>2
  <2>2. u[j] = s[a] /\ u[k] = s[b]
    BY <1>1
  <2>. QED BY <2>1, <2>2 DEF Ascending
<1>3. Ascending(u)
  BY <1>1, <1>2 DEF Ascending
<1>. QED BY <1>3 DEF u

-----------------------------------------------------------------------------
(* Type correctness *)

\* What the constants' assumption says of a definition and of run ids.
LEMMA ConstantFacts ==
    /\ RunIds \subseteq Nat /\ RunIds \subseteq 0 .. MaxRuns /\ MaxRuns \in Nat
    /\ \A d \in Defs : d.limit \in Nat \ {0} /\ d.retries \in Nat /\ d.maxQueued \in Nat
  BY TaskRunsAssumption DEF RunIds, DefType

\* Admit keeps the types.
LEMMA AdmitType ==
    ASSUME TypeOK, NEW t \in Tasks, NEW r \in RunIds, NEW st \in [RunIds -> Stages],
           Admit(t, r, st)
    PROVE  /\ active' \in [Tasks -> Seq(RunIds)] /\ queue' \in [Tasks -> Seq(RunIds)]
           /\ loop' \in [Tasks -> {"none", "ready", "holding", "parked"}]
           /\ stage' \in [RunIds -> Stages] /\ budget' \in [RunIds -> Nat]
           /\ ctx' \in [RunIds -> {"live", "cancelled", "timedout"}] /\ latched' \subseteq RunIds
<1>. USE DEF TypeOK, Stages
<1>1. ASSUME StartRun(t, r, st)
      PROVE  /\ active' \in [Tasks -> Seq(RunIds)]
             /\ stage' \in [RunIds -> Stages] /\ budget' \in [RunIds -> Nat]
  <2>1. Append(active[t], r) \in Seq(RunIds)
    BY AppendFacts
  <2>. QED BY <1>1, <2>1, ConstantFacts DEF StartRun
<1>2. Append(queue[t], r) \in Seq(RunIds)
  BY AppendFacts
<1>3. Woken(t) \in {"none", "ready", "holding", "parked"}
  BY DEF Woken
<1>4. Victims(t) \subseteq RunIds
  <2>1. \A i \in Live(t) : active[t][i] \in RunIds
    BY ElementOfSeq DEF Live
  <2>2. SUFFICES ASSUME NEW x \in Victims(t) PROVE x \in RunIds
    OBVIOUS
  <2>3. PICK i \in Live(t) : x = active[t][i]
    BY <2>2, Zenon DEF Victims
  <2>. QED BY <2>1, <2>3
<1>5. ASSUME NEW S PROVE Cancelled(S) \in [RunIds -> {"live", "cancelled", "timedout"}]
  BY DEF Cancelled
<1>6. CASE FreeSlot(t) /\ ~QueuePending(t)
  BY <1>1, <1>6 DEF Admit
<1>7. CASE ~(FreeSlot(t) /\ ~QueuePending(t))
  <2>1. CASE Refuse(r, st)
    BY <2>1 DEF Refuse
  <2>2. CASE EnterQueue(t, r, st)
    BY <1>2, <1>3, <2>2 DEF EnterQueue
  <2>3. CASE /\ StartRun(t, r, st)
             /\ latched' = latched \cup Victims(t)
             /\ ctx' = Cancelled(Victims(t))
             /\ UNCHANGED <<queue, loop>>
    BY <1>1, <1>4, <1>5, <2>3
  <2>. QED BY <1>7, <2>1, <2>2, <2>3 DEF Admit
<1>. QED BY <1>6, <1>7

\* A trigger or a retry keeps the types.
LEMMA NewRunType ==
    ASSUME TypeOK, NEW t \in Tasks, NEW o \in {"local", "station"}, NEW n \in Nat,
           NEW st \in [RunIds -> Stages], NewRun(t, o, n, st)
    PROVE  TypeOK'
<1>1. created + 1 \in RunIds
  BY ConstantFacts DEF NewRun, TypeOK, RunIds
<1>2. Admit(t, created + 1, st)
  BY DEF NewRun
<1>3. /\ created' = created + 1 /\ owner' = [owner EXCEPT ![created + 1] = t]
      /\ origin' = [origin EXCEPT ![created + 1] = o]
      /\ attempt' = [attempt EXCEPT ![created + 1] = n]
      /\ UNCHANGED <<place, def, shut>>
  BY DEF NewRun
<1>. QED BY <1>1, <1>2, <1>3, AdmitType, ConstantFacts DEF TypeOK

\* TypeOK is inductive.
LEMMA TypeInit == Init => TypeOK
  BY ConstantFacts, TaskRunsAssumption, EmptySeq DEF Init, TypeOK, Stages

LEMMA TypeStep == TypeOK /\ [Next]_vars => TypeOK'
<1>. SUFFICES ASSUME TypeOK, [Next]_vars PROVE TypeOK'
  OBVIOUS
<1>. USE DEF taskVars, runVars
<1>w. \A t \in Tasks : Woken(t) \in {"none", "ready", "holding", "parked"}
  BY DEF Woken, TypeOK
<1>c. \A S : Cancelled(S) \in [RunIds -> {"live", "cancelled", "timedout"}]
  BY DEF Cancelled, TypeOK
<1>f. ASSUME NEW t \in Tasks, FinalizeQueue(t)
      PROVE  queue' \in [Tasks -> Seq(RunIds)] /\ stage' \in [RunIds -> Stages]
  BY <1>f, EmptySeq DEF FinalizeQueue, EndAll, TypeOK, Stages
<1>1. ASSUME NEW t \in Tasks, NEW o \in Origins, TriggerRunWithOptions(t, o) PROVE TypeOK'
  BY <1>1, NewRunType, TaskRunsAssumption DEF TriggerRunWithOptions, TypeOK
<1>2. ASSUME NEW t \in Tasks, NEW d \in Defs, UpsertTask(t, d) PROVE TypeOK'
  <2>1. Rearmed(t) \in {"none", "ready", "holding", "parked"}
    BY <1>w DEF Rearmed
  <2>2. queue' \in [Tasks -> Seq(RunIds)] /\ stage' \in [RunIds -> Stages]
    BY <1>2, <1>f DEF UpsertTask, TypeOK
  <2>3. loop' \in [Tasks -> {"none", "ready", "holding", "parked"}]
    BY <1>2, <1>w, <2>1 DEF UpsertTask, TypeOK
  <2>. QED BY <1>2, <2>2, <2>3 DEF UpsertTask, TypeOK
<1>3. ASSUME NEW t \in Tasks, RemoveTask(t) PROVE TypeOK'
  BY <1>3, <1>w, <1>f DEF RemoveTask, TypeOK
<1>4. ASSUME NEW t \in Tasks, StopTask(t) PROVE TypeOK'
  BY <1>4, <1>w, <1>c, <1>f DEF StopTask, TypeOK
<1>5. ASSUME NEW r \in RunIds, TerminateRun(r) PROVE TypeOK'
  BY <1>5, <1>c DEF TerminateRun, TypeOK
<1>6. ASSUME NEW t \in Tasks, Loop(t) PROVE TypeOK'
  <2>1. CASE LoopLock(t)   BY <2>1 DEF LoopLock, TypeOK
  <2>2. CASE LoopPark(t)   BY <2>2 DEF LoopPark, TypeOK
  <2>3. CASE LoopExit(t)   BY <2>3 DEF LoopExit, TypeOK
  <2>4. CASE LoopStart(t)
    <3>1. Tail(queue[t]) \in Seq(RunIds) /\ Append(active[t], Head(queue[t])) \in Seq(RunIds)
      BY <2>4, TailFacts, AppendFacts DEF LoopStart, CanStart, TypeOK
    <3>. QED BY <2>4, <3>1, ConstantFacts DEF LoopStart, StartRun, TypeOK, Stages
  <2>. QED BY <1>6, <2>1, <2>2, <2>3, <2>4 DEF Loop
<1>7. ASSUME NEW r \in RunIds, Run(r) PROVE TypeOK'
  <2>1. CASE Expire(r)   BY <2>1 DEF Expire, TypeOK
  <2>2. CASE Exit(r)   BY <2>2 DEF Exit, TypeOK, Stages
  <2>3. CASE Retire(r)
    <3>1. owner[r] \in Tasks
      BY DEF TypeOK
    <3>2. active' \in [Tasks -> Seq(RunIds)]
      BY <2>3, <3>1, RemoveAtFacts DEF Retire, TypeOK
    <3>3. Reaped(owner[r], active'[owner[r]]) \in {"absent", "live", "draining"}
      BY <3>1 DEF Reaped, TypeOK
    <3>. QED BY <1>w, <2>3, <3>1, <3>2, <3>3 DEF Retire, TypeOK, Stages
  <2>4. CASE RetryFire(r)
    <3>1. owner[r] \in Tasks /\ origin[r] \in {"local", "station"} /\ attempt[r] + 1 \in Nat
          /\ [stage EXCEPT ![r] = "ended"] \in [RunIds -> Stages]
      BY DEF TypeOK, Stages
    <3>. QED BY <2>4, <3>1, NewRunType DEF RetryFire, TypeOK
  <2>5. CASE RetryAbort(r)   BY <2>5 DEF RetryAbort, TypeOK, Stages
  <2>. QED BY <1>7, <2>1, <2>2, <2>3, <2>4, <2>5 DEF Run
<1>8. CASE Shutdown
  <2>1. CASE CancelPass
    BY <1>w, <1>c, <2>1 DEF CancelPass, TypeOK
  <2>. QED BY <1>8, <2>1 DEF Shutdown, BeginShutdown, Drained, Terminated, vars, TypeOK
<1>9. CASE UNCHANGED vars
  BY <1>9 DEF vars, TypeOK
<1>. QED BY <1>1, <1>2, <1>3, <1>4, <1>5, <1>6, <1>7, <1>8, <1>9 DEF Next, Operator

\* Every variable keeps its type, for any tasks, definitions and run bound.
THEOREM TypeCorrect == Spec => []TypeOK
  BY TypeInit, TypeStep, PTL DEF Spec

-----------------------------------------------------------------------------
(* Nobody waits for a signal that never comes *)

\* A registered queue-policy task has a drain goroutine: what makes
\* NoStrandedQueue inductive.
LoopArmed ==
    \A t \in Tasks : place[t] = "live" /\ def[t].policy = "queue" => loop[t] # "none" \/ isShutdown

Wake == LoopArmed /\ NoStrandedQueue /\ NoLostWakeup

LEMMA WakeInit == Init => Wake
  BY DEF Init, Wake, LoopArmed, NoStrandedQueue, NoLostWakeup

\* Admitting a run of a registered task before shutdown keeps Wake: a start
\* takes a slot away from the queue, a queued run wakes the goroutine.
LEMMA AdmitWake ==
    ASSUME TypeOK, Wake, NEW t \in Tasks, NEW r \in RunIds, NEW st,
           place[t] = "live", ~isShutdown, Admit(t, r, st), UNCHANGED <<place, def, shut>>
    PROVE  Wake'
<1>. USE DEF Wake, LoopArmed, NoStrandedQueue, NoLostWakeup, isShutdown
<1>1. ASSUME StartRun(t, r, st), UNCHANGED <<queue, loop>> PROVE Wake'
  <2>1. Len(active[t]) \in Nat /\ Len(Append(active[t], r)) = Len(active[t]) + 1
    BY AppendFacts DEF TypeOK
  <2>2. \A u \in Tasks : CanStart(u)' => CanStart(u)
    BY <1>1, <2>1, ConstantFacts DEF StartRun, CanStart, FreeSlot, TypeOK
  <2>. QED BY <1>1, <2>2
<1>2. CASE Refuse(r, st)
  BY <1>2 DEF Refuse, CanStart, FreeSlot
<1>3. CASE def[t].policy = "queue" /\ EnterQueue(t, r, st)
  <2>1. \A u \in Tasks : u # t => (CanStart(u)' <=> CanStart(u)) /\ queue'[u] = queue[u]
    BY <1>3 DEF EnterQueue, CanStart, FreeSlot, TypeOK
  <2>2. loop' = [loop EXCEPT ![t] = Woken(t)] /\ Woken(t) # "none" /\ Woken(t) # "parked"
    BY <1>3 DEF EnterQueue, Woken
  <2>. QED BY <1>3, <2>1, <2>2 DEF TypeOK
<1>. QED BY <1>1, <1>2, <1>3 DEF Admit

\* The steps that end the queue of a task and wake its goroutine.
LEMMA FinalizeWake ==
    ASSUME TypeOK, Wake, NEW t \in Tasks, FinalizeQueue(t),
           loop' = [loop EXCEPT ![t] = Woken(t)],
           \A u \in Tasks : u # t => place'[u] = place[u] /\ def'[u] = def[u],
           UNCHANGED <<active, shut>>,
           place'[t] = "live" /\ def'[t].policy = "queue" => loop[t] # "none" \/ isShutdown
    PROVE  Wake'
<1>1. \A u \in Tasks : u # t => (CanStart(u)' <=> CanStart(u)) /\ queue'[u] = queue[u]
  BY DEF FinalizeQueue, CanStart, FreeSlot, TypeOK
<1>2. queue'[t] = <<>> /\ loop'[t] # "parked" /\ (loop'[t] = "none" => loop[t] = "none")
  BY DEF FinalizeQueue, Woken, TypeOK
<1>. QED BY <1>1, <1>2 DEF Wake, LoopArmed, NoStrandedQueue, NoLostWakeup, isShutdown, TypeOK

LEMMA WakeStep == TypeOK /\ Wake /\ [Next]_vars => Wake'
<1>. SUFFICES ASSUME TypeOK, Wake, [Next]_vars PROVE Wake'
  OBVIOUS
<1>. USE DEF taskVars, runVars
<1>s. ASSUME UNCHANGED <<place, def, active, queue, loop, shut>> PROVE Wake'
  BY <1>s DEF Wake, LoopArmed, NoStrandedQueue, NoLostWakeup, CanStart, FreeSlot, isShutdown
<1>n. ASSUME NEW t \in Tasks, NEW o, NEW n, NEW st, place[t] = "live", ~isShutdown,
             NewRun(t, o, n, st)
      PROVE  Wake'
  <2>1. created + 1 \in RunIds
    BY <1>n, ConstantFacts DEF NewRun, TypeOK, RunIds
  <2>. QED BY <1>n, <2>1, AdmitWake DEF NewRun
<1>1. ASSUME NEW t \in Tasks, NEW o \in Origins, TriggerRunWithOptions(t, o) PROVE Wake'
  BY <1>1, <1>n DEF TriggerRunWithOptions
<1>2. ASSUME NEW t \in Tasks, NEW d \in Defs, UpsertTask(t, d) PROVE Wake'
  <2>1. CASE d.policy # "queue"
    BY <1>2, <2>1, FinalizeWake DEF UpsertTask, TypeOK
  <2>2. CASE d.policy = "queue"
    <3>1. loop'[t] # "none" /\ loop'[t] # "parked"
      BY <1>2, <2>2 DEF UpsertTask, Rearmed, Woken, TypeOK
    <3>2. \A u \in Tasks : u # t =>
            /\ place'[u] = place[u] /\ def'[u] = def[u] /\ queue'[u] = queue[u]
            /\ loop'[u] = loop[u] /\ (CanStart(u)' <=> CanStart(u))
      BY <1>2, <2>2 DEF UpsertTask, CanStart, FreeSlot, TypeOK
    <3>3. place'[t] = "live" /\ def'[t].policy = "queue" /\ shut' = shut
      BY <1>2, <2>2 DEF UpsertTask, TypeOK
    <3>. QED BY <3>1, <3>2, <3>3 DEF Wake, LoopArmed, NoStrandedQueue, NoLostWakeup, isShutdown
  <2>. QED BY <2>1, <2>2
<1>3. ASSUME NEW t \in Tasks, RemoveTask(t) PROVE Wake'
  BY <1>3, FinalizeWake DEF RemoveTask, TypeOK
<1>4. ASSUME NEW t \in Tasks, StopTask(t) PROVE Wake'
  BY <1>4, FinalizeWake DEF StopTask, Wake, LoopArmed, TypeOK
<1>5. ASSUME NEW r \in RunIds, TerminateRun(r) PROVE Wake'
  BY <1>5, <1>s DEF TerminateRun
<1>6. ASSUME NEW t \in Tasks, Loop(t) PROVE Wake'
  <2>. USE DEF Wake, LoopArmed, NoStrandedQueue, NoLostWakeup, isShutdown, CanStart, FreeSlot
  <2>1. CASE LoopLock(t)   BY <2>1 DEF LoopLock, TypeOK
  <2>2. CASE LoopPark(t)   BY <2>2 DEF LoopPark, MustQuit, TypeOK
  <2>3. CASE LoopExit(t)   BY <2>3 DEF LoopExit, MustQuit, TypeOK
  <2>4. CASE LoopStart(t)
    <3>1. loop'[t] = "holding" /\ place'[t] = "live" /\ def'[t].policy = "queue" /\ shut' = shut
      BY <2>4 DEF LoopStart, MustQuit, TypeOK
    <3>2. \A u \in Tasks : u # t =>
            /\ place'[u] = place[u] /\ def'[u] = def[u] /\ queue'[u] = queue[u]
            /\ loop'[u] = loop[u] /\ active'[u] = active[u]
      BY <2>4 DEF LoopStart, StartRun, TypeOK
    <3>. QED BY <3>1, <3>2
  <2>. QED BY <1>6, <2>1, <2>2, <2>3, <2>4 DEF Loop
<1>7. ASSUME NEW r \in RunIds, Run(r) PROVE Wake'
  <2>1. CASE Expire(r)   BY <1>s, <2>1 DEF Expire
  <2>2. CASE Exit(r)   BY <1>s, <2>2 DEF Exit
  <2>3. CASE Retire(r)
    <3> DEFINE t == owner[r]
    <3>0. t \in Tasks
      BY DEF TypeOK
    <3>1. loop'[t] # "parked" /\ (loop'[t] = "none" => loop[t] = "none")
      BY <2>3, <3>0 DEF Retire, Woken, TypeOK
    <3>2. UNCHANGED <<def, queue, shut>>
      BY <2>3 DEF Retire
    <3>3. \A u \in Tasks : u # t =>
            place'[u] = place[u] /\ loop'[u] = loop[u] /\ active'[u] = active[u]
      BY <2>3, <3>0 DEF Retire, TypeOK
    <3>4. place'[t] = "live" => place[t] = "live"
      BY <2>3, <3>0 DEF Retire, Reaped, TypeOK
    <3>5. place[t] = "live" /\ queue[t] # <<>> => place'[t] = "live"
      BY <2>3, <3>0 DEF Retire, Reaped, TypeOK
    <3>. HIDE DEF t
    <3>. QED BY <3>0, <3>1, <3>2, <3>3, <3>4, <3>5
          DEF Wake, LoopArmed, NoStrandedQueue, NoLostWakeup, isShutdown, CanStart, FreeSlot
  <2>4. CASE RetryFire(r)
    BY <1>n, <1>s, <2>4 DEF RetryFire, TypeOK
  <2>5. CASE RetryAbort(r)   BY <1>s, <2>5 DEF RetryAbort
  <2>. QED BY <1>7, <2>1, <2>2, <2>3, <2>4, <2>5 DEF Run
<1>8. CASE Shutdown
  <2>. USE DEF Wake, LoopArmed, NoStrandedQueue, NoLostWakeup, isShutdown, CanStart, FreeSlot
  <2>1. CASE BeginShutdown   BY <2>1 DEF BeginShutdown
  <2>2. CASE CancelPass   BY <2>2 DEF CancelPass, Woken, TypeOK
  <2>3. CASE Drained   BY <2>3 DEF Drained
  <2>4. CASE Terminated   BY <1>s, <2>4 DEF Terminated, vars
  <2>. QED BY <1>8, <2>1, <2>2, <2>3, <2>4 DEF Shutdown
<1>9. CASE UNCHANGED vars
  BY <1>9, <1>s DEF vars
<1>. QED BY <1>1, <1>2, <1>3, <1>4, <1>5, <1>6, <1>7, <1>8, <1>9 DEF Next, Operator

\* A waiting run always has someone who will start or end it.
THEOREM QueueNeverStranded == Spec => []NoStrandedQueue
<1>1. Init => TypeOK /\ Wake
  BY TypeInit, WakeInit
<1>2. TypeOK /\ Wake /\ [Next]_vars => (TypeOK /\ Wake)'
  BY TypeStep, WakeStep
<1>3. Wake => NoStrandedQueue
  BY DEF Wake
<1>. QED BY <1>1, <1>2, <1>3, PTL DEF Spec

\* A drain goroutine never sleeps through the signal it waits for.
THEOREM WakeupNeverLost == Spec => []NoLostWakeup
<1>1. Init => TypeOK /\ Wake
  BY TypeInit, WakeInit
<1>2. TypeOK /\ Wake /\ [Next]_vars => (TypeOK /\ Wake)'
  BY TypeStep, WakeStep
<1>3. Wake => NoLostWakeup
  BY DEF Wake
<1>. QED BY <1>1, <1>2, <1>3, PTL DEF Spec

-----------------------------------------------------------------------------
(* The lists of runs: order, ownership, no run lost or held twice *)

\* Only runs that were created are in a list: the next run is new to them all.
Known == \A t \in Tasks : \A r \in ActiveOf(t) \cup QueuedOf(t) : r <= created

Lists == Known /\ Fifo /\ RunsAccounted

\* Lists, said of the sets of runs that the tasks hold: A active, Q waiting.
\* What is left is that each list is ascending.
Sets(lists) == [t \in Tasks |-> ToSet(lists[t])]

Held(A, Q, n, st, own) ==
    /\ \A t \in Tasks : \A r \in A[t] : r <= n /\ own[r] = t /\ st[r] \in InFlight
    /\ \A t \in Tasks : \A r \in Q[t] : r <= n /\ own[r] = t /\ st[r] = "queued"
    /\ \A t \in Tasks : \A a \in A[t], q \in Q[t] : a < q
    /\ \A r \in RunIds : st[r] \in InFlight => r \in A[own[r]]
    /\ \A r \in RunIds : st[r] = "queued" => r \in Q[own[r]]

LEMMA ListsHeld ==
    ASSUME TypeOK, Lists
    PROVE  /\ \A t \in Tasks : Ascending(active[t]) /\ Ascending(queue[t])
           /\ Held(Sets(active), Sets(queue), created, stage, owner)
<1>. USE DEF ActiveOf, QueuedOf, Sets, Held
<1>1. \A t \in Tasks : Ascending(active[t]) /\ Ascending(queue[t])
  BY DEF Lists, Fifo
<1>2. Held(Sets(active), Sets(queue), created, stage, owner)
  BY DEF Lists, Known, Fifo, RunsAccounted, TypeOK
<1>. QED BY <1>1, <1>2

LEMMA HeldLists ==
    ASSUME owner' \in [RunIds -> Tasks],
           \A t \in Tasks : Ascending(active'[t]) /\ Ascending(queue'[t]),
           Held(Sets(active'), Sets(queue'), created', stage', owner')
    PROVE  Lists'
<1>. USE DEF ActiveOf, QueuedOf, Sets, Held
<1>1. Known'
  BY DEF Known
<1>2. Fifo'
  BY DEF Fifo
<1>3. RunsAccounted'
  BY DEF RunsAccounted
<1>. QED BY <1>1, <1>2, <1>3 DEF Lists

\* Elements of the lists are runs.
LEMMA SetsType ==
    ASSUME TypeOK
    PROVE  Sets(active) \in [Tasks -> SUBSET RunIds] /\ Sets(queue) \in [Tasks -> SUBSET RunIds]
<1>1. ASSUME NEW t \in Tasks PROVE ToSet(active[t]) \subseteq RunIds /\ ToSet(queue[t]) \subseteq RunIds
  <2>1. active[t] \in Seq(RunIds) /\ queue[t] \in Seq(RunIds)
    BY DEF TypeOK
  <2>. QED BY <2>1, ToSetIndex
<1>. QED BY <1>1 DEF Sets

\* The empty list.
LEMMA AscendingEmpty == Ascending(<<>>) /\ ToSet(<<>>) = {}
<1>1. Ascending(<<>>)
  BY DEF Ascending
<1>2. ToSet(<<>>) = {}
  BY EmptySeq, ToSetIndex
<1>. QED BY <1>1, <1>2

\* How Held changes with what the actions do: the stages of runs no task holds,
\* a new run started or queued, the head of a queue started, a run retired, a
\* queue finalized.
LEMMA HeldStage ==
    ASSUME NEW A, NEW Q, NEW n \in Nat, NEW st, NEW own, Held(A, Q, n, st, own),
           NEW m \in Nat, n <= m, NEW st2,
           \A t \in Tasks : A[t] \subseteq RunIds /\ Q[t] \subseteq RunIds,
           \A r \in RunIds : \/ st2[r] = st[r]
                             \/ st[r] \in InFlight /\ st2[r] \in InFlight
                             \/ st[r] \notin InFlight \cup {"queued"}
                                /\ st2[r] \notin InFlight \cup {"queued"}
    PROVE  Held(A, Q, m, st2, own)
<1>1. RunIds \subseteq Nat
  BY ConstantFacts
<1>2. \A t \in Tasks : \A r \in A[t] : r <= m /\ own[r] = t /\ st2[r] \in InFlight
  <2>1. ASSUME NEW t \in Tasks, NEW r \in A[t] PROVE r <= m /\ own[r] = t /\ st2[r] \in InFlight
    <3>1. r \in RunIds /\ r \in Nat /\ r <= n /\ own[r] = t
      BY <1>1 DEF Held
    <3>. QED BY <3>1 DEF Held, InFlight
  <2>. QED BY <2>1
<1>3. \A t \in Tasks : \A r \in Q[t] : r <= m /\ own[r] = t /\ st2[r] = "queued"
  <2>1. ASSUME NEW t \in Tasks, NEW r \in Q[t] PROVE r <= m /\ own[r] = t /\ st2[r] = "queued"
    <3>1. r \in RunIds /\ r \in Nat /\ r <= n /\ own[r] = t
      BY <1>1 DEF Held
    <3>. QED BY <3>1 DEF Held, InFlight
  <2>. QED BY <2>1
<1>4. \A r \in RunIds : st2[r] \in InFlight => r \in A[own[r]]
  BY DEF Held, InFlight
<1>5. \A r \in RunIds : st2[r] = "queued" => r \in Q[own[r]]
  BY DEF Held, InFlight
<1>. QED BY <1>2, <1>3, <1>4, <1>5 DEF Held

\* The hypotheses of the lemmas on a new run.
HeldTyped(A, Q, n, st, own) ==
    /\ Held(A, Q, n, st, own)
    /\ A \in [Tasks -> SUBSET RunIds] /\ Q \in [Tasks -> SUBSET RunIds]
    /\ n \in Nat /\ st \in [RunIds -> Stages] /\ own \in [RunIds -> Tasks]

LEMMA HeldFresh ==
    ASSUME NEW A, NEW Q, NEW n, NEW st, NEW own, HeldTyped(A, Q, n, st, own), n + 1 \in RunIds
    PROVE  /\ RunIds \subseteq Nat
           /\ \A t \in Tasks : n + 1 \notin A[t] /\ n + 1 \notin Q[t]
           /\ \A t \in Tasks : \A r \in A[t] \cup Q[t] : r < n + 1
           /\ st[n + 1] \notin InFlight \cup {"queued"}
  BY ConstantFacts DEF Held, HeldTyped

LEMMA HeldStart ==
    ASSUME NEW A, NEW Q, NEW n, NEW st, NEW own, HeldTyped(A, Q, n, st, own), n + 1 \in RunIds,
           NEW t \in Tasks, Q[t] = {}
    PROVE  Held([A EXCEPT ![t] = @ \cup {n + 1}], Q, n + 1,
                [st EXCEPT ![n + 1] = "active"], [own EXCEPT ![n + 1] = t])
<1>1. /\ RunIds \subseteq Nat
      /\ \A u \in Tasks : n + 1 \notin A[u] /\ n + 1 \notin Q[u]
      /\ \A u \in Tasks : \A r \in A[u] \cup Q[u] : r < n + 1
      /\ st[n + 1] \notin InFlight \cup {"queued"}
  BY HeldFresh
<1>. QED BY <1>1 DEF Held, HeldTyped, InFlight

LEMMA HeldQueue ==
    ASSUME NEW A, NEW Q, NEW n, NEW st, NEW own, HeldTyped(A, Q, n, st, own), n + 1 \in RunIds,
           NEW t \in Tasks
    PROVE  Held(A, [Q EXCEPT ![t] = @ \cup {n + 1}], n + 1,
                [st EXCEPT ![n + 1] = "queued"], [own EXCEPT ![n + 1] = t])
<1>1. /\ RunIds \subseteq Nat
      /\ \A u \in Tasks : n + 1 \notin A[u] /\ n + 1 \notin Q[u]
      /\ \A u \in Tasks : \A r \in A[u] \cup Q[u] : r < n + 1
      /\ st[n + 1] \notin InFlight \cup {"queued"}
  BY HeldFresh
<1>. QED BY <1>1 DEF Held, HeldTyped, InFlight

LEMMA HeldRefuse ==
    ASSUME NEW A, NEW Q, NEW n, NEW st, NEW own, HeldTyped(A, Q, n, st, own), n + 1 \in RunIds,
           NEW t \in Tasks
    PROVE  Held(A, Q, n + 1, [st EXCEPT ![n + 1] = "ended"], [own EXCEPT ![n + 1] = t])
<1>1. /\ RunIds \subseteq Nat
      /\ \A u \in Tasks : n + 1 \notin A[u] /\ n + 1 \notin Q[u]
      /\ \A u \in Tasks : \A r \in A[u] \cup Q[u] : r < n + 1
      /\ st[n + 1] \notin InFlight \cup {"queued"}
  BY HeldFresh
<1>. QED BY <1>1 DEF Held, HeldTyped, InFlight

LEMMA HeldMove ==
    ASSUME NEW A, NEW Q, NEW n, NEW st, NEW own, HeldTyped(A, Q, n, st, own), NEW t \in Tasks,
           NEW h \in Q[t], NEW rest, Q[t] = {h} \cup rest, \A x \in rest : h < x
    PROVE  Held([A EXCEPT ![t] = @ \cup {h}], [Q EXCEPT ![t] = rest], n,
                [st EXCEPT ![h] = "active"], own)
<1>1. h \in RunIds /\ RunIds \subseteq Nat /\ h \notin rest
  BY ConstantFacts DEF HeldTyped
<1>2. own[h] = t /\ st[h] = "queued" /\ h <= n /\ \A a \in A[t] : a < h
  BY DEF Held, HeldTyped
<1>. QED BY <1>1, <1>2 DEF Held, HeldTyped, InFlight

LEMMA HeldRetire ==
    ASSUME NEW A, NEW Q, NEW n, NEW st, NEW own, HeldTyped(A, Q, n, st, own), NEW r \in RunIds,
           NEW end, end \in {"retrying", "ended"}, st[r] \in InFlight
    PROVE  Held([A EXCEPT ![own[r]] = @ \ {r}], Q, n, [st EXCEPT ![r] = end], own)
<1>1. r \in A[own[r]] /\ own[r] \in Tasks
  BY DEF Held, HeldTyped
<1>2. \A t \in Tasks : r \notin Q[t] /\ (r \in A[t] => t = own[r])
  BY DEF Held, HeldTyped, InFlight
<1>. QED BY <1>1, <1>2 DEF Held, HeldTyped, InFlight

LEMMA HeldFinalize ==
    ASSUME NEW A, NEW Q, NEW n, NEW st, NEW own, HeldTyped(A, Q, n, st, own), NEW t \in Tasks
    PROVE  Held(A, [Q EXCEPT ![t] = {}], n,
                [r \in RunIds |-> IF r \in Q[t] THEN "ended" ELSE st[r]], own)
  BY DEF Held, HeldTyped, InFlight

LEMMA ListsTyped ==
    ASSUME TypeOK, Lists
    PROVE  HeldTyped(Sets(active), Sets(queue), created, stage, owner)
<1>1. Held(Sets(active), Sets(queue), created, stage, owner)
  BY ListsHeld
<1>2. Sets(active) \in [Tasks -> SUBSET RunIds] /\ Sets(queue) \in [Tasks -> SUBSET RunIds]
  BY SetsType
<1>3. created \in Nat /\ stage \in [RunIds -> Stages] /\ owner \in [RunIds -> Tasks]
  BY ConstantFacts DEF TypeOK
<1>. QED BY <1>1, <1>2, <1>3 DEF HeldTyped

LEMMA ListsInit == Init => Lists
  BY AscendingEmpty DEF Init, Lists, Known, Fifo, RunsAccounted, InFlight, ActiveOf, QueuedOf

\* A stage map in which, at most, a retry goroutine is over.
RetriesOver(st) ==
    \A q \in RunIds : st[q] = stage[q] \/ (stage[q] = "retrying" /\ st[q] = "ended")

\* Admitting the next run keeps the lists: started or queued, it goes last.
LEMMA AdmitLists ==
    ASSUME TypeOK, Wake, Lists, NEW t \in Tasks, NEW st \in [RunIds -> Stages],
           created + 1 \in RunIds, created' = created + 1,
           owner' = [owner EXCEPT ![created + 1] = t],
           RetriesOver(st), Admit(t, created + 1, st)
    PROVE  Lists'
<1> DEFINE r == created + 1
<1>0. /\ created \in Nat /\ r \in RunIds /\ RunIds \subseteq Nat
      /\ active \in [Tasks -> Seq(RunIds)] /\ queue \in [Tasks -> Seq(RunIds)]
      /\ owner' \in [RunIds -> Tasks]
  BY ConstantFacts DEF TypeOK
<1>1. /\ \A u \in Tasks : Ascending(active[u]) /\ Ascending(queue[u])
      /\ HeldTyped(Sets(active), Sets(queue), created, stage, owner)
  BY ListsHeld, ListsTyped
<1>2. HeldTyped(Sets(active), Sets(queue), created, st, owner)
  <2>1. Held(Sets(active), Sets(queue), created, stage, owner) /\ created <= created
    BY <1>0, <1>1 DEF HeldTyped
  <2>2. \A u \in Tasks : Sets(active)[u] \subseteq RunIds /\ Sets(queue)[u] \subseteq RunIds
    BY <1>1 DEF HeldTyped
  <2>3. \A q \in RunIds : \/ st[q] = stage[q]
                          \/ st[q] \notin InFlight \cup {"queued"}
                             /\ stage[q] \notin InFlight \cup {"queued"}
    BY DEF RetriesOver, InFlight
  <2>4. Held(Sets(active), Sets(queue), created, st, owner)
    BY <1>0, <2>1, <2>2, <2>3, HeldStage
  <2>. QED BY <1>1, <2>4 DEF HeldTyped
<1>3. /\ active[t] \in Seq(RunIds) /\ \A x \in ToSet(active[t]) : x < r
      /\ queue[t] \in Seq(RunIds) /\ \A x \in ToSet(queue[t]) : x < r
  <2>1. \A u \in Tasks : \A x \in Sets(active)[u] \cup Sets(queue)[u] : x < created + 1
    BY <1>0, <1>2, HeldFresh
  <2>. QED BY <1>0, <2>1 DEF Sets
<1>4. ASSUME StartRun(t, r, st), UNCHANGED queue, queue[t] = <<>> PROVE Lists'
  <2>1. active' = [active EXCEPT ![t] = Append(active[t], r)] /\ stage' = [st EXCEPT ![r] = "active"]
    BY <1>4 DEF StartRun
  <2>2. Ascending(Append(active[t], r)) /\ ToSet(Append(active[t], r)) = ToSet(active[t]) \cup {r}
    BY <1>0, <1>1, <1>3, AscendingAppend, AppendSet
  <2>3. Sets(active') = [Sets(active) EXCEPT ![t] = ToSet(active[t]) \cup {r}]
    BY <1>0, <2>1, <2>2 DEF Sets
  <2>4. Sets(active)[t] = ToSet(active[t]) /\ Sets(queue)[t] = {} /\ Sets(queue') = Sets(queue)
    BY <1>4, AscendingEmpty DEF Sets
  <2>5. Held(Sets(active'), Sets(queue'), created', stage', owner')
    <3>1. Held([Sets(active) EXCEPT ![t] = @ \cup {created + 1}], Sets(queue), created + 1,
               [st EXCEPT ![created + 1] = "active"], [owner EXCEPT ![created + 1] = t])
      BY <1>0, <1>2, <2>4, HeldStart
    <3>. QED BY <2>1, <2>3, <2>4, <3>1
  <2>6. \A u \in Tasks : Ascending(active'[u]) /\ Ascending(queue'[u])
    BY <1>0, <1>1, <1>4, <2>1, <2>2
  <2>. QED BY <1>0, <2>5, <2>6, HeldLists
<1>5. CASE Refuse(r, st)
  <2>1. stage' = [st EXCEPT ![r] = "ended"] /\ active' = active /\ queue' = queue
    BY <1>5 DEF Refuse
  <2>2. Held(Sets(active), Sets(queue), created + 1, [st EXCEPT ![created + 1] = "ended"],
             [owner EXCEPT ![created + 1] = t])
    BY <1>0, <1>2, HeldRefuse
  <2>3. Held(Sets(active'), Sets(queue'), created', stage', owner')
    BY <2>1, <2>2
  <2>. QED BY <1>0, <1>1, <2>1, <2>3, HeldLists
<1>6. CASE EnterQueue(t, r, st)
  <2>1. /\ queue' = [queue EXCEPT ![t] = Append(queue[t], r)] /\ active' = active
        /\ stage' = [st EXCEPT ![r] = "queued"]
    BY <1>6 DEF EnterQueue
  <2>2. Ascending(Append(queue[t], r)) /\ ToSet(Append(queue[t], r)) = ToSet(queue[t]) \cup {r}
    BY <1>0, <1>1, <1>3, AscendingAppend, AppendSet
  <2>3. Sets(queue') = [Sets(queue) EXCEPT ![t] = ToSet(queue[t]) \cup {r}]
    BY <1>0, <2>1, <2>2 DEF Sets
  <2>4. Sets(queue)[t] = ToSet(queue[t]) /\ Sets(active') = Sets(active)
    BY <2>1 DEF Sets
  <2>5. Held(Sets(active'), Sets(queue'), created', stage', owner')
    <3>1. Held(Sets(active), [Sets(queue) EXCEPT ![t] = @ \cup {created + 1}], created + 1,
               [st EXCEPT ![created + 1] = "queued"], [owner EXCEPT ![created + 1] = t])
      BY <1>0, <1>2, HeldQueue
    <3>. QED BY <2>1, <2>3, <2>4, <3>1
  <2>6. \A u \in Tasks : Ascending(active'[u]) /\ Ascending(queue'[u])
    BY <1>0, <1>1, <2>1, <2>2
  <2>. QED BY <1>0, <2>5, <2>6, HeldLists
<1>7. FreeSlot(t) /\ ~QueuePending(t) => queue[t] = <<>>
  BY DEF QueuePending, Wake, NoStrandedQueue
<1>8. def[t].policy = "kill" => queue[t] = <<>>
  BY DEF Wake, NoStrandedQueue
<1>. HIDE DEF r
<1>9. Admit(t, r, st)
  BY DEF r
<1>. QED BY <1>4, <1>5, <1>6, <1>7, <1>8, <1>9 DEF Admit

\* Ending the queue of a task keeps the lists.
LEMMA FinalizeLists ==
    ASSUME TypeOK, Lists, NEW t \in Tasks, FinalizeQueue(t), UNCHANGED <<active, created, owner>>
    PROVE  Lists'
<1>0. queue \in [Tasks -> Seq(RunIds)] /\ owner' \in [RunIds -> Tasks]
  BY DEF TypeOK
<1>1. /\ \A u \in Tasks : Ascending(active[u]) /\ Ascending(queue[u])
      /\ HeldTyped(Sets(active), Sets(queue), created, stage, owner)
  BY ListsHeld, ListsTyped
<1>2. Sets(queue') = [Sets(queue) EXCEPT ![t] = {}] /\ Sets(active') = Sets(active)
  BY <1>0, AscendingEmpty DEF FinalizeQueue, Sets
<1>3. stage' = [q \in RunIds |-> IF q \in Sets(queue)[t] THEN "ended" ELSE stage[q]]
  BY DEF FinalizeQueue, EndAll, QueuedOf, Sets
<1>4. Held(Sets(active), [Sets(queue) EXCEPT ![t] = {}], created,
           [q \in RunIds |-> IF q \in Sets(queue)[t] THEN "ended" ELSE stage[q]], owner)
  BY <1>1, HeldFinalize
<1>5. Held(Sets(active'), Sets(queue'), created', stage', owner')
  BY <1>2, <1>3, <1>4
<1>6. \A u \in Tasks : Ascending(active'[u]) /\ Ascending(queue'[u])
  BY <1>0, <1>1, AscendingEmpty DEF FinalizeQueue
<1>. QED BY <1>0, <1>5, <1>6, HeldLists

\* Steps that touch neither list nor a stage the lists depend on.
LEMMA SameLists ==
    ASSUME TypeOK, Lists, UNCHANGED <<active, queue, created, owner>>,
           \A q \in RunIds : \/ stage'[q] = stage[q]
                             \/ stage[q] \in InFlight /\ stage'[q] \in InFlight
                             \/ stage[q] = "retrying" /\ stage'[q] = "ended"
    PROVE  Lists'
<1>1. /\ \A u \in Tasks : Ascending(active[u]) /\ Ascending(queue[u])
      /\ HeldTyped(Sets(active), Sets(queue), created, stage, owner)
  BY ListsHeld, ListsTyped
<1>2. /\ Held(Sets(active), Sets(queue), created, stage, owner)
      /\ created \in Nat /\ created <= created
      /\ \A u \in Tasks : Sets(active)[u] \subseteq RunIds /\ Sets(queue)[u] \subseteq RunIds
  BY <1>1 DEF HeldTyped
<1>3. \A q \in RunIds : \/ stage'[q] = stage[q]
                        \/ stage[q] \in InFlight /\ stage'[q] \in InFlight
                        \/ stage[q] \notin InFlight \cup {"queued"}
                           /\ stage'[q] \notin InFlight \cup {"queued"}
  BY DEF InFlight
<1>4. Held(Sets(active), Sets(queue), created, stage', owner)
  BY <1>2, <1>3, HeldStage
<1>5. Held(Sets(active'), Sets(queue'), created', stage', owner') /\ owner' \in [RunIds -> Tasks]
  BY <1>4 DEF TypeOK
<1>. QED BY <1>1, <1>5, HeldLists

\* The drain goroutine starts the head of the queue.
LEMMA StartHeadLists ==
    ASSUME TypeOK, Lists, NEW t \in Tasks, LoopStart(t)
    PROVE  Lists'
<1> DEFINE h == Head(queue[t])
           rest == Tail(queue[t])
<1>0. /\ active \in [Tasks -> Seq(RunIds)] /\ queue \in [Tasks -> Seq(RunIds)]
      /\ active[t] \in Seq(RunIds) /\ queue[t] \in Seq(RunIds)
      /\ queue[t] # <<>> /\ owner' \in [RunIds -> Tasks] /\ RunIds \subseteq Nat
  BY ConstantFacts DEF LoopStart, CanStart, TypeOK
<1>1. /\ \A u \in Tasks : Ascending(active[u]) /\ Ascending(queue[u])
      /\ HeldTyped(Sets(active), Sets(queue), created, stage, owner)
  BY ListsHeld, ListsTyped
<1>2. h \in RunIds /\ rest \in Seq(RunIds)
  BY <1>0, TailFacts
<1>3. ToSet(queue[t]) = {h} \cup ToSet(rest)
  BY <1>0, TailSet
<1>4. Ascending(rest) /\ \A x \in ToSet(rest) : h < x
  BY <1>0, <1>1, AscendingTail
<1>5. /\ active' = [active EXCEPT ![t] = Append(active[t], h)]
      /\ queue' = [queue EXCEPT ![t] = rest]
      /\ stage' = [stage EXCEPT ![h] = "active"]
      /\ created' = created /\ owner' = owner
  BY DEF LoopStart, StartRun
<1>. HIDE DEF h, rest
<1>6. Sets(active)[t] = ToSet(active[t]) /\ Sets(queue)[t] = ToSet(queue[t])
  BY DEF Sets
<1>7. \A x \in ToSet(active[t]) : x < h
  BY <1>1, <1>3, <1>6 DEF HeldTyped, Held
<1>8. Ascending(Append(active[t], h)) /\ ToSet(Append(active[t], h)) = ToSet(active[t]) \cup {h}
  BY <1>0, <1>1, <1>2, <1>7, AscendingAppend, AppendSet
<1>9. Sets(active') = [Sets(active) EXCEPT ![t] = ToSet(active[t]) \cup {h}]
  BY <1>0, <1>5, <1>8 DEF Sets
<1>10. Sets(queue') = [Sets(queue) EXCEPT ![t] = ToSet(rest)]
  BY <1>0, <1>5 DEF Sets
<1>11. Held([Sets(active) EXCEPT ![t] = @ \cup {h}], [Sets(queue) EXCEPT ![t] = ToSet(rest)], created,
            [stage EXCEPT ![h] = "active"], owner)
  BY <1>1, <1>3, <1>4, <1>6, HeldMove
<1>12. Held(Sets(active'), Sets(queue'), created', stage', owner')
  BY <1>5, <1>6, <1>9, <1>10, <1>11
<1>13. \A u \in Tasks : Ascending(active'[u]) /\ Ascending(queue'[u])
  BY <1>0, <1>1, <1>4, <1>5, <1>8
<1>. QED BY <1>0, <1>12, <1>13, HeldLists

\* A run leaves the active list of its task.
LEMMA RetireLists ==
    ASSUME TypeOK, Lists, NEW r \in RunIds, Retire(r)
    PROVE  /\ Lists'
           /\ active' = [active EXCEPT ![owner[r]] = active'[owner[r]]]
           /\ ToSet(active'[owner[r]]) = ToSet(active[owner[r]]) \ {r}
           /\ active'[owner[r]] \in Seq(RunIds)
<1> DEFINE t == owner[r]
<1>0. /\ active \in [Tasks -> Seq(RunIds)] /\ t \in Tasks /\ active[t] \in Seq(RunIds)
      /\ owner' \in [RunIds -> Tasks]
  BY DEF Retire, TypeOK
<1>1. /\ \A u \in Tasks : Ascending(active[u]) /\ Ascending(queue[u])
      /\ HeldTyped(Sets(active), Sets(queue), created, stage, owner)
  BY ListsHeld, ListsTyped
<1>2. PICK i \in 1 .. Len(active[t]) :
        active[t][i] = r /\ active' = [active EXCEPT ![t] = RemoveAt(active[t], i)]
  BY DEF Retire
<1>3. /\ queue' = queue /\ created' = created /\ owner' = owner /\ stage[r] \in InFlight
      /\ \E end \in {"retrying", "ended"} : stage' = [stage EXCEPT ![r] = end]
  BY DEF Retire, InFlight
<1>4. Ascending(RemoveAt(active[t], i)) /\ RemoveAt(active[t], i) \in Seq(RunIds)
      /\ ToSet(RemoveAt(active[t], i)) = ToSet(active[t]) \ {r}
  BY <1>0, <1>1, <1>2, AscendingRemoveAt, RemoveAtSet, RemoveAtFacts
<1>5. Sets(active') = [Sets(active) EXCEPT ![t] = ToSet(active[t]) \ {r}]
  BY <1>0, <1>2, <1>4 DEF Sets
<1>6. Sets(active)[t] = ToSet(active[t])
  BY <1>0 DEF Sets
<1>7. Held(Sets(active'), Sets(queue'), created', stage', owner')
  <2>1. PICK end \in {"retrying", "ended"} : stage' = [stage EXCEPT ![r] = end]
    BY <1>3
  <2>2. Held([Sets(active) EXCEPT ![t] = @ \ {r}], Sets(queue), created,
             [stage EXCEPT ![r] = end], owner)
    BY <1>1, <1>3, HeldRetire
  <2>. QED BY <1>3, <1>5, <1>6, <2>1, <2>2
<1>8. \A u \in Tasks : Ascending(active'[u]) /\ Ascending(queue'[u])
  BY <1>0, <1>1, <1>2, <1>3, <1>4
<1>9. Lists'
  BY <1>0, <1>7, <1>8, HeldLists
<1>. QED BY <1>0, <1>2, <1>4, <1>9

LEMMA ListsStep == TypeOK /\ Wake /\ Lists /\ [Next]_vars => Lists'
<1>. SUFFICES ASSUME TypeOK, Wake, Lists, [Next]_vars PROVE Lists'
  OBVIOUS
<1>. USE DEF taskVars, runVars
<1>n. ASSUME NEW t \in Tasks, NEW o, NEW n, NEW st \in [RunIds -> Stages], NewRun(t, o, n, st),
             RetriesOver(st)
      PROVE  Lists'
  <2>1. created + 1 \in RunIds
    BY <1>n, ConstantFacts DEF NewRun, TypeOK, RunIds
  <2>2. /\ created' = created + 1 /\ owner' = [owner EXCEPT ![created + 1] = t]
        /\ Admit(t, created + 1, st)
    BY <1>n DEF NewRun
  <2>. QED BY <1>n, <2>1, <2>2, AdmitLists
<1>s. ASSUME UNCHANGED <<active, queue, created, owner, stage>> PROVE Lists'
  BY <1>s, SameLists
<1>1. ASSUME NEW t \in Tasks, NEW o \in Origins, TriggerRunWithOptions(t, o) PROVE Lists'
  <2>1. RetriesOver(stage) /\ stage \in [RunIds -> Stages] /\ NewRun(t, o, 0, stage)
    BY <1>1 DEF TriggerRunWithOptions, TypeOK, RetriesOver
  <2>. QED BY <1>n, <2>1
<1>2. ASSUME NEW t \in Tasks, NEW d \in Defs, UpsertTask(t, d) PROVE Lists'
  <2>1. UNCHANGED <<active, created, owner>>
    BY <1>2 DEF UpsertTask
  <2>2. CASE d.policy # "queue"
    <3>1. FinalizeQueue(t)
      BY <1>2, <2>2 DEF UpsertTask
    <3>. QED BY <2>1, <3>1, FinalizeLists
  <2>3. CASE d.policy = "queue"
    <3>1. UNCHANGED <<queue, stage>>
      BY <1>2, <2>3 DEF UpsertTask
    <3>. QED BY <1>s, <2>1, <3>1
  <2>. QED BY <2>2, <2>3
<1>3. ASSUME NEW t \in Tasks, RemoveTask(t) PROVE Lists'
  BY <1>3, FinalizeLists DEF RemoveTask
<1>4. ASSUME NEW t \in Tasks, StopTask(t) PROVE Lists'
  BY <1>4, FinalizeLists DEF StopTask
<1>5. ASSUME NEW r \in RunIds, TerminateRun(r) PROVE Lists'
  BY <1>5, <1>s DEF TerminateRun
<1>6. ASSUME NEW t \in Tasks, Loop(t) PROVE Lists'
  <2>1. CASE LoopLock(t) \/ LoopPark(t) \/ LoopExit(t)
    BY <2>1, <1>s DEF LoopLock, LoopPark, LoopExit
  <2>2. CASE LoopStart(t)
    BY <2>2, StartHeadLists
  <2>. QED BY <1>6, <2>1, <2>2 DEF Loop
<1>7. ASSUME NEW r \in RunIds, Run(r) PROVE Lists'
  <2>1. CASE Expire(r)   BY <2>1, <1>s DEF Expire
  <2>2. CASE Exit(r)
    <3>1. \A q \in RunIds : stage'[q] = stage[q] \/ (stage[q] \in InFlight /\ stage'[q] \in InFlight)
      BY <2>2 DEF Exit, InFlight, TypeOK
    <3>2. UNCHANGED <<active, queue, created, owner>>
      BY <2>2 DEF Exit
    <3>. QED BY <3>1, <3>2, SameLists
  <2>3. CASE Retire(r)
    BY <2>3, RetireLists
  <2>4. CASE RetryFire(r)
    <3> DEFINE st == [stage EXCEPT ![r] = "ended"]
    <3>1. st \in [RunIds -> Stages] /\ owner[r] \in Tasks /\ RetriesOver(st)
      BY <2>4 DEF RetryFire, TypeOK, Stages, RetriesOver
    <3>2. CASE NewRun(owner[r], origin[r], attempt[r] + 1, st)
      BY <1>n, <3>1, <3>2
    <3>3. CASE stage' = st /\ UNCHANGED <<active, queue, created, owner>>
      BY <3>1, <3>3, SameLists DEF RetriesOver
    <3>4. \/ NewRun(owner[r], origin[r], attempt[r] + 1, st)
          \/ stage' = st /\ UNCHANGED <<active, queue, created, owner>>
      BY <2>4 DEF RetryFire
    <3>. QED BY <3>2, <3>3, <3>4
  <2>5. CASE RetryAbort(r)
    <3>1. \A q \in RunIds : stage'[q] = stage[q] \/ (stage[q] = "retrying" /\ stage'[q] = "ended")
      BY <2>5 DEF RetryAbort, TypeOK
    <3>2. UNCHANGED <<active, queue, created, owner>>
      BY <2>5 DEF RetryAbort
    <3>. QED BY <3>1, <3>2, SameLists
  <2>. QED BY <1>7, <2>1, <2>2, <2>3, <2>4, <2>5 DEF Run
<1>8. CASE Shutdown \/ UNCHANGED vars
  BY <1>8, <1>s DEF Shutdown, BeginShutdown, CancelPass, Drained, Terminated, vars
<1>. QED BY <1>1, <1>2, <1>3, <1>4, <1>5, <1>6, <1>7, <1>8 DEF Next, Operator

LEMMA ListsInvariant == Spec => [](TypeOK /\ Wake /\ Lists)
<1>1. Init => TypeOK /\ Wake /\ Lists
  BY TypeInit, WakeInit, ListsInit
<1>2. TypeOK /\ Wake /\ Lists /\ [Next]_vars => (TypeOK /\ Wake /\ Lists)'
  BY TypeStep, WakeStep, ListsStep
<1>. QED BY <1>1, <1>2, PTL DEF Spec

\* The runs of a task start in the order they were created.
THEOREM StartsInOrder == Spec => []Fifo
<1>1. Lists => Fifo
  BY DEF Lists
<1>. QED BY <1>1, ListsInvariant, PTL

\* No run is lost and none is in two places.
THEOREM NoRunLost == Spec => []RunsAccounted
<1>1. Lists => RunsAccounted
  BY DEF Lists
<1>. QED BY <1>1, ListsInvariant, PTL

-----------------------------------------------------------------------------
(* Every active run can be reached: shutdown cancels it, a removed task stays *)
(* known while one of its runs is active *)

Reach == ShutdownCancelsAll /\ RemovedWhileDraining

LEMMA ReachInit == Init => Reach
  BY DEF Init, Reach, ShutdownCancelsAll, RemovedWhileDraining

\* Steps that leave the active lists and the places alone and never revive a context.
LEMMA SameReach ==
    ASSUME Reach, UNCHANGED <<active, place>>, shut' = shut \/ shut' = "begun",
           \A q \in RunIds : ctx[q] # "live" => ctx'[q] # "live", TypeOK
    PROVE  Reach'
<1>1. \A t \in Tasks : ToSet(active[t]) \subseteq RunIds
  BY ToSetIndex DEF TypeOK
<1>2. ShutdownCancelsAll'
  BY <1>1 DEF Reach, ShutdownCancelsAll, ActiveOf
<1>3. RemovedWhileDraining'
  BY DEF Reach, RemovedWhileDraining
<1>. QED BY <1>2, <1>3 DEF Reach

\* A run starts only in a registered task, before the cancel pass.
LEMMA StartReach ==
    ASSUME TypeOK, Reach, NEW t \in Tasks, place[t] = "live", shut = "up",
           UNCHANGED <<place, shut>>,
           \A u \in Tasks : u # t => active'[u] = active[u]
    PROVE  Reach'
  BY DEF Reach, ShutdownCancelsAll, RemovedWhileDraining

LEMMA ReachStep == TypeOK /\ Wake /\ Lists /\ Reach /\ [Next]_vars => Reach'
<1>. SUFFICES ASSUME TypeOK, Wake, Lists, Reach, [Next]_vars PROVE Reach'
  OBVIOUS
<1>. USE DEF taskVars, runVars
<1>c. \A S : \A q \in RunIds : Cancelled(S)[q] = IF q \in S /\ ctx[q] = "live" THEN "cancelled" ELSE ctx[q]
  BY DEF Cancelled
<1>a. ASSUME NEW t \in Tasks PROVE ToSet(active[t]) \subseteq RunIds /\ active[t] \in Seq(RunIds)
  <2>1. active[t] \in Seq(RunIds)
    BY DEF TypeOK
  <2>. QED BY <2>1, ToSetIndex
<1>n. ASSUME NEW t \in Tasks, NEW o, NEW n, NEW st, NewRun(t, o, n, st), place[t] = "live", ~isShutdown
      PROVE  Reach'
  <2>1. UNCHANGED <<place, shut>> /\ shut = "up"
    BY <1>n DEF NewRun, isShutdown
  <2>2. Admit(t, created + 1, st)
    BY <1>n DEF NewRun
  <2>3. \A u \in Tasks : u # t => active'[u] = active[u]
    BY <2>2 DEF Admit, StartRun, Refuse, EnterQueue, TypeOK
  <2>. QED BY <1>n, <2>1, <2>3, StartReach
<1>1. ASSUME NEW t \in Tasks, NEW o \in Origins, TriggerRunWithOptions(t, o) PROVE Reach'
  BY <1>1, <1>n DEF TriggerRunWithOptions
<1>2. ASSUME NEW t \in Tasks, NEW d \in Defs, UpsertTask(t, d) PROVE Reach'
  BY <1>2 DEF UpsertTask, Reach, ShutdownCancelsAll, RemovedWhileDraining, ActiveOf, TypeOK
<1>3. ASSUME NEW t \in Tasks, RemoveTask(t) PROVE Reach'
  BY <1>3 DEF RemoveTask, Reach, ShutdownCancelsAll, RemovedWhileDraining, ActiveOf, TypeOK
<1>4. ASSUME NEW t \in Tasks, StopTask(t) PROVE Reach'
  BY <1>4, <1>c, SameReach DEF StopTask
<1>5. ASSUME NEW r \in RunIds, TerminateRun(r) PROVE Reach'
  BY <1>5, <1>c, SameReach DEF TerminateRun
<1>6. ASSUME NEW t \in Tasks, Loop(t) PROVE Reach'
  <2>1. CASE LoopLock(t) \/ LoopPark(t) \/ LoopExit(t)
    BY <2>1, SameReach DEF LoopLock, LoopPark, LoopExit
  <2>2. CASE LoopStart(t)
    <3>1. place[t] = "live" /\ shut = "up" /\ UNCHANGED <<place, shut>>
      BY <2>2 DEF LoopStart, MustQuit, isShutdown
    <3>2. \A u \in Tasks : u # t => active'[u] = active[u]
      BY <2>2 DEF LoopStart, StartRun, TypeOK
    <3>. QED BY <3>1, <3>2, StartReach
  <2>. QED BY <1>6, <2>1, <2>2 DEF Loop
<1>7. ASSUME NEW r \in RunIds, Run(r) PROVE Reach'
  <2>1. CASE Expire(r)
    BY <2>1, SameReach DEF Expire, TypeOK
  <2>2. CASE Exit(r)
    BY <2>2, SameReach DEF Exit
  <2>3. CASE Retire(r)
    <3> DEFINE t == owner[r]
    <3>0. t \in Tasks
      BY DEF TypeOK
    <3>1. /\ active' = [active EXCEPT ![t] = active'[t]]
          /\ ToSet(active'[t]) = ToSet(active[t]) \ {r}
          /\ active'[t] \in Seq(RunIds)
      BY <2>3, RetireLists
    <3>2. \A u \in Tasks : \A x \in ToSet(active'[u]) : x \in ToSet(active[u]) /\ x # r /\ x \in RunIds
      <4>1. ASSUME NEW u \in Tasks, NEW x \in ToSet(active'[u]), u # t
            PROVE  x \in ToSet(active[u]) /\ x # r
        <5>1. active'[u] = active[u]
          BY <3>0, <3>1, <4>1 DEF TypeOK
        <5>2. owner[x] = u
          BY <4>1, <5>1 DEF Lists, RunsAccounted, ActiveOf
        <5>. QED BY <4>1, <5>1, <5>2
      <4>2. \A u \in Tasks : ToSet(active[u]) \subseteq RunIds
        BY <1>a
      <4>. QED BY <3>1, <4>1, <4>2
    <3>3. /\ shut' = shut /\ \A x \in RunIds : x # r => ctx'[x] = ctx[x]
          /\ place' = [place EXCEPT ![t] = Reaped(t, active'[t])]
      BY <2>3 DEF Retire, TypeOK
    <3>4. ShutdownCancelsAll'
      BY <3>2, <3>3 DEF Reach, ShutdownCancelsAll, ActiveOf
    <3>5. RemovedWhileDraining'
      <4>1. active[t] # <<>>
        <5>1. r \in ToSet(active[t])
          <6>1. stage[r] \in InFlight
            BY <2>3 DEF Retire, InFlight
          <6>. QED BY <6>1 DEF Lists, RunsAccounted, ActiveOf
        <5>. QED BY <5>1, AscendingEmpty
      <4>2. place[t] # "absent"
        BY <3>0, <4>1 DEF Reach, RemovedWhileDraining
      <4>3. /\ place'[t] = "absent" => active'[t] = <<>>
            /\ place'[t] = "draining" => active'[t] # <<>>
        BY <3>0, <3>3, <4>2 DEF Reaped, TypeOK
      <4>4. \A u \in Tasks : u # t => place'[u] = place[u] /\ active'[u] = active[u]
        BY <3>0, <3>1, <3>3 DEF TypeOK
      <4>. QED BY <4>3, <4>4 DEF Reach, RemovedWhileDraining
    <3>. QED BY <3>4, <3>5 DEF Reach
  <2>4. CASE RetryFire(r)
    <3>1. owner[r] \in Tasks
      BY DEF TypeOK
    <3>2. CASE UNCHANGED <<active, place, ctx, shut>>
      BY <3>2, SameReach
    <3>. QED BY <1>n, <2>4, <3>1, <3>2 DEF RetryFire
  <2>5. CASE RetryAbort(r)
    BY <2>5, SameReach DEF RetryAbort
  <2>. QED BY <1>7, <2>1, <2>2, <2>3, <2>4, <2>5 DEF Run
<1>8. CASE Shutdown
  <2>1. CASE BeginShutdown
    BY <2>1, SameReach DEF BeginShutdown
  <2>2. CASE CancelPass
    <3>1. ASSUME NEW u \in Tasks, NEW x \in ToSet(active[u]) PROVE ctx'[x] # "live"
      <4>1. x \in RunIds /\ x \in UNION {ActiveOf(t) : t \in Tasks}
        BY <1>a, <3>1 DEF ActiveOf
      <4>. QED BY <1>c, <2>2, <4>1 DEF CancelPass
    <3>2. active' = active /\ place' = place
      BY <2>2 DEF CancelPass
    <3>. QED BY <3>1, <3>2 DEF Reach, ShutdownCancelsAll, RemovedWhileDraining, ActiveOf
  <2>3. CASE Drained
    BY <2>3 DEF Drained, Reach, ShutdownCancelsAll, RemovedWhileDraining, ActiveOf
  <2>4. CASE Terminated
    BY <2>4, SameReach DEF Terminated, vars
  <2>. QED BY <1>8, <2>1, <2>2, <2>3, <2>4 DEF Shutdown
<1>9. CASE UNCHANGED vars
  BY <1>9, SameReach DEF vars
<1>. QED BY <1>1, <1>2, <1>3, <1>4, <1>5, <1>6, <1>7, <1>8, <1>9 DEF Next, Operator

LEMMA ReachInvariant == Spec => []Reach
<1>1. Init => TypeOK /\ Wake /\ Lists /\ Reach
  BY TypeInit, WakeInit, ListsInit, ReachInit
<1>2. TypeOK /\ Wake /\ Lists /\ Reach /\ [Next]_vars => (TypeOK /\ Wake /\ Lists /\ Reach)'
  BY TypeStep, WakeStep, ListsStep, ReachStep
<1>. QED BY <1>1, <1>2, PTL DEF Spec

\* After the cancel pass of a shutdown no active run of any task, removed
\* ones included, has a live context.
THEOREM ShutdownReachesAll == Spec => []ShutdownCancelsAll
<1>1. Reach => ShutdownCancelsAll
  BY DEF Reach
<1>. QED BY <1>1, ReachInvariant, PTL

\* A removed task is known exactly as long as one of its runs is active.
THEOREM RemovedTasksReachable == Spec => []RemovedWhileDraining
<1>1. Reach => RemovedWhileDraining
  BY DEF Reach
<1>. QED BY <1>1, ReachInvariant, PTL

-----------------------------------------------------------------------------
(* Counting: the n lowest elements of a set of numbers are n.  The provers *)
(* have no induction; a least counterexample takes its place.              *)

\* A set of natural numbers that is not empty has a least element.
LEMMA Least ==
    ASSUME NEW T, T \subseteq Nat, T # {}
    PROVE  \E x \in T : \A y \in T : x <= y
<1> DEFINE R == OpToRel(<, Nat)
<1>1. IsWellFoundedOn(R, Nat)
  BY NatLessThanWellFounded
<1>2. \A x, y \in Nat : x < y => <<x, y>> \in R
  BY DEF OpToRel
<1>. HIDE DEF R
<1>3. PICK x \in T : \A y \in T : ~ (<<y, x>> \in R)
  BY <1>1, WFMin
<1>4. ASSUME NEW y \in T PROVE x <= y
  <2>1. x \in Nat /\ y \in Nat /\ ~ (<<y, x>> \in R)
    BY <1>3
  <2>2. ~ (y < x)
    BY <1>2, <2>1
  <2>. QED BY <2>1, <2>2
<1>. QED BY <1>4

\* The elements up to the n-th, counted from the least.
Upto(L, j) == {k \in L : k <= j}
Lowest(L, n) == {j \in L : Cardinality(Upto(L, j)) <= n}

\* The ranks of a finite set of numbers rise with its elements, from one.
LEMMA RankFacts ==
    ASSUME NEW L, L \subseteq Nat, IsFiniteSet(L)
    PROVE  /\ \A j \in L : IsFiniteSet(Upto(L, j)) /\ Cardinality(Upto(L, j)) \in Nat \ {0}
           /\ \A i, j \in L : i < j => Cardinality(Upto(L, i)) < Cardinality(Upto(L, j))
<1>1. ASSUME NEW j \in L
      PROVE  IsFiniteSet(Upto(L, j)) /\ Cardinality(Upto(L, j)) \in Nat \ {0}
  <2>1. Upto(L, j) \in SUBSET L /\ j \in Upto(L, j)
    BY DEF Upto
  <2>2. IsFiniteSet(Upto(L, j))
    BY <2>1, FS_Subset, Zenon
  <2>. QED BY <2>1, <2>2, FS_CardinalityType, FS_EmptySet
<1>2. ASSUME NEW i \in L, NEW j \in L, i < j
      PROVE  Cardinality(Upto(L, i)) < Cardinality(Upto(L, j))
  <2>1. Upto(L, i) \in SUBSET Upto(L, j) /\ j \in Upto(L, j) /\ j \notin Upto(L, i)
    <3>1. i \in Nat /\ j \in Nat /\ \A k \in L : k \in Nat
      OBVIOUS
    <3>2. \A k \in L : k <= i => k <= j
      BY <1>2, <3>1
    <3>3. j \in Upto(L, j) /\ j \notin Upto(L, i)
      BY <1>2, <3>1 DEF Upto
    <3>4. Upto(L, i) \subseteq Upto(L, j)
      BY <3>2, Zenon DEF Upto
    <3>. QED BY <3>3, <3>4
  <2>2. /\ Cardinality(Upto(L, i)) <= Cardinality(Upto(L, j))
        /\ Cardinality(Upto(L, j)) # Cardinality(Upto(L, i))
    BY <1>1, <2>1, FS_Subset
  <2>. QED BY <1>1, <2>2
<1>. QED BY <1>1, <1>2

\* From the n - 1 lowest to the n lowest is one element.
LEMMA LowestNext ==
    ASSUME NEW L, L \subseteq Nat, IsFiniteSet(L), NEW n \in Nat \ {0}, n <= Cardinality(L),
           Cardinality(Lowest(L, n - 1)) = n - 1
    PROVE  Cardinality(Lowest(L, n)) = n
<1> DEFINE D == Lowest(L, n - 1)
           Rank(j) == Cardinality(Upto(L, j))
<1>0. D \in SUBSET L /\ Cardinality(D) = n - 1
  BY DEF Lowest
<1>1. IsFiniteSet(D)
  BY <1>0, FS_Subset, Zenon
<1>2. /\ \A j \in L : Rank(j) \in Nat \ {0}
      /\ \A i, j \in L : i < j => Rank(i) < Rank(j)
  BY RankFacts, Zenon
<1>3. /\ \A j \in L : j \in D <=> Rank(j) <= n - 1
      /\ \A j \in L : j \in Lowest(L, n) <=> Rank(j) <= n
      /\ Lowest(L, n) \subseteq L
  BY DEF Lowest
<1>4. PICK m \in L \ D : \A y \in L \ D : m <= y
  <2>1. L \ D # {}
    <3>1. L # D
      BY <1>0
    <3>. QED BY <1>0, <3>1
  <2>. QED BY <2>1, Least
<1>5. Upto(L, m) = D \cup {m}
  <2>1. ASSUME NEW k \in D PROVE k \in L /\ k <= m
    <3>1. k \in L /\ Rank(k) <= n - 1 /\ ~(Rank(m) <= n - 1) /\ Rank(k) \in Nat /\ Rank(m) \in Nat
      BY <1>0, <1>2, <1>3, <1>4
    <3>2. m < k => Rank(m) < Rank(k)
      BY <1>2, <1>4, <3>1, Zenon
    <3>. HIDE DEF Rank
    <3>3. ~(m < k)
      BY <3>1, <3>2
    <3>. QED BY <1>4, <3>1, <3>3
  <2>2. ASSUME NEW k \in L, k <= m, k # m PROVE k \in D
    BY <1>4, <2>2
  <2>. QED BY <1>4, <2>1, <2>2 DEF Upto
<1>6. Cardinality(D \cup {m}) = n
  <2>1. m \notin D /\ (n - 1) + 1 = n
    BY <1>4
  <2>2. Cardinality(D \cup {m}) = Cardinality(D) + 1
    BY <1>1, <2>1, FS_AddElement
  <2>. QED BY <1>0, <2>1, <2>2
<1>7. Rank(m) = n
  BY <1>5, <1>6
<1>. HIDE DEF D, Rank
<1>8. ASSUME NEW k \in L PROVE k \in Lowest(L, n) <=> k \in D \cup {m}
  <2>1. Rank(k) \in Nat \ {0} /\ (m < k => n < Rank(k)) /\ (k < m => Rank(k) < n)
    BY <1>2, <1>4, <1>7
  <2>2. k \in D <=> Rank(k) <= n - 1
    BY <1>3
  <2>3. k \in Lowest(L, n) <=> Rank(k) <= n
    BY <1>3
  <2>4. k \in Nat /\ m \in Nat
    BY <1>4
  <2>. QED BY <1>7, <2>1, <2>2, <2>3, <2>4
<1>9. Lowest(L, n) = D \cup {m}
  BY <1>0, <1>3, <1>4, <1>8
<1>. QED BY <1>6, <1>9

\* As many as are asked for.
LEMMA LowestCount ==
    ASSUME NEW L, L \subseteq Nat, IsFiniteSet(L), NEW n \in Nat, n <= Cardinality(L)
    PROVE  Cardinality(Lowest(L, n)) = n
<1> DEFINE Wrong == {k \in 0 .. Cardinality(L) : Cardinality(Lowest(L, k)) # k}
<1>0. Cardinality(L) \in Nat
  BY FS_CardinalityType
<1>1. SUFFICES ASSUME Wrong # {} PROVE FALSE
  BY <1>0
<1>2. Wrong \subseteq Nat
  BY <1>0
<1>3. PICK k \in Wrong : \A y \in Wrong : k <= y
  BY <1>1, <1>2, Least
<1>4. k # 0
  <2>1. \A j \in L : Cardinality(Upto(L, j)) \in Nat \ {0}
    BY RankFacts, Zenon
  <2>2. Lowest(L, 0) = {}
    <3>1. \A j \in L : ~(Cardinality(Upto(L, j)) <= 0)
      BY <2>1
    <3>. QED BY <3>1 DEF Lowest
  <2>. QED BY <1>3, <2>2, FS_EmptySet
<1>5. k \in Nat \ {0} /\ k <= Cardinality(L) /\ k - 1 \in 0 .. Cardinality(L)
  BY <1>0, <1>3, <1>4
<1>6. Cardinality(Lowest(L, k - 1)) = k - 1
  <2>1. k - 1 \notin Wrong
    BY <1>3, <1>5
  <2>. QED BY <1>5, <2>1
<1>7. Cardinality(Lowest(L, k)) = k
  BY <1>5, <1>6, LowestNext
<1>. QED BY <1>3, <1>7

-----------------------------------------------------------------------------
(* What the kill policy leaves alive *)

\* Live, said of a list of runs and the set of those the policy has cancelled.
LiveOf(s, S) == {i \in 1 .. Len(s) : s[i] \notin S}

LEMMA LiveOfType ==
    ASSUME NEW s \in Seq(RunIds), NEW S
    PROVE  /\ LiveOf(s, S) \subseteq Nat /\ IsFiniteSet(LiveOf(s, S))
           /\ Cardinality(LiveOf(s, S)) \in Nat /\ Cardinality(LiveOf(s, S)) <= Len(s)
<1>1. Len(s) \in Nat
  BY LenProperties
<1>2. IsFiniteSet(1 .. Len(s)) /\ Cardinality(1 .. Len(s)) = Len(s)
  <2>1. Cardinality(1 .. Len(s)) = Len(s) - 1 + 1 \/ Len(s) < 1
    BY <1>1, FS_Interval
  <2>2. IsFiniteSet(1 .. Len(s)) /\ Cardinality(1 .. Len(s)) \in Nat
    BY <1>1, FS_Interval, FS_CardinalityType
  <2>3. Len(s) < 1 => 1 .. Len(s) = {}
    BY <1>1
  <2>. QED BY <1>1, <2>1, <2>2, <2>3, FS_EmptySet
<1>3. LiveOf(s, S) \in SUBSET (1 .. Len(s))
  BY DEF LiveOf
<1>4. IsFiniteSet(LiveOf(s, S)) /\ Cardinality(LiveOf(s, S)) <= Len(s)
  BY <1>2, <1>3, FS_Subset
<1>. QED BY <1>1, <1>3, <1>4, FS_CardinalityType

\* A run starts and the runs at the places P, all of them live, are cancelled:
\* the list holds a run once, so exactly those places are lost.
LEMMA LiveAppend ==
    ASSUME NEW s \in Seq(RunIds), Ascending(s), NEW S, NEW e \in RunIds, e \notin S,
           e \notin ToSet(s), NEW P \in SUBSET LiveOf(s, S)
    PROVE  LiveOf(Append(s, e), S \cup {s[i] : i \in P}) = (LiveOf(s, S) \ P) \cup {Len(s) + 1}
<1> DEFINE u == Append(s, e)
           V == {s[i] : i \in P}
<1>1. /\ Len(s) \in Nat
      /\ u \in Seq(RunIds) /\ Len(u) = Len(s) + 1
      /\ \A i \in 1 .. Len(s) : u[i] = s[i]
      /\ u[Len(s) + 1] = e
  BY AppendFacts, LenProperties
<1>2. \A i \in 1 .. Len(s) : s[i] # e /\ s[i] \in Nat
  BY ToSetIndex, ElementOfSeq, ConstantFacts
<1>3. P \subseteq 1 .. Len(s)
  BY DEF LiveOf
<1>4. \A i, j \in 1 .. Len(s) : s[i] = s[j] => i = j
  BY <1>1, <1>2 DEF Ascending
<1>5. \A x : x \in V <=> \E i \in P : x = s[i]
  OBVIOUS
<1>. HIDE DEF u, V
<1>6. \A i \in 1 .. Len(s) : s[i] \in V <=> i \in P
  BY <1>3, <1>4, <1>5, Zenon
<1>7. e \notin V
  BY <1>2, <1>3, <1>5
<1>8. ASSUME NEW i PROVE i \in LiveOf(u, S \cup V) <=> i \in (LiveOf(s, S) \ P) \cup {Len(s) + 1}
  <2>1. i \in 1 .. Len(u) <=> i \in 1 .. Len(s) \/ i = Len(s) + 1
    BY <1>1
  <2>2. i \in LiveOf(u, S \cup V) <=> i \in 1 .. Len(u) /\ u[i] \notin S /\ u[i] \notin V
    BY DEF LiveOf
  <2>3. i \in LiveOf(s, S) <=> i \in 1 .. Len(s) /\ s[i] \notin S
    BY DEF LiveOf
  <2>4. CASE i \in 1 .. Len(s)
    <3>1. u[i] = s[i] /\ (s[i] \in V <=> i \in P) /\ i # Len(s) + 1
      BY <1>1, <1>6, <2>4
    <3>. QED BY <2>1, <2>2, <2>3, <2>4, <3>1, Zenon
  <2>5. CASE i = Len(s) + 1
    BY <1>1, <1>7, <2>1, <2>2, <2>5
  <2>6. CASE ~(i \in 1 .. Len(s) \/ i = Len(s) + 1)
    BY <2>1, <2>2, <2>3, <2>6
  <2>. QED BY <2>4, <2>5, <2>6
<1>. QED BY <1>8 DEF u, V

\* cancelExcessRuns: with limit places, the lowest live runs beyond limit - 1
\* make room; the new run takes the last place.
LEMMA KillCount ==
    ASSUME NEW s \in Seq(RunIds), Ascending(s), NEW S, NEW e \in RunIds, e \notin S,
           e \notin ToSet(s), NEW limit \in Nat \ {0}, NEW n,
           n = Cardinality(LiveOf(s, S)) - limit + 1
    PROVE  LET P == Lowest(LiveOf(s, S), n)
               left == Cardinality(LiveOf(Append(s, e), S \cup {s[i] : i \in P}))
           IN  left <= limit /\ (P # {} => left = limit)
<1> DEFINE L == LiveOf(s, S)
           P == Lowest(L, n)
           M == LiveOf(Append(s, e), S \cup {s[i] : i \in P})
<1>1. L \subseteq Nat /\ IsFiniteSet(L) /\ Cardinality(L) \in Nat
  BY LiveOfType
<1>2. P \in SUBSET L
  BY DEF Lowest
<1>3. n \in Int /\ n <= Cardinality(L) /\ Cardinality(L) - n + 1 = limit
  BY <1>1
<1>4. M = (L \ P) \cup {Len(s) + 1}
  <2>1. P \in SUBSET LiveOf(s, S)
    BY <1>2
  <2>. HIDE DEF P
  <2>. QED BY <2>1, LiveAppend, Zenon
<1>5. Len(s) + 1 \notin L
  BY LenProperties DEF LiveOf
<1>6. IsFiniteSet(L \ P) /\ Cardinality(L \ P) = Cardinality(L) - Cardinality(P)
  <2>1. L \cap P = P
    BY <1>2
  <2>2. IsFiniteSet(L \ P) /\ Cardinality(L \ P) = Cardinality(L) - Cardinality(L \cap P)
    BY <1>1, FS_Difference, Zenon
  <2>. QED BY <2>1, <2>2, Zenon
<1>7. IsFiniteSet(P) /\ Cardinality(P) \in Nat
  <2>1. IsFiniteSet(P)
    BY <1>1, <1>2, FS_Subset, Zenon
  <2>. QED BY <2>1, FS_CardinalityType
<1>8. Cardinality(M) = Cardinality(L) - Cardinality(P) + 1
  <2>1. Len(s) + 1 \notin L \ P
    BY <1>5
  <2>2. Cardinality(M) = Cardinality(L \ P) + 1
    <3>. DEFINE D == L \ P
                x == Len(s) + 1
    <3>1. IsFiniteSet(D) /\ x \notin D
      BY <1>6, <2>1
    <3>. HIDE DEF D, x
    <3>2. Cardinality(D \cup {x}) = Cardinality(D) + 1
      BY <3>1, FS_AddElement, Zenon
    <3>. USE DEF D, x
    <3>. HIDE DEF M
    <3>. QED BY <1>4, <3>2, Zenon
  <2>. QED BY <1>6, <2>2
<1>9. CASE n \in Nat
  <2>1. Cardinality(P) = n
    BY <1>1, <1>3, <1>9, LowestCount
  <2>. QED BY <1>1, <1>3, <1>8, <2>1
<1>10. CASE n \notin Nat
  <2>1. \A j \in L : Cardinality(Upto(L, j)) \in Nat \ {0}
    BY <1>1, RankFacts, Zenon
  <2>2. n < 0
    BY <1>3, <1>10
  <2>3. \A j \in L : ~(Cardinality(Upto(L, j)) <= n)
    BY <1>3, <2>1, <2>2
  <2>4. P = {}
    BY <2>3 DEF Lowest
  <2>5. Cardinality(P) = 0
    BY <2>4, FS_EmptySet
  <2>. QED BY <1>1, <1>3, <1>8, <2>2, <2>4, <2>5
<1>. QED BY <1>9, <1>10

-----------------------------------------------------------------------------
(* No start exceeds the limit, and the kill policy cancels no more than it must *)

\* The policy has cancelled created runs only: the next run is not among them.
LatchedCreated == \A q \in latched : q <= created

LEMMA VictimsActive ==
    ASSUME NEW t \in Tasks, TypeOK
    PROVE  Victims(t) \subseteq ActiveOf(t)
<1>1. \A i \in Live(t) : active[t][i] \in ActiveOf(t)
  <2>1. active[t] \in Seq(RunIds)
    BY DEF TypeOK
  <2>. QED BY <2>1, ToSetIndex DEF Live, ActiveOf
<1>2. ASSUME NEW x \in Victims(t) PROVE x \in ActiveOf(t)
  <2>1. PICK i \in Live(t) : x = active[t][i]
    BY Zenon DEF Victims
  <2>. QED BY <1>1, <2>1
<1>. QED BY <1>2

\* Only an admission adds to the latched runs, and only active ones.
LEMMA LatchedStep == TypeOK /\ Lists /\ LatchedCreated /\ [Next]_vars => LatchedCreated'
<1> SUFFICES ASSUME TypeOK, Lists, LatchedCreated, [Next]_vars PROVE LatchedCreated'
  OBVIOUS
<1>1. created \in Nat /\ latched \subseteq Nat
  BY ConstantFacts DEF TypeOK
<1>2. ASSUME NEW t \in Tasks, NEW o, NEW n, NEW st, NewRun(t, o, n, st) PROVE LatchedCreated'
  <2>1. created' = created + 1 /\ Admit(t, created + 1, st)
    BY <1>2 DEF NewRun
  <2>2. latched' = latched \/ latched' = latched \cup Victims(t)
    BY <2>1 DEF Admit, Refuse, EnterQueue
  <2>3. \A x \in ActiveOf(t) : x <= created
    BY DEF Lists, Known
  <2>4. \A x \in latched' : x <= created /\ x \in Nat
    <3>1. Victims(t) \subseteq ActiveOf(t) /\ ActiveOf(t) \subseteq RunIds
      BY VictimsActive, ToSetIndex DEF TypeOK, ActiveOf
    <3>. QED BY <1>1, <2>2, <2>3, <3>1, ConstantFacts DEF LatchedCreated
  <2>5. \A x \in latched' : x <= created + 1
    BY <1>1, <2>4
  <2>. QED BY <2>1, <2>5 DEF LatchedCreated
<1>3. ASSUME created' = created, latched' \subseteq latched PROVE LatchedCreated'
  BY <1>3 DEF LatchedCreated
<1>4. CASE Operator
  <2>1. ASSUME NEW t \in Tasks, NEW o \in Origins, TriggerRunWithOptions(t, o) PROVE LatchedCreated'
    BY <1>2, <2>1 DEF TriggerRunWithOptions
  <2>2. ASSUME NEW t \in Tasks, NEW d \in Defs, UpsertTask(t, d) PROVE LatchedCreated'
    BY <1>3, <2>2 DEF UpsertTask
  <2>3. ASSUME NEW t \in Tasks, RemoveTask(t) \/ StopTask(t) PROVE LatchedCreated'
    BY <1>3, <2>3 DEF RemoveTask, StopTask
  <2>4. ASSUME NEW r \in RunIds, TerminateRun(r) PROVE LatchedCreated'
    BY <1>3, <2>4 DEF TerminateRun
  <2>. QED BY <1>4, <2>1, <2>2, <2>3, <2>4 DEF Operator
<1>5. ASSUME NEW t \in Tasks, Loop(t) PROVE LatchedCreated'
  BY <1>3, <1>5 DEF Loop, LoopLock, LoopStart, LoopPark, LoopExit, runVars
<1>6. ASSUME NEW r \in RunIds, Run(r) PROVE LatchedCreated'
  <2>1. CASE Expire(r) \/ Exit(r) \/ Retire(r) \/ RetryAbort(r)
    BY <1>3, <2>1 DEF Expire, Exit, Retire, RetryAbort
  <2>2. CASE RetryFire(r)
    <3>1. owner[r] \in Tasks
      BY DEF TypeOK
    <3>2. CASE NewRun(owner[r], origin[r], attempt[r] + 1, [stage EXCEPT ![r] = "ended"])
      BY <1>2, <3>1, <3>2
    <3>3. CASE UNCHANGED <<created, latched>>
      BY <1>3, <3>3
    <3>. QED BY <2>2, <3>2, <3>3 DEF RetryFire
  <2>. QED BY <1>6, <2>1, <2>2 DEF Run
<1>7. CASE Shutdown \/ UNCHANGED vars
  BY <1>3, <1>7 DEF Shutdown, BeginShutdown, CancelPass, Drained, Terminated, vars, runVars
<1>. QED BY <1>4, <1>5, <1>6, <1>7 DEF Next

\* What the two properties ask of a step.
Within(t) ==
    Started(t) => IF def[t].policy = "kill"
                  THEN Cardinality(Live(t)') <= def[t].limit
                  ELSE Len(active'[t]) <= def[t].limit
ExactlyFull(t) ==
    Victims(t) # {} /\ latched' # latched /\ Started(t) => Cardinality(Live(t)') = def[t].limit

\* A start that finds a free slot.
LEMMA FreeStart ==
    ASSUME TypeOK, NEW t \in Tasks, NEW r \in RunIds, FreeSlot(t),
           active' = [active EXCEPT ![t] = Append(@, r)], latched' = latched
    PROVE  Within(t) /\ ExactlyFull(t)
<1>1. active[t] \in Seq(RunIds) /\ active'[t] = Append(active[t], r) /\ def[t].limit \in Nat
  BY ConstantFacts DEF TypeOK
<1>2. Append(active[t], r) \in Seq(RunIds) /\ Len(Append(active[t], r)) = Len(active[t]) + 1
  BY <1>1, AppendFacts
<1>3. Len(active'[t]) <= def[t].limit
  BY <1>1, <1>2, LenProperties DEF FreeSlot
<1>4. Live(t)' = LiveOf(active'[t], latched')
  BY DEF Live, LiveOf
<1>5. Cardinality(Live(t)') \in Nat /\ Cardinality(Live(t)') <= Len(active'[t])
  BY <1>1, <1>2, <1>4, LiveOfType
<1>6. Cardinality(Live(t)') <= def[t].limit
  BY <1>1, <1>2, <1>3, <1>5, LenProperties
<1>. QED BY <1>3, <1>6 DEF Within, ExactlyFull

\* A start of the kill policy.
LEMMA KillStart ==
    ASSUME TypeOK, Lists, LatchedCreated, NEW t \in Tasks, created + 1 \in RunIds,
           def[t].policy = "kill",
           active' = [active EXCEPT ![t] = Append(@, created + 1)],
           latched' = latched \cup Victims(t)
    PROVE  Within(t) /\ ExactlyFull(t)
<1> DEFINE r == created + 1
           L == Live(t)
           P == Lowest(L, Needed(t))
<1>1. /\ active[t] \in Seq(RunIds) /\ active'[t] = Append(active[t], r)
      /\ def[t].limit \in Nat \ {0} /\ created \in Nat
  BY ConstantFacts DEF TypeOK
<1>2. Ascending(active[t])
  BY DEF Lists, Fifo
<1>3. r \notin latched
  BY <1>1 DEF LatchedCreated
<1>4. r \notin ToSet(active[t])
  <2>1. \A x \in ToSet(active[t]) : x <= created
    BY DEF Lists, Known, ActiveOf
  <2>. QED BY <1>1, <2>1
<1>5. L = LiveOf(active[t], latched) /\ Live(t)' = LiveOf(active'[t], latched')
  BY DEF Live, LiveOf
<1>6. Needed(t) = Cardinality(LiveOf(active[t], latched)) - def[t].limit + 1
  BY <1>5 DEF Needed
<1>7. Victims(t) = {active[t][i] : i \in P}
  BY DEF Victims, Lowest, Upto
<1>8. Live(t)' = LiveOf(Append(active[t], r), latched \cup {active[t][i] : i \in P})
  BY <1>1, <1>5, <1>7
<1>9. Victims(t) # {} => P # {}
  BY <1>7
<1>. HIDE DEF r, L
<1>10. /\ Cardinality(Live(t)') <= def[t].limit
       /\ P # {} => Cardinality(Live(t)') = def[t].limit
  <2>1. r \in RunIds
    BY DEF r
  <2>. DEFINE n == Needed(t)
             limit == def[t].limit
             M == LiveOf(Append(active[t], r), latched \cup {active[t][i] : i \in P})
  <2>2. /\ active[t] \in Seq(RunIds) /\ Ascending(active[t]) /\ r \in RunIds /\ r \notin latched
        /\ r \notin ToSet(active[t]) /\ limit \in Nat \ {0}
        /\ n = Cardinality(LiveOf(active[t], latched)) - limit + 1
    BY <1>1, <1>2, <1>3, <1>4, <1>6, <2>1
  <2>3. P = Lowest(LiveOf(active[t], latched), n)
    BY <1>5
  <2>. HIDE DEF n, limit, P
  <2>4. Cardinality(M) <= limit /\ (P # {} => Cardinality(M) = limit)
    BY <2>2, <2>3, KillCount
  <2>. HIDE DEF M
  <2>5. Live(t)' = M
    BY <1>8 DEF M
  <2>. QED BY <2>4, <2>5 DEF limit
<1>. QED BY <1>9, <1>10 DEF Within, ExactlyFull

\* A list that does not grow.
LEMMA NoStart ==
    ASSUME TypeOK, NEW t \in Tasks, Len(active'[t]) \in Nat, Len(active'[t]) <= Len(active[t])
    PROVE  Within(t) /\ ExactlyFull(t)
<1>1. Len(active[t]) \in Nat
  BY LenProperties DEF TypeOK
<1>. QED BY <1>1 DEF Within, ExactlyFull, Started

\* Every step.
LEMMA LimitStep ==
    ASSUME TypeOK, Lists, LatchedCreated, [Next]_vars, NEW u \in Tasks
    PROVE  Within(u) /\ ExactlyFull(u)
<1>1. ASSUME active'[u] = active[u] PROVE Within(u) /\ ExactlyFull(u)
  <2>1. Len(active[u]) \in Nat
    BY LenProperties DEF TypeOK
  <2>. QED BY <1>1, <2>1, NoStart
<1>2. ASSUME NEW t \in Tasks, NEW o, NEW n, NEW st, NewRun(t, o, n, st)
      PROVE  Within(u) /\ ExactlyFull(u)
  <2>1. created + 1 \in RunIds /\ Admit(t, created + 1, st)
    BY <1>2, ConstantFacts DEF NewRun, TypeOK, RunIds
  <2>2. CASE UNCHANGED active
    BY <1>1, <2>2
  <2>3. ASSUME StartRun(t, created + 1, st), u # t PROVE Within(u) /\ ExactlyFull(u)
    BY <1>1, <2>3 DEF StartRun, TypeOK
  <2>4. ASSUME StartRun(t, created + 1, st), FreeSlot(t), UNCHANGED latched, u = t
        PROVE  Within(u) /\ ExactlyFull(u)
    BY <2>1, <2>4, FreeStart DEF StartRun
  <2>5. ASSUME StartRun(t, created + 1, st), def[t].policy = "kill",
               latched' = latched \cup Victims(t), u = t
        PROVE  Within(u) /\ ExactlyFull(u)
    BY <2>1, <2>5, KillStart DEF StartRun
  <2>. QED BY <2>1, <2>2, <2>3, <2>4, <2>5 DEF Admit, Refuse, EnterQueue
<1>3. CASE Operator
  <2>1. ASSUME NEW t \in Tasks, NEW o \in Origins, TriggerRunWithOptions(t, o)
        PROVE  Within(u) /\ ExactlyFull(u)
    BY <1>2, <2>1 DEF TriggerRunWithOptions
  <2>2. ASSUME NEW t \in Tasks, NEW d \in Defs, UpsertTask(t, d) PROVE UNCHANGED active
    BY <2>2 DEF UpsertTask
  <2>3. ASSUME NEW t \in Tasks, RemoveTask(t) \/ StopTask(t) PROVE UNCHANGED active
    BY <2>3 DEF RemoveTask, StopTask
  <2>4. ASSUME NEW r \in RunIds, TerminateRun(r) PROVE UNCHANGED active
    BY <2>4 DEF TerminateRun, taskVars
  <2>. QED BY <1>1, <1>3, <2>1, <2>2, <2>3, <2>4 DEF Operator
<1>4. ASSUME NEW t \in Tasks, Loop(t) PROVE Within(u) /\ ExactlyFull(u)
  <2>1. CASE LoopLock(t) \/ LoopPark(t) \/ LoopExit(t)
    BY <1>1, <2>1 DEF LoopLock, LoopPark, LoopExit
  <2>2. CASE LoopStart(t)
    <3>1. /\ FreeSlot(t) /\ queue[t] # <<>> /\ queue[t] \in Seq(RunIds) /\ latched' = latched
          /\ active' = [active EXCEPT ![t] = Append(@, Head(queue[t]))]
      BY <2>2 DEF LoopStart, CanStart, StartRun, TypeOK
    <3>2. Head(queue[t]) \in RunIds
      BY <3>1, TailFacts
    <3>3. CASE u = t
      BY <3>1, <3>2, <3>3, FreeStart
    <3>4. CASE u # t
      BY <1>1, <3>1, <3>4 DEF TypeOK
    <3>. QED BY <3>3, <3>4
  <2>. QED BY <1>4, <2>1, <2>2 DEF Loop
<1>5. ASSUME NEW r \in RunIds, Run(r) PROVE Within(u) /\ ExactlyFull(u)
  <2>1. CASE Expire(r) \/ Exit(r) \/ RetryAbort(r)
    BY <1>1, <2>1 DEF Expire, Exit, RetryAbort, taskVars
  <2>2. CASE Retire(r)
    <3>1. PICK i \in 1 .. Len(active[owner[r]]) :
            active' = [active EXCEPT ![owner[r]] = RemoveAt(active[owner[r]], i)]
      BY <2>2 DEF Retire
    <3>2. CASE u # owner[r]
      BY <1>1, <3>1, <3>2 DEF TypeOK
    <3>3. CASE u = owner[r]
      <4>1. active[u] \in Seq(RunIds) /\ active'[u] = RemoveAt(active[u], i) /\ i \in 1 .. Len(active[u])
        BY <3>1, <3>3 DEF TypeOK
      <4>2. RemoveAt(active[u], i) \in Seq(RunIds) /\ Len(RemoveAt(active[u], i)) = Len(active[u]) - 1
        BY <4>1, RemoveAtFacts
      <4>3. Len(active'[u]) \in Nat /\ Len(active[u]) \in Nat /\ Len(active'[u]) <= Len(active[u])
        BY <4>1, <4>2, LenProperties
      <4>. QED BY <4>3, NoStart
    <3>. QED BY <3>2, <3>3
  <2>3. CASE RetryFire(r)
    <3>1. owner[r] \in Tasks
      BY DEF TypeOK
    <3>2. CASE NewRun(owner[r], origin[r], attempt[r] + 1, [stage EXCEPT ![r] = "ended"])
      BY <1>2, <3>1, <3>2
    <3>3. CASE UNCHANGED active
      BY <1>1, <3>3
    <3>. QED BY <2>3, <3>2, <3>3 DEF RetryFire, taskVars
  <2>. QED BY <1>5, <2>1, <2>2, <2>3 DEF Run
<1>6. CASE Shutdown \/ UNCHANGED vars
  BY <1>1, <1>6 DEF Shutdown, BeginShutdown, CancelPass, Drained, Terminated, vars, taskVars
<1>. QED BY <1>3, <1>4, <1>5, <1>6 DEF Next

LEMMA LatchedInvariant == Spec => [](TypeOK /\ Lists /\ LatchedCreated)
<1>1. Init => LatchedCreated
  BY DEF Init, LatchedCreated
<1>2. TypeOK /\ Wake /\ Lists /\ LatchedCreated /\ [Next]_vars => LatchedCreated'
  BY LatchedStep
<1>. QED BY <1>1, <1>2, ListsInvariant, PTL DEF Spec

\* A start never leaves more runs of a task than max_concurrent; under the kill
\* policy those it has cancelled do not count.
THEOREM LimitKept == Spec => StartWithinLimit
<1> DEFINE A == \A t \in Tasks : Started(t) =>
                  IF def[t].policy = "kill"
                  THEN Cardinality(Live(t)') <= def[t].limit
                  ELSE Len(active'[t]) <= def[t].limit
<1>1. TypeOK /\ Lists /\ LatchedCreated /\ [Next]_vars => [A]_vars
  BY LimitStep DEF Within
<1>2. Spec => [][A]_vars
  BY <1>1, LatchedInvariant, PTL DEF Spec
<1>. QED BY <1>2 DEF StartWithinLimit

\* After the kill policy has made room the task is exactly at its limit.
THEOREM NoNeedlessKill == Spec => KillsNoMore
<1> DEFINE A == \A t \in Tasks : Victims(t) # {} /\ latched' # latched /\ Started(t) =>
                  Cardinality(Live(t)') = def[t].limit
<1>1. TypeOK /\ Lists /\ LatchedCreated /\ [Next]_vars => [A]_vars
  BY LimitStep DEF ExactlyFull
<1>2. Spec => [][A]_vars
  BY <1>1, LatchedInvariant, PTL DEF Spec
<1>. QED BY <1>2 DEF KillsNoMore

-----------------------------------------------------------------------------
(* A shutdown is never stuck: the safety half of ShutdownCompletes *)

\* Where a drain goroutine, or a run or retry goroutine, is not held up by anybody.
LoopMay(t) == loop[t] = "holding" \/ (loop[t] = "ready" /\ LockFree)
RunMay(r) ==
    \/ stage[r] = "active" /\ ctx[r] # "live"
    \/ stage[r] \in {"exited", "failed"} /\ LockFree /\ r \in ActiveOf(owner[r])
    \/ stage[r] = "retrying" /\ isShutdown

\* All that m.wg counts can go on, or waits for the lock, whose holder can.
ShutdownGoesOn ==
    shut = "cancelled" =>
        /\ ~LockFree => \E t \in Tasks : LoopMay(t)
        /\ LockFree =>
              /\ \A t \in Tasks : loop[t] # "none" => LoopMay(t)
              /\ \A r \in RunIds : stage[r] \in InFlight \cup {"retrying"} => RunMay(r)

\* When the cancel pass is over nobody that wg.Wait waits for waits in turn for something
\* that does not come: no drain goroutine sleeps, no run has a live context, each run that
\* ended is in the list it has to leave.  This needs the wakeups, the cancel pass and the
\* lists together.
THEOREM ShutdownNeverStuck == Spec => []ShutdownGoesOn
<1>1. ASSUME TypeOK, Wake, Lists, Reach PROVE ShutdownGoesOn
  <2>. SUFFICES ASSUME shut = "cancelled"
                PROVE  /\ ~LockFree => \E t \in Tasks : LoopMay(t)
                       /\ LockFree =>
                             /\ \A t \in Tasks : loop[t] # "none" => LoopMay(t)
                             /\ \A r \in RunIds : stage[r] \in InFlight \cup {"retrying"} => RunMay(r)
    BY DEF ShutdownGoesOn
  <2>1. ~LockFree => \E t \in Tasks : LoopMay(t)
    BY DEF LockFree, LoopMay
  <2>2. ASSUME LockFree, NEW t \in Tasks, loop[t] # "none" PROVE LoopMay(t)
    <3>1. loop[t] # "parked"
      BY <1>1 DEF Wake, NoLostWakeup
    <3>2. loop[t] \in {"none", "ready", "holding", "parked"}
      BY <1>1 DEF TypeOK
    <3>. QED BY <2>2, <3>1, <3>2 DEF LoopMay
  <2>3. ASSUME LockFree, NEW r \in RunIds, stage[r] \in InFlight \cup {"retrying"} PROVE RunMay(r)
    <3>1. CASE stage[r] \in InFlight
      <4>1. r \in ActiveOf(owner[r]) /\ owner[r] \in Tasks
        BY <1>1, <3>1 DEF Lists, RunsAccounted, TypeOK
      <4>2. ctx[r] # "live"
        BY <1>1, <4>1 DEF Reach, ShutdownCancelsAll
      <4>. QED BY <2>3, <3>1, <4>1, <4>2 DEF RunMay, InFlight
    <3>2. CASE stage[r] = "retrying"
      BY <3>2 DEF RunMay, isShutdown
    <3>. QED BY <2>3, <3>1, <3>2
  <2>. QED BY <2>1, <2>2, <2>3
<1>2. Spec => []TypeOK
  BY TypeCorrect
<1>3. Spec => []Wake
  <2>1. Init => TypeOK /\ Wake
    BY TypeInit, WakeInit
  <2>2. TypeOK /\ Wake /\ [Next]_vars => (TypeOK /\ Wake)'
    BY TypeStep, WakeStep
  <2>. QED BY <2>1, <2>2, PTL DEF Spec
<1>. QED BY <1>1, <1>2, <1>3, ListsInvariant, ReachInvariant, PTL
=============================================================================
