-------------------------- MODULE JitterGate_proofs --------------------------
(* Theorems about JitterGate, for any tasks, schedules and windows. *)
EXTENDS JitterGate, TLAPS

LEMMA ConstantFacts ==
    /\ MaxTime \in Nat /\ MaxRuns \in Nat
    /\ 0 \in Time
    /\ \A t \in Tasks : Window[t] \in Nat
    /\ \A n \in 0 .. MaxRuns : n < MaxRuns => n + 1 \in RunIds /\ n + 1 \in 0 .. MaxRuns
  BY JitterGateAssumption DEF Time, RunIds

(***************************************************************************)
(* Types                                                                   *)
(***************************************************************************)
LEMMA ScheduleFacts ==
    \A t \in Tasks, n \in Time : NextTick[t][n] \in Nat /\ NextTick[t][n] > n
  BY JitterGateAssumption

\* What fireOnce's clamp makes of an offset and a window.
LEMMA LimitFacts ==
    ASSUME NEW t \in Tasks, now \in Time, NEW offset \in 0 .. Window[t]
    PROVE  /\ Limit(t) \in Nat
           /\ Least(offset, Limit(t)) \in Nat
           /\ Least(Window[t], Limit(t)) \in Nat
           /\ Least(offset, Limit(t)) <= Least(Window[t], Limit(t))
           /\ now + Least(Window[t], Limit(t)) < NextTick[t][now]
<1>1. NextTick[t][now] \in Nat /\ NextTick[t][now] > now /\ now \in Nat
  BY JitterGateAssumption DEF Time
<1>2. Window[t] \in Nat
  BY ConstantFacts
<1> QED
  BY <1>1, <1>2 DEF Limit, Least

\* The fire that submit holds: with its own slot, or with a taken over one.
LEMMA EnqueuedFire ==
    ASSUME TypeOK, NEW t \in Tasks, NEW slot \in Nat, NEW horizon \in Nat,
           now <= slot, slot <= now + horizon, Enqueue(t, slot, horizon)
    PROVE  \E s \in Nat :
              /\ now <= s /\ s <= now + horizon
              /\ Hold(t, s, horizon)
<1>1. CASE Hold(t, slot, horizon)
  BY <1>1
<1>2. CASE \E r \in inflight : Latest(r, Donors(slot)) /\ Hold(t, TakeOver(due[r], now + horizon), horizon)
  <2>1. PICK r \in inflight : Latest(r, Donors(slot)) /\ Hold(t, TakeOver(due[r], now + horizon), horizon)
    BY <1>2
  <2>2. due[r] > slot /\ due[r] \in Nat /\ now \in Nat
    BY <2>1 DEF Latest, Donors, TypeOK, Time
  <2>3. /\ TakeOver(due[r], now + horizon) \in Nat
        /\ now <= TakeOver(due[r], now + horizon)
        /\ TakeOver(due[r], now + horizon) <= now + horizon
    BY <2>2 DEF TakeOver, Least
  <2> QED
    BY <2>1, <2>3
<1> QED
  BY <1>1, <1>2 DEF Enqueue

LEMMA TypeInit == Init => TypeOK
<1> SUFFICES ASSUME Init PROVE TypeOK
  OBVIOUS
<1>1. created \in 0 .. MaxRuns /\ now \in Time
  BY ConstantFacts DEF Init
<1> QED
  BY <1>1 DEF Init, TypeOK

LEMMA FireType ==
    ASSUME TypeOK, NEW h \in pending, Fire(h)
    PROVE  /\ inflight' \subseteq RunIds
           /\ start' \in [RunIds -> Nat] /\ due' \in [RunIds -> Nat]
           /\ created' \in 0 .. MaxRuns
           /\ life' \in [RunIds -> {"new", "live", "ended", "gone"}]
<1>1. h.slot \in Nat /\ now \in Nat
  BY DEF TypeOK, Held, Time
<1>2. CASE UNCHANGED <<inflight, start, due, runs>>
  BY <1>2 DEF TypeOK, runs
<1>3. CASE created < MaxRuns /\ CreateRun /\ inflight' = inflight \cup {created + 1}
           /\ start' = [start EXCEPT ![created + 1] = now]
           /\ due' = [due EXCEPT ![created + 1] = h.slot]
  <2>1. created + 1 \in RunIds /\ created + 1 \in 0 .. MaxRuns
    BY <1>3, ConstantFacts DEF TypeOK
  <2> QED
    BY <1>1, <1>3, <2>1 DEF TypeOK, CreateRun
<1> QED
  BY <1>2, <1>3 DEF Fire

LEMMA TypeStep == TypeOK /\ [Next]_vars => TypeOK'
<1> SUFFICES ASSUME TypeOK, [Next]_vars PROVE TypeOK'
  OBVIOUS
<1>1. ASSUME NEW t \in Tasks, NEW offset \in 0 .. Window[t], Submit(t, offset)
      PROVE  TypeOK'
  <2>1. CASE closed
    BY <1>1, <2>1 DEF TypeOK, Submit, gate, runs
  <2>2. CASE ~closed
    <3> DEFINE slot == now + Least(offset, Limit(t))
               horizon == Least(Window[t], Limit(t))
    <3>1. now \in Nat /\ now \in Time
      BY DEF TypeOK, Time
    <3>2. slot \in Nat /\ horizon \in Nat /\ now <= slot /\ slot <= now + horizon
      BY <3>1, LimitFacts
    <3>3. Enqueue(t, slot, horizon)
      BY <1>1, <2>2 DEF Submit
    <3> HIDE DEF slot, horizon
    <3>4. PICK s \in Nat : Hold(t, s, horizon)
      BY <3>2, <3>3, EnqueuedFire
    <3>5. pending' \subseteq Held
      BY <3>1, <3>2, <3>4 DEF Hold, Held, TypeOK
    <3>6. due' \in [RunIds -> Nat] /\ UNCHANGED <<inflight, start, closed>> /\ lock' = "advancing"
      BY <3>2, <3>3 DEF Enqueue, TypeOK
    <3> QED
      BY <1>1, <3>5, <3>6 DEF TypeOK, Submit, runs
  <2> QED
    BY <2>1, <2>2
<1>2. ASSUME NEW t \in Tasks, Skip(t) PROVE TypeOK'
  BY <1>2 DEF TypeOK, Skip, gate, runs
<1>3. ASSUME NEW t \in Tasks, Breach(t) PROVE TypeOK'
  <2>1. calls' \in [Tasks -> Nat]
    BY <1>3 DEF TypeOK, Breach
  <2>2. CASE UNCHANGED <<gate, runs>>
    BY <1>3, <2>1, <2>2 DEF TypeOK, Breach, gate, runs
  <2>3. CASE \E h \in pending : pending' = pending \ {h} /\ Fire(h) /\ UNCHANGED closed
    BY <1>3, <2>1, <2>3, FireType DEF TypeOK, Breach
  <2> QED
    BY <1>3, <2>2, <2>3 DEF Breach
<1>4. ASSUME NEW h \in pending, TimerFires(h) PROVE TypeOK'
  <2>1. h \in Held /\ h.task \in Tasks
    BY DEF TypeOK, Held
  <2>2. [h EXCEPT !.timer = "fired"] \in Held
    BY <2>1 DEF Held
  <2>3. calls' \in [Tasks -> Nat]
    BY <1>4, <2>1 DEF TypeOK, TimerFires
  <2> QED
    BY <1>4, <2>1, <2>2, <2>3 DEF TypeOK, TimerFires, runs
<1>5. CASE Release
  <2>1. PICK h \in pending : pending' = pending \ {h} /\ Fire(h)
    BY <1>5 DEF Release
  <2> QED
    BY <1>5, <2>1, FireType DEF TypeOK, Release
<1>6. CASE AdvanceDone
  BY <1>6 DEF TypeOK, AdvanceDone, gate, runs
<1>7. CASE StartPlain
  BY <1>7, ConstantFacts DEF TypeOK, StartPlain, CreateRun, gate
<1>8. ASSUME NEW r \in RunIds, End(r) PROVE TypeOK'
  BY <1>8 DEF TypeOK, End, gate
<1>9. ASSUME NEW r \in RunIds, OnComplete(r) PROVE TypeOK'
  BY <1>9 DEF TypeOK, OnComplete
<1>10. CASE BeginShutdown
  BY <1>10 DEF TypeOK, BeginShutdown, gate, runs
<1>11. CASE Close
  BY <1>11 DEF TypeOK, Close, runs
<1>12. CASE Tick
  BY <1>12, ConstantFacts DEF TypeOK, Tick, Time, gate, runs
<1>13. CASE UNCHANGED vars
  BY <1>13 DEF TypeOK, vars, gate, runs
<1> QED
  BY <1>1, <1>2, <1>3, <1>4, <1>5, <1>6, <1>7, <1>8, <1>9, <1>10, <1>11, <1>12, <1>13 DEF Next

\* The types of the gate's state.
THEOREM TypeCorrect == Spec => []TypeOK
  BY TypeInit, TypeStep, PTL DEF Spec

(***************************************************************************)
(* What the gate counts                                                    *)
(***************************************************************************)
Counts == NoIdleHold /\ InflightLives /\ NothingHeldAfterClose

LEMMA CountsInit == Init => Counts
  BY DEF Init, Counts, NoIdleHold, InflightLives, NothingHeldAfterClose

\* Runs that are counted after a fire: those of before, and perhaps the new one.
LEMMA FireCounts ==
    ASSUME TypeOK, InflightLives, NEW h \in pending, Fire(h)
    PROVE  inflight \subseteq inflight' /\ InflightLives'
<1>1. CASE UNCHANGED <<inflight, start, due, runs>>
  BY <1>1 DEF InflightLives, runs
<1>2. CASE created < MaxRuns /\ CreateRun /\ inflight' = inflight \cup {created + 1}
  BY <1>2, ConstantFacts DEF InflightLives, CreateRun, TypeOK
<1> QED
  BY <1>1, <1>2 DEF Fire

LEMMA CountsStep == TypeOK /\ Counts /\ [Next]_vars => Counts'
<1> SUFFICES ASSUME TypeOK, Counts, [Next]_vars PROVE Counts'
  OBVIOUS
<1> USE DEF Counts, NoIdleHold, InflightLives, NothingHeldAfterClose
<1>1. ASSUME NEW t \in Tasks, NEW offset \in 0 .. Window[t], Submit(t, offset)
      PROVE  Counts'
  <2>1. CASE closed
    BY <1>1, <2>1 DEF Submit, gate, runs
  <2>2. CASE ~closed
    BY <1>1, <2>2 DEF Submit, Enqueue, runs
  <2> QED
    BY <2>1, <2>2
<1>2. ASSUME NEW t \in Tasks, Skip(t) PROVE Counts'
  BY <1>2 DEF Skip, gate, runs
<1>3. ASSUME NEW t \in Tasks, Breach(t) PROVE Counts'
  <2>1. CASE UNCHANGED <<gate, runs>>
    BY <1>3, <2>1 DEF Breach, gate, runs
  <2>2. CASE \E h \in pending : pending' = pending \ {h} /\ Fire(h) /\ UNCHANGED closed
    <3>1. PICK h \in pending : pending' = pending \ {h} /\ Fire(h) /\ UNCHANGED closed
      BY <2>2
    <3>2. inflight \subseteq inflight' /\ InflightLives'
      BY <3>1, FireCounts
    <3> QED
      BY <1>3, <3>1, <3>2 DEF Breach
  <2> QED
    BY <1>3, <2>1, <2>2 DEF Breach
<1>4. ASSUME NEW h \in pending, TimerFires(h) PROVE Counts'
  BY <1>4 DEF TimerFires, runs
<1>5. CASE Release
  <2>1. PICK h \in pending : pending' = pending \ {h} /\ Fire(h)
    BY <1>5 DEF Release
  <2>2. InflightLives'
    BY <2>1, FireCounts
  <2> QED
    BY <1>5, <2>1, <2>2 DEF Release
<1>6. CASE AdvanceDone
  BY <1>6 DEF AdvanceDone, FreeFor, gate, runs
<1>7. CASE StartPlain
  BY <1>7, ConstantFacts DEF StartPlain, CreateRun, TypeOK, gate
<1>8. ASSUME NEW r \in RunIds, End(r) PROVE Counts'
  BY <1>8 DEF End, TypeOK, gate
<1>9. ASSUME NEW r \in RunIds, OnComplete(r) PROVE Counts'
  BY <1>9 DEF OnComplete, TypeOK
<1>10. CASE BeginShutdown
  BY <1>10 DEF BeginShutdown, gate, runs
<1>11. CASE Close
  BY <1>11 DEF Close, runs
<1>12. CASE Tick
  BY <1>12 DEF Tick, gate, runs
<1>13. CASE UNCHANGED vars
  BY <1>13 DEF vars, gate, runs
<1> QED
  BY <1>1, <1>2, <1>3, <1>4, <1>5, <1>6, <1>7, <1>8, <1>9, <1>10, <1>11, <1>12, <1>13 DEF Next

LEMMA CountsAlways == Spec => []Counts
  BY TypeCorrect, CountsInit, CountsStep, TypeInit, TypeStep, PTL DEF Spec

\* While fires are held there is a run whose completion releases them.
THEOREM NeverIdleWhileHolding == Spec => []NoIdleHold
  BY CountsAlways, PTL DEF Counts

\* Every run the gate counts will still report its end.
THEOREM OnlyLiveRunsCounted == Spec => []InflightLives
  BY CountsAlways, PTL DEF Counts

\* A closed gate holds nothing.
THEOREM ClosedGateEmpty == Spec => []NothingHeldAfterClose
  BY CountsAlways, PTL DEF Counts

(***************************************************************************)
(* Deadlines                                                               *)
(*                                                                         *)
(* InWindow survives the passing of time because a held fire whose slot    *)
(* has come either has an armed timer that is due or a callback that waits *)
(* for the lock, and both stop the clock.  That its callback finds it and  *)
(* no other needs OneHeldPerTask, and that in turn that a fire is gone     *)
(* before the next tick of its task.                                       *)
(***************************************************************************)
InTime(h) ==
    /\ h.tick <= now /\ now <= h.slot
    /\ h.slot <= h.tick + h.horizon
    /\ h.tick + h.horizon < NextTick[h.task][h.tick]

Timed(h) == h.wake = h.slot /\ (h.timer = "fired" => calls[h.task] > 0)

\* A callback never waits while a later fire of its task is held.
NoStray(h) == calls[h.task] > 0 => h.slot <= now

Deadlines == \A h \in pending : InTime(h) /\ Timed(h) /\ NoStray(h)

\* A task whose tick has come has no fire left, held or under way.
Clear == \A t \in waiting : calls[t] = 0 /\ Named(t) = {}

Punctual == Deadlines /\ OneHeldPerTask /\ Clear

LEMMA PunctualInit == Init => Punctual
  BY DEF Init, Punctual, Deadlines, OneHeldPerTask, Clear

\* Steps that hold nothing new, at the same instant, and take no callback away
\* but that of a fire they remove.
LEMMA FewerHeld ==
    ASSUME TypeOK, Punctual, UNCHANGED now, waiting' \subseteq waiting,
           pending' \subseteq pending, calls' \in [Tasks -> Nat],
           \A t \in Tasks : calls'[t] <= calls[t],
           \A h \in pending' : calls'[h.task] = calls[h.task]
    PROVE  Punctual'
<1>1. \A h \in pending' : h \in pending /\ h.task \in Tasks
  BY DEF TypeOK, Held
<1>2. Deadlines'
  BY <1>1 DEF Punctual, Deadlines, InTime, Timed, NoStray
<1>3. OneHeldPerTask'
  BY <1>1 DEF Punctual, OneHeldPerTask
<1>4. Clear'
  <2> SUFFICES ASSUME NEW t \in waiting' PROVE calls'[t] = 0 /\ Named(t)' = {}
    BY DEF Clear
  <2>1. t \in Tasks /\ calls[t] = 0 /\ Named(t) = {}
    BY DEF Punctual, Clear, TypeOK
  <2>2. calls'[t] \in Nat /\ calls'[t] <= 0
    BY <2>1
  <2> QED
    BY <2>1, <2>2 DEF Named
<1> QED
  BY <1>2, <1>3, <1>4 DEF Punctual

\* The next tick of a task lies behind every fire it has held.
LEMMA TickAfterSlot ==
    ASSUME TypeOK, now < MaxTime, NEW h \in pending, InTime(h), TickedAt(h.task, now + 1)
    PROVE  h.slot <= now
<1>1. h.task \in Tasks /\ h.tick \in Nat /\ h.slot \in Nat /\ h.horizon \in Nat /\ now \in Nat
  BY DEF TypeOK, Held, Time
<1>2. MaxTime \in Nat /\ now \in Time /\ h.tick \in Time
  BY <1>1, ConstantFacts DEF InTime, TypeOK, Time
<1>3. NextTick[h.task][h.tick] \in Nat
  BY <1>1, <1>2, ScheduleFacts
<1>4. h.tick <= now /\ now < NextTick[h.task][h.tick]
  BY <1>1, <1>3 DEF InTime
<1>5. NextTick[h.task][now] = NextTick[h.task][h.tick]
  BY <1>1, <1>2, <1>4, JitterGateAssumption
<1>6. NextTick[h.task][now] = now + 1
  BY <1>1 DEF TickedAt
<1> QED
  BY <1>1, <1>3, <1>5, <1>6 DEF InTime

LEMMA PunctualStep == TypeOK /\ TypeOK' /\ Counts /\ Punctual /\ [Next]_vars => Punctual'
<1> SUFFICES ASSUME TypeOK, TypeOK', Counts, Punctual, [Next]_vars PROVE Punctual'
  OBVIOUS
<1> USE DEF TypeOK
<1>0. calls' \in [Tasks -> Nat] /\ \A t \in Tasks : calls[t] \in Nat /\ calls[t] <= calls[t]
  OBVIOUS
<1>1. ASSUME NEW t \in Tasks, NEW offset \in 0 .. Window[t], Submit(t, offset)
      PROVE  Punctual'
  <2>1. CASE closed
    <3>1. UNCHANGED <<now, calls, pending>> /\ waiting' \subseteq waiting
      BY <1>1, <2>1 DEF Submit, gate
    <3> QED
      BY <1>0, <3>1, FewerHeld
  <2>2. CASE ~closed
    <3> DEFINE slot == now + Least(offset, Limit(t))
               horizon == Least(Window[t], Limit(t))
    <3>1. now \in Nat /\ now \in Time
      BY DEF Time
    <3>2. /\ slot \in Nat /\ horizon \in Nat /\ now <= slot /\ slot <= now + horizon
          /\ now + horizon < NextTick[t][now]
      BY <3>1, LimitFacts
    <3>3. Enqueue(t, slot, horizon)
      BY <1>1, <2>2 DEF Submit
    <3>4. t \in waiting /\ waiting' = waiting \ {t} /\ UNCHANGED <<now, calls>>
      BY <1>1 DEF Submit
    <3> HIDE DEF slot, horizon
    <3>5. PICK s \in Nat : now <= s /\ s <= now + horizon /\ Hold(t, s, horizon)
      BY <3>2, <3>3, EnqueuedFire
    <3>6. PICK new : /\ pending' = pending \cup {new}
                     /\ new.task = t /\ new.tick = now /\ new.slot = s /\ new.horizon = horizon
                     /\ new.wake = s /\ new.timer = "armed"
      <4> DEFINE held == [task |-> t, tick |-> now, slot |-> s, horizon |-> horizon,
                          wake |-> s, timer |-> "armed"]
      <4>1. pending' = pending \cup {held}
        BY <3>5 DEF Hold
      <4>2. /\ held.task = t /\ held.tick = now /\ held.slot = s /\ held.horizon = horizon
            /\ held.wake = s /\ held.timer = "armed"
        OBVIOUS
      <4> HIDE DEF held
      <4> QED
        BY <4>1, <4>2
    <3>7. calls[t] = 0 /\ \A h \in pending : h.task # t
      BY <3>4 DEF Punctual, Clear, Named
    <3>8. InTime(new)' /\ Timed(new)' /\ NoStray(new)'
      BY <3>1, <3>2, <3>4, <3>5, <3>6, <3>7 DEF InTime, Timed, NoStray
    <3>9. Deadlines'
      BY <3>4, <3>6, <3>8 DEF Punctual, Deadlines, InTime, Timed, NoStray
    <3>10. OneHeldPerTask'
      BY <3>6, <3>7 DEF Punctual, OneHeldPerTask
    <3>11. Clear'
      BY <3>4, <3>6 DEF Punctual, Clear, Named
    <3> QED
      BY <3>9, <3>10, <3>11 DEF Punctual
  <2> QED
    BY <2>1, <2>2
<1>2. ASSUME NEW t \in Tasks, Skip(t) PROVE Punctual'
  BY <1>2, <1>0, FewerHeld DEF Skip, gate
<1>3. ASSUME NEW t \in Tasks, Breach(t) PROVE Punctual'
  <2>1. UNCHANGED <<now, waiting>> /\ calls[t] > 0 /\ calls' = [calls EXCEPT ![t] = @ - 1]
    BY <1>3 DEF Breach
  <2>2. \A u \in Tasks : calls'[u] <= calls[u] /\ (u # t => calls'[u] = calls[u])
    BY <1>0, <2>1
  <2>3. pending' \subseteq pending
    BY <1>3 DEF Breach, gate
  <2>4. \A h \in pending' : h.task # t
    <3>1. CASE closed
      BY <2>3, <3>1 DEF Counts, NothingHeldAfterClose
    <3>2. CASE Named(t) = {}
      BY <2>3, <3>2 DEF Named
    <3>3. CASE \E h \in pending : Earliest(h, Named(t)) /\ pending' = pending \ {h}
      BY <3>3 DEF Earliest, Named, Punctual, OneHeldPerTask
    <3> QED
      BY <1>3, <3>1, <3>2, <3>3 DEF Breach
  <2>5. \A h \in pending' : h.task \in Tasks /\ calls'[h.task] = calls[h.task]
    BY <2>2, <2>3, <2>4 DEF Held
  <2> QED
    BY <2>1, <2>2, <2>3, <2>5, FewerHeld
<1>4. ASSUME NEW h \in pending, TimerFires(h) PROVE Punctual'
  <2> DEFINE new == [h EXCEPT !.timer = "fired"]
  <2>1. /\ h \in Held /\ h.task \in Tasks /\ h.wake = h.slot /\ h.slot <= now
        /\ UNCHANGED <<now, waiting>>
        /\ pending' = (pending \ {h}) \cup {new}
        /\ calls' = [calls EXCEPT ![h.task] = @ + 1]
    BY <1>4 DEF TimerFires, Punctual, Deadlines, Timed, Held
  <2>2. /\ new.task = h.task /\ new.tick = h.tick /\ new.slot = h.slot
        /\ new.horizon = h.horizon /\ new.wake = h.wake
    BY <2>1 DEF Held
  <2>3. \A k \in pending : k # h => k.task \in Tasks /\ k.task # h.task /\ calls'[k.task] = calls[k.task]
    BY <2>1 DEF Punctual, OneHeldPerTask, Held
  <2>4. calls'[h.task] > 0
    BY <1>0, <2>1
  <2>5. InTime(new)' /\ Timed(new)' /\ NoStray(new)'
    BY <2>1, <2>2, <2>4 DEF InTime, Timed, NoStray, Punctual, Deadlines
  <2>6. Deadlines'
    BY <2>1, <2>3, <2>5 DEF Punctual, Deadlines, InTime, Timed, NoStray
  <2>7. OneHeldPerTask'
    BY <2>1, <2>2, <2>3 DEF Punctual, OneHeldPerTask
  <2>8. Clear'
    <3> SUFFICES ASSUME NEW u \in waiting PROVE calls'[u] = 0 /\ Named(u)' = {}
      BY <2>1 DEF Clear
    <3>1. u \in Tasks /\ calls[u] = 0 /\ \A k \in pending : k.task # u
      BY DEF Punctual, Clear, Named
    <3> QED
      BY <2>1, <2>2, <3>1 DEF Named
  <2> QED
    BY <2>6, <2>7, <2>8 DEF Punctual
<1>5. CASE Release
  BY <1>5, <1>0, FewerHeld DEF Release
<1>6. CASE AdvanceDone
  BY <1>6, <1>0, FewerHeld DEF AdvanceDone, gate
<1>7. CASE StartPlain
  BY <1>7, <1>0, FewerHeld DEF StartPlain, gate
<1>8. ASSUME NEW r \in RunIds, End(r) PROVE Punctual'
  BY <1>8, <1>0, FewerHeld DEF End, gate
<1>9. ASSUME NEW r \in RunIds, OnComplete(r) PROVE Punctual'
  BY <1>9, <1>0, FewerHeld DEF OnComplete
<1>10. CASE BeginShutdown
  BY <1>10, <1>0, FewerHeld DEF BeginShutdown, gate
<1>11. CASE Close
  BY <1>11, <1>0, FewerHeld DEF Close
<1>12. CASE Tick
  <2>1. /\ now < MaxTime /\ now' = now + 1 /\ UNCHANGED <<calls, pending>>
        /\ \A t \in Tasks : calls[t] = 0
        /\ \A h \in pending : h.timer = "armed" => h.wake > now
        /\ waiting' = {t \in Tasks : TickedAt(t, now + 1)}
    BY <1>12 DEF Tick, gate
  <2>2. now \in Nat /\ \A h \in pending : h \in Held /\ h.task \in Tasks /\ h.slot \in Nat /\ h.tick \in Nat
    BY DEF Time, Held
  <2>3. \A h \in pending : InTime(h) /\ h.slot > now
    BY <2>1, <2>2 DEF Punctual, Deadlines, Timed, Held
  <2>4. Deadlines'
    BY <2>1, <2>2, <2>3 DEF Punctual, Deadlines, InTime, Timed, NoStray
  <2>5. Clear'
    <3> SUFFICES ASSUME NEW t \in waiting' PROVE calls'[t] = 0 /\ Named(t)' = {}
      BY DEF Clear
    <3>1. t \in Tasks /\ TickedAt(t, now + 1)
      BY <2>1
    <3>2. ASSUME NEW h \in pending, h.task = t PROVE FALSE
      BY <2>1, <2>2, <2>3, <3>1, <3>2, TickAfterSlot
    <3> QED
      BY <2>1, <3>1, <3>2 DEF Named
  <2> QED
    BY <2>1, <2>4, <2>5 DEF Punctual, OneHeldPerTask
<1>13. CASE UNCHANGED vars
  BY <1>13, <1>0, FewerHeld DEF vars, gate
<1> QED
  BY <1>1, <1>2, <1>3, <1>4, <1>5, <1>6, <1>7, <1>8, <1>9, <1>10, <1>11, <1>12, <1>13 DEF Next

LEMMA PunctualAlways == Spec => []Punctual
<1>1. TypeOK /\ Counts /\ Punctual /\ [Next]_vars => (TypeOK /\ Counts /\ Punctual)'
  BY TypeStep, CountsStep, PunctualStep
<1> QED
  BY <1>1, TypeInit, CountsInit, PunctualInit, PTL DEF Spec

\* Every fire leaves the gate by its slot, and within its own window.
THEOREM SlotsAreDeadlines == Spec => []InWindow
<1>1. Punctual => InWindow
  BY DEF Punctual, Deadlines, InTime, InWindow
<1> QED
  BY <1>1, PunctualAlways, PTL

\* No two fires of one task are held: the name is enough to find a fire.
THEOREM HeldFiresAreNamed == Spec => []OneHeldPerTask
<1>1. Punctual => OneHeldPerTask
  BY DEF Punctual
<1> QED
  BY <1>1, PunctualAlways, PTL

\* The gate lets a fire start beside a younger run only at its slot.
THEOREM EarlyStartsAreAlone == Spec => CongestedOnlyWhenDue
<1> DEFINE A == \A h \in pending \ pending' :
                   inflight' \ inflight # {} /\ ~FreeFor(h.horizon) => now >= h.slot
<1>1. TypeOK /\ Punctual /\ [Next]_vars => [A]_vars
  <2> SUFFICES ASSUME TypeOK, Punctual, Next, NEW h \in pending \ pending',
                      inflight' \ inflight # {}, ~FreeFor(h.horizon)
               PROVE  now >= h.slot
    BY DEF vars
  <2>1. (\E t \in Tasks : Breach(t)) \/ Release
    BY DEF Next, Submit, Enqueue, Skip, TimerFires, AdvanceDone, StartPlain, End, OnComplete,
           BeginShutdown, Close, Tick, gate
  <2>2. CASE Release
    BY <2>2 DEF Release
  <2>3. ASSUME NEW t \in Tasks, Breach(t) PROVE now >= h.slot
    <3>1. h.task = t /\ calls[t] > 0
      BY <2>3 DEF Breach, Earliest, Named, gate
    <3> QED
      BY <3>1 DEF Punctual, Deadlines, NoStray, TypeOK, Held, Time
  <2> QED
    BY <2>1, <2>2, <2>3
<1>2. Spec => [][A]_vars
  BY <1>1, TypeCorrect, PunctualAlways, PTL DEF Spec
<1> QED
  BY <1>2 DEF CongestedOnlyWhenDue
=============================================================================
