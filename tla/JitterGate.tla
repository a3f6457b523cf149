----------------------------- MODULE JitterGate -----------------------------
(***************************************************************************)
(* The gate that spreads jittered cron fires (runtime/jitter_gate.go), the *)
(* scheduler that submits them (Scheduler.fireOnce) and, of the manager,   *)
(* what the gate sees: whether a trigger is accepted and when a run ends.  *)
(* Time is discrete; one unit is the second by which the scheduler keeps a *)
(* slot off the next tick.  Timers and cron callbacks are prompt: no time  *)
(* passes while one of them is due or waits for the gate's lock.  Runs     *)
(* take any time at all.                                                   *)
(***************************************************************************)
EXTENDS Integers

CONSTANTS
    Tasks,      \* the jittered tasks, numbered in the order of their names
    MaxTime,    \* bound: the end of time
    NextTick,   \* schedule.Next: the first tick of a task after a time
    Window,     \* jitterPlan.window of each task, at least its offset
    MaxRuns     \* bound: how many runs are ever created

Time == 0 .. MaxTime
RunIds == 1 .. MaxRuns

\* Next is later than its argument, and constant up to the tick it returns.
ASSUME JitterGateAssumption ==
    /\ Tasks \subseteq Nat
    /\ MaxTime \in Nat
    /\ MaxRuns \in Nat
    /\ Window \in [Tasks -> Nat]
    /\ NextTick \in [Tasks -> [Time -> Nat]]
    /\ \A t \in Tasks, n \in Time :
          /\ NextTick[t][n] > n
          /\ \A m \in Time : n <= m /\ m < NextTick[t][n] => NextTick[t][m] = NextTick[t][n]

VARIABLES
    now,
    waiting,    \* tasks whose cron callback for this instant has yet to run
    lock,       \* gate.mu between steps: "free", or "advancing" inside advance
    pending,    \* held fires; their order is Earliest
    calls,      \* per task: breach callbacks that fired and wait for the lock
    inflight,   \* runs the gate counts
    start,      \* gateRun.start and gateRun.slot
    due,
    closed,
    isShutdown, \* the manager's flag
    created,    \* how many runs exist
    life        \* "new", "live" (queued or active), "ended" (onComplete not yet called), "gone"

gate == <<pending, inflight, start, due, closed>>
runs == <<created, life>>
vars == <<now, waiting, lock, calls, isShutdown, gate, runs>>

\* heldRun.  timer is "armed" until wake, then "fired": Stop comes too late.
Held == [task : Tasks, tick : Nat, slot : Nat, horizon : Nat, wake : Nat,
         timer : {"armed", "fired"}]

(***************************************************************************)
(* The order of pending, and the test for a free gate                      *)
(***************************************************************************)
Before(h, k) == h.slot < k.slot \/ (h.slot = k.slot /\ h.task <= k.task)
Earliest(h, S) == h \in S /\ \A k \in S : Before(h, k)

FreeFor(horizon) == \A r \in inflight : now - start[r] >= horizon

Least(a, b) == IF b < a THEN b ELSE a

\* A slot and a window may not reach the next tick.
Limit(t) == NextTick[t][now] - now - 1

TickedAt(t, n) == n > 0 /\ NextTick[t][n - 1] = n

(***************************************************************************)
(* Running a fire                                                          *)
(***************************************************************************)
CreateRun ==
    /\ created' = created + 1
    /\ life' = [life EXCEPT ![created + 1] = "live"]

\* trigger refuses (held, removed, paused, rejected by the overlap policy,
\* shutting down), or creates a run that the gate counts from now on.
Fire(h) ==
    \/ UNCHANGED <<inflight, start, due, runs>>
    \/ /\ ~isShutdown /\ created < MaxRuns
       /\ CreateRun
       /\ inflight' = inflight \cup {created + 1}
       /\ start' = [start EXCEPT ![created + 1] = now]
       /\ due' = [due EXCEPT ![created + 1] = h.slot]

\* Broken variant: one completion releases one fire, refused or not.
ReleaseOnce ==
    /\ lock = "advancing"
    /\ \E h \in pending :
          /\ Earliest(h, pending) /\ FreeFor(h.horizon)
          /\ pending' = pending \ {h}
          /\ Fire(h)
    /\ lock' = "free"
    /\ UNCHANGED <<now, waiting, calls, isShutdown, closed>>

\* One round of the loop in advance, and its end.
Release ==
    /\ lock = "advancing"
    /\ \E h \in pending :
          /\ Earliest(h, pending) /\ FreeFor(h.horizon)
          /\ pending' = pending \ {h}
          /\ Fire(h)
    /\ UNCHANGED <<now, waiting, lock, calls, isShutdown, closed>>

AdvanceDone ==
    /\ lock = "advancing"
    /\ \/ pending = {}
       \/ \E h \in pending : Earliest(h, pending) /\ ~FreeFor(h.horizon)
    /\ lock' = "free"
    /\ UNCHANGED <<now, waiting, calls, isShutdown, gate, runs>>

(***************************************************************************)
(* Submission                                                              *)
(***************************************************************************)
\* Runs that started ahead of a deadline later than slot; swapSlot takes the latest.
Donors(slot) == {r \in inflight : start[r] < due[r] /\ due[r] > slot}
Latest(r, S) == r \in S /\ \A q \in S : due[q] <= due[r]

\* Broken variant: the slot taken over may lie outside the fire's window.
TakeOverUncapped(slot, limit) == slot
TakeOver(slot, limit) == Least(slot, limit)

Hold(t, slot, horizon) ==
    pending' = pending \cup {[task |-> t, tick |-> now, slot |-> slot, horizon |-> horizon,
                              wake |-> slot, timer |-> "armed"]}

\* submit: swapSlot when the gate is congested, hold, arm, advance.
Enqueue(t, slot, horizon) ==
    /\ \/ /\ FreeFor(horizon) \/ Donors(slot) = {}
          /\ Hold(t, slot, horizon)
          /\ UNCHANGED due
       \/ /\ ~FreeFor(horizon)
          /\ \E r \in inflight :
                /\ Latest(r, Donors(slot))
                /\ Hold(t, TakeOver(due[r], now + horizon), horizon)
                /\ due' = [due EXCEPT ![r] = slot]
    /\ lock' = "advancing"
    /\ UNCHANGED <<inflight, start, closed>>

\* fireOnce for a plan with this offset (a reload may place a task anew), then submit.
Submit(t, offset) ==
    /\ lock = "free" /\ t \in waiting
    /\ waiting' = waiting \ {t}
    /\ IF closed
       THEN UNCHANGED <<lock, gate>>
       ELSE Enqueue(t, now + Least(offset, Limit(t)), Least(Window[t], Limit(t)))
    /\ UNCHANGED <<now, calls, isShutdown, runs>>

\* fireOnce for a paused schedule or a repeated hour.
Skip(t) ==
    /\ t \in waiting
    /\ waiting' = waiting \ {t}
    /\ UNCHANGED <<now, lock, calls, isShutdown, gate, runs>>

(***************************************************************************)
(* Timers, completion, shutdown, time                                      *)
(***************************************************************************)
\* The timer of a held fire goes off; its callback has yet to get the lock.
TimerFires(h) ==
    /\ h \in pending /\ h.timer = "armed" /\ h.wake <= now
    /\ pending' = (pending \ {h}) \cup {[h EXCEPT !.timer = "fired"]}
    /\ calls' = [calls EXCEPT ![h.task] = @ + 1]
    /\ UNCHANGED <<now, waiting, lock, isShutdown, inflight, start, due, closed, runs>>

Named(t) == {h \in pending : h.task = t}

\* Broken variant: a callback releases the first held fire, whose ever it is.
BreachHead(t) ==
    /\ lock = "free" /\ calls[t] > 0
    /\ calls' = [calls EXCEPT ![t] = @ - 1]
    /\ IF closed \/ pending = {}
       THEN UNCHANGED <<gate, runs>>
       ELSE /\ \E h \in pending : Earliest(h, pending) /\ pending' = pending \ {h} /\ Fire(h)
            /\ UNCHANGED closed
    /\ UNCHANGED <<now, waiting, lock, isShutdown>>

\* The callback knows the task's name only, and finds its first held fire.
Breach(t) ==
    /\ lock = "free" /\ calls[t] > 0
    /\ calls' = [calls EXCEPT ![t] = @ - 1]
    /\ IF closed \/ Named(t) = {}
       THEN UNCHANGED <<gate, runs>>
       ELSE /\ \E h \in pending :
                  Earliest(h, Named(t)) /\ pending' = pending \ {h} /\ Fire(h)
            /\ UNCHANGED closed
    /\ UNCHANGED <<now, waiting, lock, isShutdown>>

\* A run the gate has no part in: manual, API, an unjittered task.
StartPlain ==
    /\ ~isShutdown /\ created < MaxRuns
    /\ CreateRun
    /\ UNCHANGED <<now, waiting, lock, calls, isShutdown, gate>>

\* Broken variant: an orphaned run is not reported to the gate.
EndOrphanSilently(r) ==
    /\ life[r] = "live"
    /\ life' = [life EXCEPT ![r] = "gone"]
    /\ UNCHANGED <<now, waiting, lock, calls, isShutdown, gate, created>>

\* Under the manager's lock: recordRunOutcome, or finalizeOrphanedQueue for a
\* run still in its task's queue.
End(r) ==
    /\ life[r] = "live"
    /\ life' = [life EXCEPT ![r] = "ended"]
    /\ UNCHANGED <<now, waiting, lock, calls, isShutdown, gate, created>>

OnComplete(r) ==
    /\ lock = "free" /\ life[r] = "ended"
    /\ life' = [life EXCEPT ![r] = "gone"]
    /\ inflight' = inflight \ {r}
    /\ start' = [start EXCEPT ![r] = 0] /\ due' = [due EXCEPT ![r] = 0]
    /\ lock' = IF inflight = {r} THEN "advancing" ELSE lock
    /\ UNCHANGED <<now, waiting, calls, isShutdown, pending, closed, created>>

\* BeginShutdown sets the manager's flag, then closes the gate.
BeginShutdown ==
    /\ ~isShutdown /\ isShutdown' = TRUE
    /\ UNCHANGED <<now, waiting, lock, calls, gate, runs>>

Close ==
    /\ isShutdown /\ ~closed /\ lock = "free"
    /\ closed' = TRUE /\ pending' = {}
    /\ UNCHANGED <<now, waiting, lock, calls, isShutdown, inflight, start, due, runs>>

Tick ==
    /\ now < MaxTime
    /\ lock = "free" /\ waiting = {}
    /\ \A t \in Tasks : calls[t] = 0
    /\ \A h \in pending : h.timer = "armed" => h.wake > now
    /\ now' = now + 1
    /\ waiting' = {t \in Tasks : TickedAt(t, now + 1)}
    /\ UNCHANGED <<lock, calls, isShutdown, gate, runs>>

Init ==
    /\ now = 0 /\ waiting = {}
    /\ lock = "free" /\ calls = [t \in Tasks |-> 0]
    /\ pending = {} /\ inflight = {}
    /\ start = [r \in RunIds |-> 0] /\ due = [r \in RunIds |-> 0]
    /\ closed = FALSE /\ isShutdown = FALSE
    /\ created = 0 /\ life = [r \in RunIds |-> "new"]

Next ==
    \/ \E t \in Tasks : \/ \E offset \in 0 .. Window[t] : Submit(t, offset)
                        \/ Skip(t)
                        \/ Breach(t)
    \/ \E h \in pending : TimerFires(h)
    \/ Release \/ AdvanceDone
    \/ StartPlain
    \/ \E r \in RunIds : End(r) \/ OnComplete(r)
    \/ BeginShutdown \/ Close
    \/ Tick

Spec == Init /\ [][Next]_vars

(***************************************************************************)
(* Properties                                                              *)
(***************************************************************************)
TypeOK ==
    /\ now \in Time /\ waiting \subseteq Tasks
    /\ lock \in {"free", "advancing"}
    /\ pending \subseteq Held
    /\ calls \in [Tasks -> Nat]
    /\ inflight \subseteq RunIds
    /\ start \in [RunIds -> Nat] /\ due \in [RunIds -> Nat]
    /\ closed \in BOOLEAN /\ isShutdown \in BOOLEAN
    /\ created \in 0 .. MaxRuns
    /\ life \in [RunIds -> {"new", "live", "ended", "gone"}]

\* The slot is a deadline and lies in the fire's own window, whatever slots the
\* fires of a tick exchange and whichever timer or completion comes first: no
\* fire is still held past it (jitter_gate.go submit, swapSlot, breach).
InWindow == \A h \in pending : now <= h.slot /\ h.slot <= h.tick + h.horizon

\* A breach callback carries the name of its task only.  That is enough because
\* a fire never outlives the gap to the next tick of its task (fireOnce's clamp,
\* swapSlot's cap), so no two fires of one task are held.
OneHeldPerTask == \A h, k \in pending : h.task = k.task => h = k

\* The gate does not idle: while fires are held some run it started is unfinished,
\* so that there is a completion to release them (advance, onComplete).
NoIdleHold == lock = "free" /\ pending # {} => inflight # {}

\* The gate counts only runs that will still tell it of their end, also those a
\* reload drops from a queue (retireOrphaned).
InflightLives == \A r \in inflight : life[r] \in {"live", "ended"}

\* Once the gate is shut nothing is held again, whatever callbacks are under way.
NothingHeldAfterClose == closed => pending = {}

\* A fire starts beside a run that is younger than the fire's window only when
\* its slot has come: a callback whose Stop came too late releases nobody early.
CongestedOnlyWhenDue ==
    [][\A h \in pending \ pending' :
          inflight' \ inflight # {} /\ ~FreeFor(h.horizon) => now >= h.slot]_vars
=============================================================================
