------------------------- MODULE ServiceSupervisor -------------------------
(***************************************************************************)
(* One supervised service of RunWisp: the slots of services.Supervisor,    *)
(* the runs that occupy them, the goroutines that respawn an instance      *)
(* after it exits (scheduleRestart), and the callers that start, restart,  *)
(* recycle, stop, reload or remove the service.  Every action is one       *)
(* critical section of the manager lock; what a goroutine or a caller      *)
(* decides in one section it acts on in a later one.                       *)
(* Delays are timers that may fire at any time; a reload that turns the    *)
(* service into a plain task is left out.                                  *)
(***************************************************************************)
EXTENDS Integers

CONSTANTS
    MaxInstances,   \* the largest instance count any definition has
    Defs,           \* the definitions the configuration may have
    Overrides,      \* instance counts the station may apply over them
    StartRetries,   \* restart_attempts
    MaxRuns,        \* bound: how many instances are ever spawned
    Callers         \* bound: who may be inside an operation at the same time

Restarts == {"always", "on_failure", "never"}
DefType == [instances : 1 .. MaxInstances, restart : Restarts, autostart : BOOLEAN]

ASSUME ServiceSupervisorAssumption ==
    /\ MaxInstances \in Nat \ {0}
    /\ Defs \subseteq DefType /\ Defs # {}
    /\ Overrides \subseteq 1 .. MaxInstances
    /\ StartRetries \in Nat
    /\ MaxRuns \in Nat

Slots == 0 .. MaxInstances - 1
RunIds == 1 .. MaxRuns

VARIABLES
    place,          \* where the taskState is: "absent", "live" (m.tasks), "draining" (m.removedTasks)
    def,            \* ts.task
    stopped,        \* Supervisor.stopped
    bookkeepingStop,\* ts.bookkeepingStop: the stop came from a removal
    live,           \* slots that are occupied
    up,             \* slots whose liveSince is set
    startFails,     \* consecutive failed starts of a slot
    fatal,          \* slots that were given up
    exited,         \* slots their restart policy leaves down
    created,        \* how many runs exist
    stage,          \* "new", "started" and "running" instances, the executor's answer
                    \* ("success", "failed", "stopped"), and the goroutine that
                    \* respawns it: "waiting", "checked"; then "done"
    slot,           \* InstanceIndex
    policy,         \* restart of the definition the run started under
    cancelled,      \* runs whose context is cancelled
    caller,         \* "idle", "reloaded" (will recycle), "asked" (in StartServiceInstances), "filling"
    todo,           \* the missing slots a filling caller has still to trigger
    isShutdown

supervisor == <<stopped, bookkeepingStop, live, up, startFails, fatal, exited>>
runVars    == <<created, stage, slot, policy, cancelled>>
callers    == <<caller, todo>>
vars       == <<place, def, supervisor, runVars, callers, isShutdown>>

Init ==
    /\ place = "absent"
    /\ def \in Defs
    /\ stopped = FALSE /\ bookkeepingStop = FALSE
    /\ live = {} /\ up = {} /\ fatal = {} /\ exited = {}
    /\ startFails = [s \in Slots |-> 0]
    /\ created = 0
    /\ stage = [r \in RunIds |-> "new"]
    /\ slot = [r \in RunIds |-> 0]
    /\ policy = [r \in RunIds |-> "always"]
    /\ cancelled = {}
    /\ caller = [k \in Callers |-> "idle"]
    /\ todo = [k \in Callers |-> {}]
    /\ isShutdown = FALSE

-----------------------------------------------------------------------------
(* services.Supervisor *)

Answers == {"success", "failed", "stopped"}
ActiveStages == {"started", "running"} \cup Answers
Active == {r \in RunIds : stage[r] \in ActiveStages}
InRange(s) == s < def.instances

MissingSlots == {s \in Slots : InRange(s)} \ (live \cup fatal)

\* Broken variant: a slot that is live is handed out again.
ReservableTwice(s) == InRange(s)
\* Reserve of a given index: the stop and FATAL flags play no part in it.
Reservable(s) == InRange(s) /\ s \notin live

Occupy(s) == live' = live \cup {s} /\ exited' = exited \ {s}

\* Broken variant: the streak survives the flag.
ClearFatalOnly == fatal' = {} /\ UNCHANGED startFails
ClearFatal ==
    /\ fatal' = {}
    /\ startFails' = [s \in Slots |-> IF s \in fatal THEN 0 ELSE startFails[s]]

MarkRunning == stopped' = FALSE /\ ClearFatal

\* NewSupervisor; also what remains of one once its taskState is dropped.
NewSupervisor(stop) ==
    /\ stopped' = stop /\ bookkeepingStop' = FALSE
    /\ live' = {} /\ up' = {} /\ fatal' = {} /\ exited' = {}
    /\ startFails' = [s \in Slots |-> 0]

\* A failed start is an unhealthy exit nobody asked for; a clean one counts.
FailedStart(r, healthy) == ~healthy /\ stage[r] \in {"success", "failed"}
GivenUp(r, healthy) == FailedStart(r, healthy) /\ startFails[slot[r]] + 1 > StartRetries

ShouldRestart(r) ==
    \/ stage[r] = "stopped"
    \/ policy[r] = "always"
    \/ policy[r] = "on_failure" /\ stage[r] = "failed"

\* RecordExit and markExitedIfDone.
RecordExit(r, healthy) ==
    LET s == slot[r] IN
    /\ live' = live \ {s}
    /\ up' = up \ {s}
    /\ startFails' = [startFails EXCEPT ![s] = IF FailedStart(r, healthy) THEN @ + 1 ELSE 0]
    /\ fatal' = CASE GivenUp(r, healthy) -> fatal \cup {s}
                  [] ~FailedStart(r, healthy) -> fatal \ {s}
                  [] OTHER -> fatal
    /\ exited' = IF ShouldRestart(r) \/ GivenUp(r, healthy) THEN exited ELSE exited \cup {s}
    /\ UNCHANGED <<stopped, bookkeepingStop>>

-----------------------------------------------------------------------------
(* TriggerRunWithOptions and the run goroutine *)

Triggerable(s) == ~isShutdown /\ place = "live" /\ Reservable(s)

\* An instance of slot s is spawned; st and sl are the maps the caller changes.
Spawn(s, st, sl) ==
    LET r == created + 1 IN
    /\ created < MaxRuns
    /\ created' = r
    /\ Occupy(s)
    /\ stage' = [st EXCEPT ![r] = "started"]
    /\ slot' = [sl EXCEPT ![r] = s]
    /\ policy' = [policy EXCEPT ![r] = def.restart]
    /\ UNCHANGED <<place, def, stopped, bookkeepingStop, up, startFails, fatal, cancelled, isShutdown>>

\* execute: the instance is running; MarkLive, unless the service was removed.
Execute(r) ==
    /\ stage[r] = "started"
    /\ stage' = [stage EXCEPT ![r] = "running"]
    /\ up' = IF place = "live" THEN up \cup {slot[r]} ELSE up
    /\ UNCHANGED <<place, def, stopped, bookkeepingStop, live, startFails, fatal, exited,
                   created, slot, policy, cancelled, callers, isShutdown>>

\* The executor returns: a process that ran answers "stopped" once its context
\* is cancelled; a failure to start one is "failed" all the same.
Exit(r) ==
    /\ stage[r] = "running"
    /\ \E a \in {"failed", IF r \in cancelled THEN "stopped" ELSE "success"} :
          stage' = [stage EXCEPT ![r] = a]
    /\ UNCHANGED <<place, def, supervisor, created, slot, policy, cancelled, callers, isShutdown>>

\* Run r is over: what it captured is garbage, back to its initial value.
Over(r) == slot' = [slot EXCEPT ![r] = 0]

\* retireRun with reapRetiredTaskState, then scheduleFollowup.  Whether the run
\* proved healthy is the clock's, or its health check's, choice.
Retire(r) ==
    /\ stage[r] \in Answers
    /\ \E healthy \in BOOLEAN :
         /\ IF place = "draining" /\ Active = {r}
            THEN place' = "absent" /\ NewSupervisor(FALSE)
            ELSE RecordExit(r, healthy) /\ UNCHANGED place
         /\ IF ShouldRestart(r) /\ ~GivenUp(r, healthy)
            THEN stage' = [stage EXCEPT ![r] = "waiting"] /\ UNCHANGED slot
            ELSE stage' = [stage EXCEPT ![r] = "done"] /\ Over(r)
    /\ cancelled' = cancelled \ {r}
    /\ policy' = [policy EXCEPT ![r] = "always"]
    /\ UNCHANGED <<def, created, callers, isShutdown>>

\* scheduleRestart, the delay over: isShutdown, then isServiceStopped, which is
\* false for a task that is not registered.
RestartCheck(r) ==
    /\ stage[r] = "waiting"
    /\ IF isShutdown \/ (place = "live" /\ stopped)
       THEN stage' = [stage EXCEPT ![r] = "done"] /\ Over(r)
       ELSE stage' = [stage EXCEPT ![r] = "checked"] /\ UNCHANGED slot
    /\ UNCHANGED <<place, def, supervisor, created, policy, cancelled, callers, isShutdown>>

\* ... and, the lock released and taken again, the trigger.
RestartFire(r) ==
    /\ stage[r] = "checked"
    /\ IF Triggerable(slot[r])
       THEN Spawn(slot[r], [stage EXCEPT ![r] = "done"], [slot EXCEPT ![r] = 0])
       ELSE /\ stage' = [stage EXCEPT ![r] = "done"]
            /\ Over(r)
            /\ UNCHANGED <<place, def, supervisor, created, policy, cancelled, isShutdown>>
    /\ UNCHANGED callers

-----------------------------------------------------------------------------
(* Callers *)

Goes(k, to) == caller' = [caller EXCEPT ![k] = to]

\* StartServiceInstances, under the read lock.
Compute(k) ==
    /\ caller[k] = "asked"
    /\ IF place # "live" \/ stopped \/ MissingSlots = {}
       THEN Goes(k, "idle") /\ UNCHANGED todo
       ELSE Goes(k, "filling") /\ todo' = [todo EXCEPT ![k] = MissingSlots]
    /\ UNCHANGED <<place, def, supervisor, runVars, isShutdown>>

Lowest(s, S) == s \in S /\ \A u \in S : s <= u
Leftover(k, s) ==
    /\ todo' = [todo EXCEPT ![k] = @ \ {s}]
    /\ Goes(k, IF todo[k] = {s} THEN "idle" ELSE "filling")

\* Broken variant: a slot that is refused is tried again.
FillInsisting(k) ==
    /\ caller[k] = "filling"
    /\ \E s \in Slots :
          /\ Lowest(s, todo[k])
          /\ IF Triggerable(s) THEN Leftover(k, s) /\ Spawn(s, stage, slot) ELSE UNCHANGED vars
\* ... and the trigger of the next missing slot.
Fill(k) ==
    /\ caller[k] = "filling"
    /\ \E s \in Slots :
          /\ Lowest(s, todo[k])
          /\ Leftover(k, s)
          /\ IF Triggerable(s)
             THEN Spawn(s, stage, slot)
             ELSE UNCHANGED <<place, def, supervisor, runVars, isShutdown>>

StartService(k) ==
    /\ caller[k] = "idle" /\ place = "live"
    /\ MarkRunning
    /\ bookkeepingStop' = FALSE
    /\ Goes(k, "asked")
    /\ UNCHANGED <<place, def, live, up, exited, runVars, todo, isShutdown>>

\* The slots nobody else will fill again.
DeadSlots == fatal \cup {s \in exited : InRange(s)}
\* Broken variant: the dead slots of a service that was not stopped are left out.
NeedsFillStopped == stopped
NeedsFill == stopped \/ DeadSlots # {}

RestartServiceInstances(k) ==
    /\ caller[k] = "idle" /\ place = "live"
    /\ MarkRunning
    /\ bookkeepingStop' = FALSE
    /\ cancelled' = cancelled \cup Active
    /\ Goes(k, IF NeedsFill THEN "asked" ELSE "idle")
    /\ UNCHANGED <<place, def, live, up, exited, created, stage, slot, policy, todo, isShutdown>>

StopService ==
    /\ place = "live"
    /\ stopped' = TRUE
    /\ bookkeepingStop' = FALSE
    /\ cancelled' = cancelled \cup Active
    /\ UNCHANGED <<place, def, live, up, startFails, fatal, exited,
                   created, stage, slot, policy, callers, isShutdown>>

\* UpsertTask by boot, a reload or the station.  A new state gets a new
\* supervisor; a revived one resumes as a new one would (upsertSupervisor).
\* A new service is started (applyAdded), a changed one recycled (applyChanged).
Upsert(k, d) ==
    /\ caller[k] = "idle"
    /\ place' = "live"
    /\ def' = d
    /\ CASE place = "absent" -> NewSupervisor(~d.autostart)
         [] place # "absent" /\ bookkeepingStop /\ d.autostart ->
              MarkRunning /\ bookkeepingStop' = FALSE /\ UNCHANGED <<live, up, exited>>
         [] OTHER -> bookkeepingStop' = FALSE /\ UNCHANGED <<stopped, live, up, startFails, fatal, exited>>
    /\ Goes(k, IF place = "live" THEN "reloaded" ELSE "asked")
    /\ UNCHANGED <<runVars, todo, isShutdown>>

\* RecycleServiceInstances, the reload's next call.
RecycleServiceInstances(k) ==
    /\ caller[k] = "reloaded"
    /\ IF place # "live" \/ stopped
       THEN Goes(k, "idle") /\ UNCHANGED cancelled
       ELSE Goes(k, "asked") /\ cancelled' = cancelled \cup Active
    /\ UNCHANGED <<place, def, supervisor, created, stage, slot, policy, todo, isShutdown>>

\* HandleServiceApply on a service of the configuration: MutateTask merges the
\* instance count, and nothing else happens.
HandleServiceApply(n) ==
    /\ place = "live"
    /\ def' = [def EXCEPT !.instances = n]
    /\ UNCHANGED <<place, supervisor, runVars, callers, isShutdown>>

RemoveTask ==
    /\ place = "live"
    /\ IF Active = {}
       THEN place' = "absent" /\ NewSupervisor(FALSE)
       ELSE /\ place' = "draining"
            /\ stopped' = TRUE /\ bookkeepingStop' = TRUE
            /\ UNCHANGED <<live, up, startFails, fatal, exited>>
    /\ cancelled' = cancelled \cup Active
    /\ UNCHANGED <<def, created, stage, slot, policy, callers, isShutdown>>

\* A single instance is stopped from outside.
TerminateRun(r) ==
    /\ r \in Active \ cancelled
    /\ cancelled' = cancelled \cup {r}
    /\ UNCHANGED <<place, def, supervisor, created, stage, slot, policy, callers, isShutdown>>

BeginShutdown ==
    /\ ~isShutdown
    /\ isShutdown' = TRUE
    /\ UNCHANGED <<place, def, supervisor, runVars, callers>>

\* ShutdownWithDeadline's pass.
CancelPass ==
    /\ isShutdown /\ ~(Active \subseteq cancelled)
    /\ cancelled' = cancelled \cup Active
    /\ UNCHANGED <<place, def, supervisor, created, stage, slot, policy, callers, isShutdown>>

-----------------------------------------------------------------------------
Instance(r) == Execute(r) \/ Exit(r) \/ Retire(r) \/ RestartCheck(r) \/ RestartFire(r)
Call(k) == Compute(k) \/ Fill(k) \/ RecycleServiceInstances(k)
Operator ==
    \/ \E k \in Callers : StartService(k) \/ RestartServiceInstances(k) \/ \E d \in Defs : Upsert(k, d)
    \/ \E n \in Overrides : HandleServiceApply(n)
    \/ \E r \in RunIds : TerminateRun(r)
    \/ StopService \/ RemoveTask \/ BeginShutdown \/ CancelPass

Next ==
    \/ \E r \in RunIds : Instance(r)
    \/ \E k \in Callers : Call(k)
    \/ Operator

Spec == Init /\ [][Next]_vars

(***************************************************************************)
(* Fairness: goroutines and callers that are inside an operation get the   *)
(* manager lock, restart delays elapse.  None for operators, nor for       *)
(* processes left to themselves.                                           *)
(***************************************************************************)
Fairness ==
    /\ \A r \in RunIds : WF_vars(Retire(r)) /\ WF_vars(RestartCheck(r)) /\ WF_vars(RestartFire(r))
    /\ \A k \in Callers : WF_vars(Call(k))

FairSpec == Spec /\ Fairness
-----------------------------------------------------------------------------
(* Properties *)

\* Every variable keeps the type its Go field has.
TypeOK ==
    /\ place \in {"absent", "live", "draining"}
    /\ def \in DefType
    /\ stopped \in BOOLEAN /\ bookkeepingStop \in BOOLEAN
    /\ live \subseteq Slots /\ up \subseteq Slots /\ fatal \subseteq Slots /\ exited \subseteq Slots
    /\ startFails \in [Slots -> Nat]
    /\ created \in 0 .. MaxRuns
    /\ stage \in [RunIds -> {"new", "waiting", "checked", "done"} \cup ActiveStages]
    /\ slot \in [RunIds -> Slots]
    /\ policy \in [RunIds -> Restarts]
    /\ cancelled \subseteq RunIds
    /\ caller \in [Callers -> {"idle", "reloaded", "asked", "filling"}]
    /\ todo \in [Callers -> SUBSET Slots]
    /\ isShutdown \in BOOLEAN

\* A slot is occupied exactly while one run is active in it, never by two,
\* whichever of restarts, starters, reloads and revivals race for it; only an
\* occupied slot counts as ready.
OneRunPerSlot ==
    /\ live = {slot[r] : r \in Active}
    /\ \A q, r \in Active : slot[q] = slot[r] => q = r
    /\ up \subseteq live

\* The instances the service is to have, given up and exited ones aside.
Wanted(s) ==
    /\ place = "live" /\ ~stopped /\ ~isShutdown
    /\ InRange(s)
    /\ s \notin fatal \cup exited

\* Someone will fill slot s: its own restart, or a caller.
Coming(s) ==
    \/ \E r \in RunIds : stage[r] \in {"waiting", "checked"} /\ slot[r] = s
    \/ \E k \in Callers : caller[k] \in {"reloaded", "asked"} \/ s \in todo[k]

\* No slot of a running service is forgotten: it is occupied, or given up, or
\* left down by its restart policy, or someone is about to fill it, although
\* stops, starts, reloads, removals and revivals interleave with the restarts.
NoSlotForgotten == \A s \in Slots : Wanted(s) => s \in live \/ Coming(s)

\* A slot that reads as exited has no instance: "a Start reserving it right after
\* never has its new run flagged exited" (markExitedIfDone).
ExitedIsDown == exited \cap live = {}

\* A slot is FATAL exactly when its streak of failed starts exceeds the budget:
\* who clears the flag gives it a fresh budget (MarkRunning).
FatalIffExhausted == \A s \in Slots : s \in fatal <=> startFails[s] > StartRetries

\* A running service comes up: every slot it should have is filled, unless it is
\* given up, left down, stopped or removed (or the bound on runs is reached).
EventuallyFilled ==
    \A s \in Slots : Wanted(s) ~> (s \in live \/ ~Wanted(s) \/ created = MaxRuns)
=============================================================================
