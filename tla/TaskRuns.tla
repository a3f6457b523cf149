------------------------------ MODULE TaskRuns ------------------------------
(***************************************************************************)
(* The concurrency core of RunWisp: internal/runtime.defaultTaskManager    *)
(* for cron and on-demand tasks (services are another module's).           *)
(* For each task it keeps the list of active runs, the queue of waiting    *)
(* runs and the state of the goroutine that drains the queue               *)
(* (queueProcessLoop, parked on a condition variable of the manager lock). *)
(* Triggers, run goroutines, retry goroutines, reloads, operator commands  *)
(* and daemon shutdown all interleave; each holds the manager lock m.mu    *)
(* for one action, except the drain goroutine, which holds it from one     *)
(* cond.Wait to the next (loop = "holding").                               *)
(***************************************************************************)
EXTENDS Integers, FiniteSets, SequencesExt

CONSTANTS
    Tasks,      \* task names
    Defs,       \* the definitions a reload may install
    Origins,    \* who triggers runs: "local" or "station"
    MaxRuns     \* bound: how many runs are ever created

Policies == {"skip", "queue", "kill"}

\* config guarantees max_concurrent >= 1; max_queued = 0 means "none waits".
DefType == [policy : Policies, limit : Nat \ {0}, maxQueued : Nat,
            retries : Nat, ephemeral : BOOLEAN]

ASSUME TaskRunsAssumption ==
    /\ Tasks # {}
    /\ Defs \subseteq DefType /\ Defs # {}
    /\ Origins \subseteq {"local", "station"}
    /\ MaxRuns \in Nat

\* Runs are numbered in the order TriggerRunWithOptions creates them.
RunIds == 1 .. MaxRuns

VARIABLES
    place,      \* where the taskState is: "absent", "live" (m.tasks), "draining" (m.removedTasks)
    def,        \* its definition, ts.task
    active,     \* ts.active, oldest first
    queue,      \* ts.queue
    loop,       \* queueProcessLoop: "none", "ready" to take the lock, "holding" it, "parked"
    created,    \* how many runs exist
    stage,      \* "new", "queued", "active", the executor returned ("failed" when the end
                \* reason is in FailedExecutionReasons, else "exited"), "retrying", "ended"
    owner,      \* the task of a run
    budget,     \* retry_attempts of the definition the run started under
    ctx,        \* the run's context: "live", "cancelled", "timedout"
    latched,    \* runs the kill policy has cancelled (ActiveRun.cancelled)
    attempt,    \* RetryAttempt
    origin,     \* TriggeredBy
    shut        \* "up", "begun" (isShutdown), "cancelled" (after the cancel pass), "down"

taskVars == <<place, def, active, queue, loop>>
runVars  == <<created, stage, owner, budget, ctx, latched, attempt, origin>>
vars     == <<taskVars, runVars, shut>>

Init ==
    /\ place = [t \in Tasks |-> "absent"]
    /\ def = [t \in Tasks |-> CHOOSE d \in Defs : TRUE]
    /\ active = [t \in Tasks |-> <<>>]
    /\ queue = [t \in Tasks |-> <<>>]
    /\ loop = [t \in Tasks |-> "none"]
    /\ created = 0
    /\ stage = [r \in RunIds |-> "new"]
    /\ owner = [r \in RunIds |-> CHOOSE t \in Tasks : TRUE]
    /\ budget = [r \in RunIds |-> 0]
    /\ ctx = [r \in RunIds |-> "live"]
    /\ latched = {}
    /\ attempt = [r \in RunIds |-> 0]
    /\ origin = [r \in RunIds |-> "local"]
    /\ shut = "up"

-----------------------------------------------------------------------------
(* The manager lock, the condition variable, contexts *)

LockFree == \A t \in Tasks : loop[t] # "holding"
isShutdown == shut # "up"

\* Broken variant: a missing Signal or Broadcast.
WokenNever(t) == loop[t]
\* cond.Signal and cond.Broadcast: the drain goroutine is the only waiter.
Woken(t) == IF loop[t] = "parked" THEN "ready" ELSE loop[t]

\* ActiveRun.Cancel: a context that is already done keeps its cause.
Cancelled(S) ==
    [r \in RunIds |-> IF r \in S /\ ctx[r] = "live" THEN "cancelled" ELSE ctx[r]]

ActiveOf(t) == ToSet(active[t])
QueuedOf(t) == ToSet(queue[t])

EndAll(S) == [r \in RunIds |-> IF r \in S THEN "ended" ELSE stage[r]]

-----------------------------------------------------------------------------
(* TriggerRunWithOptions *)

\* Broken variant: the check of the queue is dropped.
QueuePendingNever(t) == FALSE
\* A free slot does not let a fresh trigger overtake the runs that wait.
QueuePending(t) == def[t].policy = "queue" /\ queue[t] # <<>>
\* Broken variant: <= for <.
FreeSlotInclusive(t) == Len(active[t]) <= def[t].limit
FreeSlot(t) == Len(active[t]) < def[t].limit

\* cancelExcessRuns: the oldest runs not yet cancelled by this policy, as many
\* as must leave for the new run to fit.
Live(t) == {i \in 1 .. Len(active[t]) : active[t][i] \notin latched}
\* Broken variant: one run makes room for one, whatever a reload did to the limit.
NeededOne(t) == IF Cardinality(Live(t)) < def[t].limit THEN 0 ELSE 1
Needed(t) == Cardinality(Live(t)) - def[t].limit + 1
Victims(t) ==
    {active[t][i] : i \in {j \in Live(t) : Cardinality({k \in Live(t) : k <= j}) <= Needed(t)}}

\* startRun registers run r; st is the stage map the caller changes.
StartRun(t, r, st) ==
    /\ active' = [active EXCEPT ![t] = Append(@, r)]
    /\ stage' = [st EXCEPT ![r] = "active"]
    /\ budget' = [budget EXCEPT ![r] = def[t].retries]

EnterQueue(t, r, st) ==
    /\ queue' = [queue EXCEPT ![t] = Append(@, r)]
    /\ stage' = [st EXCEPT ![r] = "queued"]
    /\ loop' = [loop EXCEPT ![t] = Woken(t)]
    /\ UNCHANGED <<active, budget, ctx, latched>>

\* A skipped or queue_full run is persisted and ended at once.
Refuse(r, st) ==
    /\ stage' = [st EXCEPT ![r] = "ended"]
    /\ UNCHANGED <<active, queue, loop, budget, ctx, latched>>

\* evaluateConcurrency and the switch on its answer.
Admit(t, r, st) ==
    IF FreeSlot(t) /\ ~QueuePending(t)
    THEN StartRun(t, r, st) /\ UNCHANGED <<queue, loop, ctx, latched>>
    ELSE \/ /\ def[t].policy = "skip"
            /\ Refuse(r, st)
         \/ /\ def[t].policy = "queue"
            /\ IF Len(queue[t]) >= def[t].maxQueued THEN Refuse(r, st) ELSE EnterQueue(t, r, st)
         \/ /\ def[t].policy = "kill"
            /\ StartRun(t, r, st)
            /\ latched' = latched \cup Victims(t)
            /\ ctx' = Cancelled(Victims(t))
            /\ UNCHANGED <<queue, loop>>

\* The next run, with its fields, is created in t and admitted.
NewRun(t, o, n, st) ==
    LET r == created + 1 IN
    /\ created < MaxRuns
    /\ created' = r
    /\ owner' = [owner EXCEPT ![r] = t]
    /\ origin' = [origin EXCEPT ![r] = o]
    /\ attempt' = [attempt EXCEPT ![r] = n]
    /\ Admit(t, r, st)
    /\ UNCHANGED <<place, def, shut>>

\* Cron tick, manual trigger, catch-up, run_on_start or station dispatch.
TriggerRunWithOptions(t, o) ==
    /\ LockFree
    /\ ~isShutdown
    /\ place[t] = "live"
    /\ NewRun(t, o, 0, stage)

-----------------------------------------------------------------------------
(* queueProcessLoop *)

LoopLock(t) ==
    /\ loop[t] = "ready"
    /\ LockFree
    /\ loop' = [loop EXCEPT ![t] = "holding"]
    /\ UNCHANGED <<place, def, active, queue, runVars, shut>>

\* Broken variant: isShutdown is not checked again after cond.Wait.
MustQuitOnReload(t) == place[t] # "live" \/ def[t].policy # "queue"
MustQuit(t) == isShutdown \/ place[t] # "live" \/ def[t].policy # "queue"
CanStart(t) == queue[t] # <<>> /\ FreeSlot(t)

\* One turn of the outer loop; the lock is kept for the next turn.
LoopStart(t) ==
    /\ loop[t] = "holding"
    /\ ~MustQuit(t)
    /\ CanStart(t)
    /\ queue' = [queue EXCEPT ![t] = Tail(@)]
    /\ StartRun(t, Head(queue[t]), stage)
    /\ UNCHANGED <<place, def, loop, created, owner, ctx, latched, attempt, origin, shut>>

\* cond.Wait releases the lock; the check of isShutdown comes just before it.
LoopPark(t) ==
    /\ loop[t] = "holding"
    /\ ~MustQuit(t)
    /\ ~CanStart(t)
    /\ loop' = [loop EXCEPT ![t] = "parked"]
    /\ UNCHANGED <<place, def, active, queue, runVars, shut>>

\* queueDraining is cleared and the lock released.
LoopExit(t) ==
    /\ loop[t] = "holding"
    /\ MustQuit(t)
    /\ loop' = [loop EXCEPT ![t] = "none"]
    /\ UNCHANGED <<place, def, active, queue, runVars, shut>>

-----------------------------------------------------------------------------
(* The run goroutine: execute, recordRunOutcome, retireRun, scheduleFollowup *)

\* The task's timeout elapses.
Expire(r) ==
    /\ stage[r] = "active"
    /\ ctx[r] = "live"
    /\ ctx' = [ctx EXCEPT ![r] = "timedout"]
    /\ UNCHANGED <<taskVars, created, stage, owner, budget, latched, attempt, origin, shut>>

\* executor.Execute returns.  A failure before the process exists (log file,
\* disk, backend) or a policy kill is "failed" whatever the context says; a
\* process that ran is classified by its context: timed out (re-runnable),
\* stopped (not), or by its exit code.
Exit(r) ==
    /\ stage[r] = "active"
    /\ \/ stage' = [stage EXCEPT ![r] = "failed"]
       \/ ctx[r] # "timedout" /\ stage' = [stage EXCEPT ![r] = "exited"]
    /\ UNCHANGED <<taskVars, created, owner, budget, ctx, latched, attempt, origin, shut>>

ShouldRetry(r) ==
    /\ origin[r] # "station"
    /\ stage[r] = "failed"
    /\ attempt[r] < budget[r]

\* reapRetiredTaskState: the place of t once its active runs are rest.
Reaped(t, rest) ==
    IF rest = <<>> /\ (place[t] = "draining" \/ (def[t].ephemeral /\ queue[t] = <<>>))
    THEN "absent"
    ELSE place[t]

\* retireRun frees the slot and signals the drain goroutine; then
\* scheduleFollowup, which reads only what the goroutine captured, may leave a
\* goroutine waiting out the retry delay.  The ActiveRun is garbage: its context
\* and latch, and the captured definition, go back to their initial values.
Retire(r) ==
    LET t == owner[r] IN
    /\ LockFree
    /\ stage[r] \in {"exited", "failed"}
    /\ \E i \in 1 .. Len(active[t]) :
         /\ active[t][i] = r
         /\ active' = [active EXCEPT ![t] = RemoveAt(active[t], i)]
    /\ place' = [place EXCEPT ![t] = Reaped(t, active'[t])]
    /\ loop' = [loop EXCEPT ![t] = Woken(t)]
    /\ stage' = [stage EXCEPT ![r] = IF ShouldRetry(r) THEN "retrying" ELSE "ended"]
    /\ ctx' = [ctx EXCEPT ![r] = "live"]
    /\ latched' = latched \ {r}
    /\ budget' = [budget EXCEPT ![r] = 0]
    /\ UNCHANGED <<def, queue, created, owner, attempt, origin, shut>>

\* scheduleRetry: the delay elapsed; the retry is a new run, or lost when the
\* task is gone.
RetryFire(r) ==
    /\ LockFree
    /\ ~isShutdown
    /\ stage[r] = "retrying"
    /\ \/ /\ place[owner[r]] = "live"
          /\ NewRun(owner[r], origin[r], attempt[r] + 1, [stage EXCEPT ![r] = "ended"])
       \/ /\ place[owner[r]] # "live"
          /\ stage' = [stage EXCEPT ![r] = "ended"]
          /\ UNCHANGED <<taskVars, created, owner, budget, ctx, latched, attempt, origin, shut>>

\* Broken variant: the wait for the delay does not watch shutdownCtx.
RetryAbortLate(r) ==
    /\ stage[r] = "retrying"
    /\ shut = "down"
    /\ stage' = [stage EXCEPT ![r] = "ended"]
    /\ UNCHANGED <<taskVars, created, owner, budget, ctx, latched, attempt, origin, shut>>
\* shutdownCtx ends the wait.
RetryAbort(r) ==
    /\ stage[r] = "retrying"
    /\ isShutdown
    /\ stage' = [stage EXCEPT ![r] = "ended"]
    /\ UNCHANGED <<taskVars, created, owner, budget, ctx, latched, attempt, origin, shut>>

-----------------------------------------------------------------------------
(* Reloads and operators *)

\* Broken variant: the queue is dropped, its runs are not ended.
FinalizeQueueSilently(t) ==
    /\ queue' = [queue EXCEPT ![t] = <<>>]
    /\ UNCHANGED stage
\* finalizeOrphanedQueue: every waiting run ends as skipped.
FinalizeQueue(t) ==
    /\ queue' = [queue EXCEPT ![t] = <<>>]
    /\ stage' = EndAll(QueuedOf(t))

\* Broken variant: the drain goroutine is spawned for new tasks only.
RearmedOnce(t) == IF loop[t] = "none" /\ place[t] = "absent" THEN "ready" ELSE Woken(t)
\* Broken variant: a reload does not wake the drain goroutine.
RearmedQuietly(t) == IF loop[t] = "none" THEN "ready" ELSE loop[t]
\* The drain goroutine a queue-policy definition needs: spawned unless alive,
\* woken because the limit may have risen.
Rearmed(t) == IF loop[t] = "none" THEN "ready" ELSE Woken(t)

\* upsertTaskLocked: a new task, a changed definition, or the revival of a task
\* whose runs still drain (its active list is kept).
UpsertTask(t, d) ==
    /\ LockFree
    /\ place' = [place EXCEPT ![t] = "live"]
    /\ def' = [def EXCEPT ![t] = d]
    /\ IF d.policy = "queue"
       THEN /\ loop' = [loop EXCEPT ![t] = Rearmed(t)]
            /\ UNCHANGED <<queue, stage>>
       ELSE /\ loop' = [loop EXCEPT ![t] = Woken(t)]
            /\ FinalizeQueue(t)
    /\ UNCHANGED <<active, created, owner, budget, ctx, latched, attempt, origin, shut>>

\* The drain goroutine of a state that goes "absent" is still around until it
\* takes the lock and sees ts.removed.
RemoveTask(t) ==
    /\ LockFree
    /\ place[t] = "live"
    /\ place' = [place EXCEPT ![t] = IF active[t] = <<>> THEN "absent" ELSE "draining"]
    /\ loop' = [loop EXCEPT ![t] = Woken(t)]
    /\ FinalizeQueue(t)
    /\ UNCHANGED <<def, active, created, owner, budget, ctx, latched, attempt, origin, shut>>

StopTask(t) ==
    /\ LockFree
    /\ place[t] = "live"
    /\ ctx' = Cancelled(ActiveOf(t))
    /\ loop' = [loop EXCEPT ![t] = Woken(t)]
    /\ FinalizeQueue(t)
    /\ UNCHANGED <<place, def, active, created, owner, budget, latched, attempt, origin, shut>>

\* By run id or execution id; finds the runs of removed tasks as well.
TerminateRun(r) ==
    /\ LockFree
    /\ \E t \in Tasks : r \in ActiveOf(t)
    /\ ctx' = Cancelled({r})
    /\ UNCHANGED <<taskVars, created, stage, owner, budget, latched, attempt, origin, shut>>

-----------------------------------------------------------------------------
(* Shutdown *)

\* Sets the flag without the manager lock.
BeginShutdown ==
    /\ shut = "up"
    /\ shut' = "begun"
    /\ UNCHANGED <<taskVars, runVars>>

\* ShutdownWithDeadline's pass over every taskState, removed ones included.
CancelPass ==
    /\ LockFree
    /\ shut = "begun"
    /\ shut' = "cancelled"
    /\ ctx' = Cancelled(UNION {ActiveOf(t) : t \in Tasks})
    /\ loop' = [t \in Tasks |-> IF place[t] = "absent" THEN loop[t] ELSE Woken(t)]
    /\ UNCHANGED <<place, def, active, queue, created, stage, owner, budget, latched,
                   attempt, origin>>

\* m.wg: run, retry and drain goroutines.
Goroutines == {t \in Tasks : loop[t] # "none"} # {}
              \/ \E r \in RunIds : stage[r] \in {"active", "exited", "failed", "retrying"}

Drained ==
    /\ shut = "cancelled"
    /\ ~Goroutines
    /\ shut' = "down"
    /\ UNCHANGED <<taskVars, runVars>>

\* The daemon is gone.
Terminated == shut = "down" /\ UNCHANGED vars

-----------------------------------------------------------------------------
Loop(t) == LoopLock(t) \/ LoopStart(t) \/ LoopPark(t) \/ LoopExit(t)
Run(r) == Expire(r) \/ Exit(r) \/ Retire(r) \/ RetryFire(r) \/ RetryAbort(r)
Operator ==
    /\ shut # "down"
    /\ \/ \E t \in Tasks :
             \/ \E o \in Origins : TriggerRunWithOptions(t, o)
             \/ \E d \in Defs : UpsertTask(t, d)
             \/ RemoveTask(t)
             \/ StopTask(t)
       \/ \E r \in RunIds : TerminateRun(r)
Shutdown == BeginShutdown \/ CancelPass \/ Drained \/ Terminated

Next ==
    \/ Operator
    \/ \E t \in Tasks : Loop(t)
    \/ \E r \in RunIds : Run(r)
    \/ Shutdown

Spec == Init /\ [][Next]_vars

(***************************************************************************)
(* Fairness.  Go mutexes are starvation free, so a goroutine waiting for   *)
(* m.mu gets it: SF for the steps that take it.  Timers fire and a         *)
(* cancelled process is killed at the latest when its graceful_stop is     *)
(* over: WF.  wg.Wait returns the first time the counter is zero: SF.  No  *)
(* fairness for triggers, reloads, operators, the shutdown signal, retries *)
(* and processes left to themselves.  Expire is fair because the tasks of  *)
(* the run have a timeout.  The steps a run owes are taken finitely often, *)
(* so one condition for their disjunction is as good as one for each; the  *)
(* same holds of the two steps of the shutdown.                            *)
(***************************************************************************)
Fairness ==
    /\ \A t \in Tasks : SF_vars(LoopLock(t)) /\ WF_vars(LoopStart(t) \/ LoopPark(t) \/ LoopExit(t))
    /\ \A r \in RunIds :
          /\ WF_vars(Expire(r) \/ (ctx[r] # "live" /\ Exit(r)) \/ RetryAbort(r))
          /\ SF_vars(Retire(r))
    /\ SF_vars(CancelPass \/ Drained)

FairSpec == Spec /\ Fairness
-----------------------------------------------------------------------------
(* Properties *)

Stages == {"new", "queued", "active", "exited", "failed", "retrying", "ended"}

\* Every variable keeps the type its Go field has.
TypeOK ==
    /\ place \in [Tasks -> {"absent", "live", "draining"}]
    /\ def \in [Tasks -> Defs]
    /\ active \in [Tasks -> Seq(RunIds)]
    /\ queue \in [Tasks -> Seq(RunIds)]
    /\ loop \in [Tasks -> {"none", "ready", "holding", "parked"}]
    /\ created \in 0 .. MaxRuns
    /\ stage \in [RunIds -> Stages]
    /\ owner \in [RunIds -> Tasks]
    /\ budget \in [RunIds -> Nat]
    /\ ctx \in [RunIds -> {"live", "cancelled", "timedout"}]
    /\ latched \subseteq RunIds
    /\ attempt \in [RunIds -> Nat]
    /\ origin \in [RunIds -> {"local", "station"}]
    /\ shut \in {"up", "begun", "cancelled", "down"}

\* A waiting run always has someone who will start or end it: its task is
\* registered under the queue policy and, until shutdown, its drain goroutine
\* is alive (the queueDraining re-arm and the finalize-on-flip of UpsertTask).
NoStrandedQueue ==
    \A t \in Tasks : queue[t] # <<>> =>
        /\ place[t] = "live"
        /\ def[t].policy = "queue"
        /\ loop[t] # "none" \/ isShutdown

\* A drain goroutine sleeps in cond.Wait only while it has nothing to do and
\* someone still holds its taskState to wake it: no signal is lost, whichever
\* of retire, trigger, reload, removal, stop and shutdown comes in between.
NoLostWakeup ==
    \A t \in Tasks : loop[t] = "parked" =>
        /\ ~CanStart(t)
        /\ place[t] = "live"
        /\ def[t].policy = "queue"
        /\ shut \in {"up", "begun"}

\* Runs of a task start in the order they were created: a fresh trigger never
\* overtakes one that waits (evaluateConcurrency's queuePending).
Ascending(s) == \A i, j \in 1 .. Len(s) : i < j => s[i] < s[j]
Fifo ==
    \A t \in Tasks :
        /\ Ascending(active[t])
        /\ Ascending(queue[t])
        /\ \A a \in ActiveOf(t), q \in QueuedOf(t) : a < q

\* No run is lost or held twice: a run is in the queue of its own task exactly
\* while its row is pending, in the active list exactly while its goroutine
\* has not retired it, whatever reloads and removals do to the task.
InFlight == {"active", "exited", "failed"}
RunsAccounted ==
    /\ \A t \in Tasks : \A r \in ActiveOf(t) : owner[r] = t /\ stage[r] \in InFlight
    /\ \A t \in Tasks : \A r \in QueuedOf(t) : owner[r] = t /\ stage[r] = "queued"
    /\ \A r \in RunIds : stage[r] \in InFlight => r \in ActiveOf(owner[r])
    /\ \A r \in RunIds : stage[r] = "queued" => r \in QueuedOf(owner[r])

\* Once the cancel pass is over no run of any task, removed ones included, has
\* a live context: the promise triggers and the drain goroutine keep by
\* checking isShutdown under the lock.
ShutdownCancelsAll ==
    shut \in {"cancelled", "down"} =>
        \A t \in Tasks : \A r \in ActiveOf(t) : ctx[r] # "live"

\* A removed task is remembered exactly as long as one of its runs is active,
\* so shutdown and TerminateRun reach that run and a re-add counts it.
RemovedWhileDraining ==
    \A t \in Tasks :
        /\ place[t] = "absent" => active[t] = <<>>
        /\ place[t] = "draining" => active[t] # <<>>

\* A start never leaves more runs than max_concurrent; under the kill policy
\* the runs it has cancelled and that still drain do not count.
Started(t) == Len(active'[t]) > Len(active[t])
StartWithinLimit ==
    [][\A t \in Tasks : Started(t) =>
         IF def[t].policy = "kill"
         THEN Cardinality(Live(t)') <= def[t].limit
         ELSE Len(active'[t]) <= def[t].limit]_vars

\* The kill policy cancels no run it need not: after it, the task is exactly at
\* its limit (cancelExcessRuns counts only runs it has not cancelled before).
KillsNoMore ==
    [][\A t \in Tasks : Victims(t) # {} /\ latched' # latched /\ Started(t) =>
         Cardinality(Live(t)') = def[t].limit]_vars

\* A waiting run leaves the queue, started or ended, unless the daemon stops
\* first: the drain goroutine always comes back to it, whatever reloads,
\* removals and stops interleave.
QueueServed ==
    \A r \in RunIds : stage[r] = "queued" ~> (stage[r] # "queued" \/ isShutdown)

\* A shutdown that began completes: no run, retry or drain goroutine keeps
\* m.wg from reaching zero (the circular wait shutdownCtx's comment fears).
ShutdownCompletes == isShutdown ~> (shut = "down")
=============================================================================
