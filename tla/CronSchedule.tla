---------------------------- MODULE CronSchedule ----------------------------
(***************************************************************************)
(* Who fires the ticks of a cron task, and what is recorded of each:       *)
(* internal/runtime/scheduler.go (entries, pauses, the DST dedup), the     *)
(* boot order of startStandaloneScheduling in cmd/runwisp with catchup.go  *)
(* and runonstart.go, the reload and the cron hold of reconcile.go and     *)
(* cronhold.go, and the task_registrations row they all share.             *)
(*                                                                         *)
(* Time is discrete; cron callbacks are prompt (the clock waits for them), *)
(* and so are a reload and the step from the anchors to scheduler.Start.   *)
(* What a trigger does with its run is TaskRuns' matter and when a held    *)
(* fire leaves the gate is JitterGate's: here a trigger writes one row.    *)
(***************************************************************************)
EXTENDS Integers, FiniteSets, Sequences, FiniteSetsExt

CONSTANTS
    Tasks,
    Offered,        \* the definitions an operator may give a task
    Scheds,         \* cron specs
    Ticks,          \* the ticks of each spec
    Every,          \* the specs on a fixed interval (@every)
    Wall,           \* the wall-clock reading of each time, [hour, second]
    Absent,         \* not in the config
    NoCron,         \* a task without a cron spec
    DisplayFloor,   \* catchupCountDisplayFloor
    MaxTime,        \* bound: the clock stops there
    MaxEdits,       \* bound: how often the operator edits runwisp.toml
    MaxFlips,       \* bound: how often the system cron daemon starts or stops
    MaxBoots,       \* bound: how often the daemon starts
    OutrunEnds      \* whether the daemon may end while a tick is outrun, see Outrun

Time == 0 .. MaxTime

\* A task of runwisp.toml, as far as its schedule is concerned. foreign: it was
\* read from a crontab, so a live system cron daemon holds it.
Defs == [sched : Scheds \cup {NoCron}, foreign : BOOLEAN, manual : BOOLEAN,
         autostart : BOOLEAN, jitter : BOOLEAN, startup : BOOLEAN, catchUp : Nat]

ASSUME CronScheduleAssumption ==
    /\ MaxTime \in Nat /\ MaxEdits \in Nat /\ MaxFlips \in Nat /\ MaxBoots \in Nat
    /\ DisplayFloor \in Nat \ {0}
    /\ Offered \subseteq Defs
    /\ Ticks \in [Scheds -> SUBSET Nat]
    /\ Every \subseteq Scheds
    /\ Absent \notin [def : Defs, held : BOOLEAN]
    /\ Absent \notin Defs
    /\ NoCron \notin Scheds
    /\ OutrunEnds \in BOOLEAN

VARIABLES
    now,        \* the wall clock
    cron,       \* whether a system cron daemon is live
    flips,      \* how often it started or stopped
    file,       \* runwisp.toml
    edits,      \* how often it was edited
    row,        \* task_registrations, see NoRow
    writes,     \* rows of the runs table on their way to the database, in order
    phase,      \* "down", then the steps of a boot, then "up"
    boots,      \* how often the daemon started
    todo,       \* the tasks the current loop of the boot has still to visit
    live,       \* registry and manager: the definitions in force (last in force, when down)
    known,      \* Scheduler.tasks
    entry,      \* Scheduler.entryIDs: the spec armed for a task
    paused,     \* Scheduler.paused
    fired,      \* Scheduler.firedTicks: the times fired in the current wall hour
    calls,      \* cron callbacks on their way into fireOnce
    gate,       \* the tick whose jittered fire waits in the gate
    anchor,     \* SnapshotCatchupAnchors' result
    asOf,       \* catchUpNow
    reload,     \* the reconciler: its step, the config it applies, and on whose behalf
    watch,      \* the cron-hold watcher: w.last, and the answers waiting for r.mu
    outcome     \* what became of each tick (history, TickLedger's)

env == <<cron, flips, file, edits>>
bootVars == <<phase, boots, todo, anchor, asOf>>
sched == <<known, entry, paused, fired>>
vars == <<now, env, row, writes, bootVars, live, sched, calls, gate, reload, watch, outcome>>

\* Never is the zero time of a row or an anchor, and of a gate without a fire.
Never == -1

\* A row of task_registrations. since is the latest of first_seen_at, last_run_at
\* and resumed_at, which is all that catch-up reads of the three.
NoRow == [since |-> Never, paused |-> FALSE]

Live == [def : Defs, held : BOOLEAN] \cup {Absent}
Running == phase \in {"startup", "catchup", "up"}

-----------------------------------------------------------------------------
(* Predicates on a task of the live config (model.Task) *)

Schedulable(x) == x # Absent /\ x.def.sched # NoCron /\ ~x.held

\* pauseClearReason(task) == ""
Pausable(x) == x # Absent /\ x.def.sched # NoCron /\ x.def.manual

StartsPaused(x) == Pausable(x) /\ ~x.def.autostart

\* config.Load on the file of the moment, its crontab tasks held if cron is live.
Loaded == [t \in Tasks |->
    IF file[t] = Absent THEN Absent ELSE [def |-> file[t], held |-> file[t].foreign /\ cron]]

\* config.WithCronHold: the live config under another answer about cron.
WithCronHold(answer) == [t \in Tasks |->
    IF live[t] = Absent THEN Absent ELSE [live[t] EXCEPT !.held = live[t].def.foreign /\ answer]]

-----------------------------------------------------------------------------
(* The history of ticks *)

\* What passes at k: RunWisp answers for a tick of a task it has registered and
\* whose schedule it owns, unless the operator paused it.
Arisen(t, k) ==
    IF row[t] = NoRow \/ ~Schedulable(live[t]) THEN "none"
    ELSE IF k \notin Ticks[live[t].def.sched] THEN "none"
    ELSE IF row[t].paused THEN "waived" ELSE "due"

\* Something is recorded of the ticks S of t: a run once, and only of a tick that
\* was due; a report of missed ticks, of those in S that are open.
Settled(t, S, as) == [outcome EXCEPT ![t] = [k \in Time |->
    IF k \notin S THEN @[k]
    ELSE IF @[k] = "due" \/ (@[k] = "waived" /\ as # "missed") THEN as
    ELSE IF as = "missed" THEN @[k] ELSE "wrong"]]

\* The operator gives up what is due of t.
Waived(t) == [k \in Time |-> IF outcome[t][k] = "due" THEN "waived" ELSE outcome[t][k]]

-----------------------------------------------------------------------------
(* task_registrations and the runs table *)

\* Broken variant: a second registration moves the row to the present.
RegisteredAnew(r, x) == [since |-> now, paused |-> r.paused \/ StartsPaused(x)]

\* EnsureTaskRegistered on row r of task t, defined as x: a new row starts now,
\* paused if the task is; an old one is left alone.
Registered(r, x) == IF r = NoRow THEN [since |-> now, paused |-> StartsPaused(x)] ELSE r

\* ResumeTaskSchedule.
Resumed(r) == IF r.paused THEN [since |-> now, paused |-> FALSE] ELSE r

\* BumpTaskLastRun: only moves forward, and only a row that is there.
Bumped(r, at) == IF r # NoRow /\ r.since < at THEN [r EXCEPT !.since = at] ELSE r

\* A run of t that PersistNew sends to the database, recording ticks as "as".
NewRow(t, at, ticks, as) == [task |-> t, at |-> at, ticks |-> ticks, as |-> as]
Persist(t, at, ticks, as) == writes' = Append(writes, NewRow(t, at, ticks, as))

\* CreateRun, by the persistence worker.
WriteRow ==
    /\ phase # "down" /\ writes # <<>>
    /\ LET w == Head(writes) IN
          /\ row' = [row EXCEPT ![w.task] = Bumped(@, w.at)]
          /\ outcome' = Settled(w.task, w.ticks, w.as)
    /\ writes' = Tail(writes)
    /\ UNCHANGED <<now, env, bootVars, live, sched, calls, gate, reload, watch>>

-----------------------------------------------------------------------------
(* The clock, the operator's file and the system cron daemon *)

\* A second of the clock, in which the persistence worker has kept up. go-cron
\* starts the callback of every entry that is due. A fire leaves the gate before
\* the next tick of its task (the clamp in fireOnce).
Tick ==
    /\ now < MaxTime
    /\ phase # "loaded" /\ calls = {} /\ writes = <<>> /\ reload.step = "idle"
    /\ \A t \in Tasks : gate[t] # Never /\ entry[t] # NoCron => now + 1 \notin Ticks[entry[t]]
    /\ now' = now + 1
    /\ calls' = {t \in Tasks : entry[t] # NoCron /\ now + 1 \in Ticks[entry[t]]}
    /\ outcome' = [t \in Tasks |->
                     [outcome[t] EXCEPT ![now + 1] = Arisen(t, now + 1)]]
    /\ UNCHANGED <<env, row, writes, bootVars, live, sched, gate, reload, watch>>

\* During a boot or a reload an edit has nobody to notice it: it might as well
\* come later. So might a flip of cron during a boot.
Edit(t) ==
    /\ edits < MaxEdits
    /\ phase \in {"down", "up"} /\ reload.step = "idle"
    /\ edits' = edits + 1
    /\ \E d \in Offered \cup {Absent} : d # file[t] /\ file' = [file EXCEPT ![t] = d]
    /\ UNCHANGED <<now, cron, flips, row, writes, bootVars, live, sched, calls, gate,
                   reload, watch, outcome>>

CronFlips ==
    /\ flips < MaxFlips
    /\ phase \in {"down", "up"}
    /\ flips' = flips + 1
    /\ cron' = ~cron
    /\ UNCHANGED <<now, file, edits, row, writes, bootVars, live, sched, calls, gate,
                   reload, watch, outcome>>

-----------------------------------------------------------------------------
(* Boot: startStandaloneScheduling, then RunMissedTickCatchUp *)

\* ForgetTaskRegistrationsExcept, then EnsureTaskRegistered for every task
\* whose schedule is RunWisp's.
BootRow(t) ==
    LET kept == IF Loaded[t] = Absent THEN NoRow ELSE row[t]
    IN IF Schedulable(Loaded[t]) THEN Registered(kept, Loaded[t]) ELSE kept

\* resolveCatchupAnchor: a paused task owes nothing.
AnchorOf(r) == IF r = NoRow \/ r.paused THEN Never ELSE r.since

\* The obligations of the last process stand while the task is the same to the
\* scheduler: what RunWisp no longer schedules, or schedules otherwise, is given up.
Kept(t, x) ==
    Schedulable(x) /\ (live[t] = Absent \/ live[t].def.sched = x.def.sched)

\* What a boot does before the scheduler exists. The watcher will remember the
\* answer about cron this load got.
Load ==
    /\ phase = "down" /\ boots < MaxBoots
    /\ phase' = "loaded" /\ boots' = boots + 1
    /\ live' = Loaded
    /\ row' = [t \in Tasks |-> BootRow(t)]
    /\ anchor' = [t \in Tasks |->
                    IF Schedulable(Loaded[t]) THEN AnchorOf(BootRow(t)) ELSE Never]
    /\ asOf' = now
    /\ outcome' = [t \in Tasks |->
                     IF row[t] = NoRow \/ ~Kept(t, Loaded[t]) THEN Waived(t) ELSE outcome[t]]
    /\ watch' = [watch EXCEPT !.last = cron]
    /\ UNCHANGED <<now, env, writes, todo, sched, calls, gate, reload>>

\* RestorePauses (a pause the config no longer allows is cleared), then Start.
StartScheduler ==
    /\ phase = "loaded"
    /\ phase' = "startup" /\ todo' = Tasks
    /\ known' = live
    /\ paused' = {t \in Tasks : row[t].paused /\ Pausable(live[t])}
    /\ row' = [t \in Tasks |-> IF Pausable(live[t]) THEN row[t] ELSE Resumed(row[t])]
    /\ outcome' = [t \in Tasks |->
                     IF row[t].paused /\ ~Pausable(live[t]) THEN Waived(t) ELSE outcome[t]]
    /\ entry' = [t \in Tasks |-> IF Schedulable(live[t]) THEN live[t].def.sched ELSE NoCron]
    /\ fired' = [t \in Tasks |-> {}]
    /\ UNCHANGED <<now, env, writes, boots, live, calls, gate, anchor, asOf, reload, watch>>

\* RunStartupTasks: one task of its loop.
RunStartupTask(t) ==
    /\ phase = "startup" /\ t \in todo
    /\ todo' = todo \ {t}
    /\ IF live[t] # Absent /\ live[t].def.startup /\ ~live[t].held /\ t \notin paused
       THEN Persist(t, now, {}, "ran")
       ELSE UNCHANGED writes
    /\ UNCHANGED <<now, env, row, phase, boots, anchor, asOf, live, sched, calls, gate, reload,
                   watch, outcome>>

StartCatchUp ==
    /\ phase = "startup" /\ todo = {}
    /\ phase' = "catchup" /\ todo' = Tasks
    /\ UNCHANGED <<now, env, row, writes, boots, anchor, asOf, live, sched, calls, gate, reload,
                   watch, outcome>>

\* countMissedTicks, before it is cut off: the ticks after from and up to to,
\* less the repeats of a wall-clock reading.
MissedTicks(s, from, to) ==
    LET between == {k \in Ticks[s] : from < k /\ k <= to}
    IN {k \in between : s \in Every \/ ~\E j \in between : j < k /\ Wall[j] = Wall[k]}

\* The CreatedAt of the missed row: the last tick counted, or the present when
\* the count was cut off.
MissedAt(missed, d) ==
    IF Cardinality(missed) > IF d.catchUp > DisplayFloor THEN d.catchUp ELSE DisplayFloor
    THEN asOf ELSE Max(missed)

\* computeCatchupTriggers.
CatchUpTriggers(missed, d) ==
    IF Cardinality(missed) > d.catchUp THEN d.catchUp ELSE Cardinality(missed)

\* Broken variant: the anchor is read when the catch-up runs.
LookBackLate(t) == AnchorOf(row[t])
\* The anchor is the one SnapshotCatchupAnchors took.
LookBack(t) == anchor[t]

\* catchupOneTask: the missed row, then the runs that make up for it.
CatchUpTask(t) ==
    /\ phase = "catchup" /\ t \in todo
    /\ todo' = todo \ {t}
    /\ LET d == live[t].def
           missed == MissedTicks(d.sched, LookBack(t), asOf)
           at == MissedAt(missed, d)
           report == NewRow(t, at, {k \in Ticks[d.sched] : LookBack(t) < k /\ k <= asOf}, "missed")
           reruns == [i \in 1 .. CatchUpTriggers(missed, d) |-> NewRow(t, now, {}, "ran")]
       IN IF LookBack(t) # Never /\ missed # {}
          THEN writes' = writes \o <<report>> \o reruns
          ELSE UNCHANGED writes
    /\ UNCHANGED <<now, env, row, phase, boots, anchor, asOf, live, sched, calls, gate, reload,
                   watch, outcome>>

\* The server and the cron-hold watcher start last.
FinishBoot ==
    /\ phase = "catchup" /\ todo = {}
    /\ phase' = "up"
    /\ UNCHANGED <<now, env, row, writes, boots, todo, anchor, asOf, live, sched, calls, gate,
                   reload, watch, outcome>>

\* Ticks this boot still has to report.
Unreported(t) ==
    IF anchor[t] # Never /\ (phase \in {"loaded", "startup"} \/ (phase = "catchup" /\ t \in todo))
    THEN {k \in Ticks[live[t].def.sched] : anchor[t] < k /\ k <= asOf}
    ELSE {}
\* Ticks whose record is on its way to the database.
InWrites(t) == UNION {writes[i].ticks : i \in {j \in DOMAIN writes : writes[j].task = t}}

\* The row is ahead of a record that is still to come: if the daemon ended now,
\* the next catch-up would not look that far back.
Outrun(t) ==
    \/ gate[t] # Never /\ gate[t] <= row[t].since
    \/ t \in calls /\ now <= row[t].since
    \/ \E k \in Unreported(t) \cup InWrites(t) : k <= row[t].since

-----------------------------------------------------------------------------
(* fireOnce, and what the gate does with a jittered fire *)

\* firedHour.repeat: the wall clock read the same at a tick fired this hour.
Repeat(t) == \E j \in fired[t] : Wall[j] = Wall[now]
FiredNow(t) == {j \in fired[t] : Wall[j].hour = Wall[now].hour} \cup {now}

\* Broken variant: a tick handed to the gate is triggered as well.
StartAndHold(t) ==
    /\ gate' = IF Schedulable(known[t]) /\ known[t].def.jitter THEN [gate EXCEPT ![t] = now] ELSE gate
    /\ Persist(t, now, {now}, "ran")
    /\ UNCHANGED outcome

\* A tick that is neither dropped nor a repeat: to the gate, or to the manager.
StartOrHold(t) ==
    /\ IF Schedulable(known[t]) /\ known[t].def.jitter
       THEN gate' = [gate EXCEPT ![t] = now] /\ UNCHANGED writes
       ELSE Persist(t, now, {now}, "ran") /\ UNCHANGED gate
    /\ UNCHANGED outcome

\* The manager does not know the task any more: nothing is recorded.
Refuse(t) ==
    /\ outcome' = [outcome EXCEPT ![t] = Waived(t)]
    /\ UNCHANGED <<writes, gate>>

\* The callback once it has the scheduler's lock. A paused task's tick is
\* dropped before the dedup sees it.
FireUnpaused(t) ==
    IF ~(entry[t] \in Every) /\ Repeat(t)
    THEN /\ UNCHANGED <<fired, gate, outcome>>
         /\ Persist(t, now, {now}, "skipped")
    ELSE /\ fired' = [fired EXCEPT ![t] = IF entry[t] \in Every THEN @ ELSE FiredNow(t)]
         /\ StartOrHold(t)

Fire(t) ==
    /\ t \in calls /\ calls' = calls \ {t}
    /\ IF t \in paused \/ live[t] = Absent
       THEN Refuse(t) /\ UNCHANGED fired
       ELSE FireUnpaused(t)
    /\ UNCHANGED <<now, env, row, bootVars, live, known, entry, paused, reload, watch>>

\* triggerJittered: a fire whose task was removed, held or paused while it
\* waited is refused; any other is recorded under its tick.
ReleaseChecked(t) ==
    IF live[t] = Absent \/ live[t].held \/ t \in paused
    THEN UNCHANGED writes /\ outcome' = [outcome EXCEPT ![t] = Waived(t)]
    ELSE Persist(t, gate[t], {gate[t]}, "ran") /\ UNCHANGED outcome

\* Broken variant: the fire stays in the gate after its release.
ReleaseKept(t) ==
    /\ gate[t] # Never /\ Len(writes) < 3
    /\ ReleaseChecked(t)
    /\ UNCHANGED <<now, env, row, bootVars, live, sched, calls, gate, reload, watch>>

Release(t) ==
    /\ gate[t] # Never
    /\ gate' = [gate EXCEPT ![t] = Never]
    /\ ReleaseChecked(t)
    /\ UNCHANGED <<now, env, row, bootVars, live, sched, calls, reload, watch>>

-----------------------------------------------------------------------------
(* Operators: a run by hand, a pause, a resume *)

\* A run of t for another reason than its ticks: an operator's trigger, a retry.
ManualRun(t) ==
    /\ phase = "up" /\ live[t] # Absent /\ live[t].def.manual
    /\ row[t].since < now /\ \A i \in DOMAIN writes : writes[i].task = t => writes[i].at < now
    /\ Persist(t, now, {}, "ran")
    /\ UNCHANGED <<now, env, row, bootVars, live, sched, calls, gate, reload, watch, outcome>>

\* Broken variant: the pause is kept in memory only.
PauseInMemory(t) ==
    /\ phase = "up"
    /\ Pausable(known[t]) /\ ~known[t].held /\ t \notin paused
    /\ paused' = paused \cup {t}
    /\ UNCHANGED <<now, env, row, writes, bootVars, live, known, entry, fired, calls, gate,
                   reload, watch, outcome>>
\* Pause goes by the scheduler's own task set, under its lock, and is durable first.
Pause(t) ==
    /\ phase = "up"
    /\ Pausable(known[t]) /\ ~known[t].held /\ t \notin paused
    /\ row' = [row EXCEPT ![t] = [since |-> IF @ = NoRow THEN now ELSE @.since, paused |-> TRUE]]
    /\ paused' = paused \cup {t}
    /\ UNCHANGED <<now, env, writes, bootVars, live, known, entry, fired, calls, gate,
                   reload, watch, outcome>>

\* Resume: the ticks of the pause, and what was open when it began, are given up.
Resume(t) ==
    /\ phase = "up" /\ t \in paused
    /\ row' = [row EXCEPT ![t] = Resumed(@)]
    /\ paused' = paused \ {t}
    /\ outcome' = [outcome EXCEPT ![t] = Waived(t)]
    /\ UNCHANGED <<now, env, writes, bootVars, live, known, entry, fired, calls, gate,
                   reload, watch>>

-----------------------------------------------------------------------------
(* Reconcile and RefreshCronHolds: one at a time, under r.mu *)

Removed == {t \in Tasks : live[t] # Absent /\ reload.target[t] = Absent}
Changed == {t \in Tasks : live[t] # reload.target[t] /\ reload.target[t] # Absent}

\* A reload that finds the file or cron changed. It ends by replacing the
\* watcher by one that remembers the answer the reload got (syncCronWatcher).
Reload ==
    /\ phase = "up" /\ reload.step = "idle"
    /\ reload' = [step |-> "remove", target |-> Loaded, whole |-> TRUE, cron |-> cron]
    /\ UNCHANGED <<now, env, row, writes, bootVars, live, sched, calls, gate, watch, outcome>>

\* applyRemoved for every removed task, then ForgetTaskRegistrationsExcept.
Remove ==
    /\ reload.step = "remove"
    /\ reload' = [reload EXCEPT !.step = "update"]
    /\ live' = [t \in Tasks |-> IF t \in Removed THEN Absent ELSE live[t]]
    /\ entry' = [t \in Tasks |-> IF t \in Removed THEN NoCron ELSE entry[t]]
    /\ fired' = [t \in Tasks |-> IF t \in Removed THEN {} ELSE fired[t]]
    /\ row' = [t \in Tasks |->
                 IF Removed # {} /\ reload.target[t] = Absent THEN NoRow ELSE row[t]]
    /\ outcome' = [t \in Tasks |-> IF t \in Removed THEN Waived(t) ELSE outcome[t]]
    /\ UNCHANGED <<now, env, writes, bootVars, known, paused, calls, gate, watch>>

\* register, at an addition and whenever a task becomes schedulable
\* (anchorNewlySchedulable); the pause of a first registration is adopted.
UpdatedRow(t, x) ==
    IF ~Schedulable(live[t]) /\ Schedulable(x) THEN Registered(row[t], x) ELSE row[t]

\* Broken variant: a change of hold does not touch the cron entry.
NewScheduleBySpec(t, x) == live[t] = Absent \/ live[t].def.sched # x.def.sched

\* rescheduleChanged, for an addition or a change of spec or hold.
Rescheduled(x) == IF Schedulable(x) THEN x.def.sched ELSE NoCron
NewSchedule(t, x) ==
    \/ live[t] = Absent
    \/ live[t].def.sched # x.def.sched
    \/ live[t].held # x.held

\* applyAdded or applyChanged, or the loop of RefreshCronHolds, for one task.
Update(t) ==
    /\ reload.step = "update" /\ t \in Changed
    /\ LET x == reload.target[t] IN
          /\ live' = [live EXCEPT ![t] = x]
          /\ row' = [row EXCEPT ![t] = UpdatedRow(t, x)]
          /\ outcome' = IF row[t] = NoRow \/ ~Kept(t, x)
                        THEN [outcome EXCEPT ![t] = Waived(t)] ELSE outcome
          /\ paused' = IF row[t] = NoRow /\ row'[t].paused THEN paused \cup {t} ELSE paused
          /\ IF NewSchedule(t, x)
             THEN /\ entry' = [entry EXCEPT ![t] = Rescheduled(x)]
                  /\ fired' = [fired EXCEPT ![t] = {}]
             ELSE UNCHANGED <<entry, fired>>
    /\ UNCHANGED <<now, env, writes, bootVars, known, calls, gate, reload, watch>>

\* RecomputeJitter hands the scheduler the new task set.
SwapTasks ==
    /\ reload.step = "update" /\ Changed = {}
    /\ reload' = [reload EXCEPT !.step = IF reload.whole THEN "prune" ELSE "idle"]
    /\ known' = reload.target
    /\ UNCHANGED <<now, env, row, writes, bootVars, live, entry, paused, fired, calls, gate,
                   watch, outcome>>

\* prunePausesLocked.
PrunePaused ==
    LET gone == {t \in paused : ~Pausable(reload.target[t])} IN
    /\ paused' = paused \ gone
    /\ row' = [t \in Tasks |-> IF t \in gone THEN Resumed(row[t]) ELSE row[t]]
    /\ outcome' = [t \in Tasks |-> IF t \in gone THEN Waived(t) ELSE outcome[t]]

\* PrunePauses, and syncCronWatcher: the old watcher is cancelled, but an answer
\* it is waiting to hand over still gets through.
PrunePauses ==
    /\ reload.step = "prune"
    /\ watch.waiting = {} \/ watch.stray = {}
    /\ PrunePaused
    /\ reload' = [reload EXCEPT !.step = "idle"]
    /\ watch' = [last |-> reload.cron, waiting |-> {}, stray |-> watch.waiting \cup watch.stray]
    /\ UNCHANGED <<now, env, writes, bootVars, live, known, entry, fired, calls, gate>>

\* cronHoldWatcher.tick up to the call of refresh, which waits for r.mu.
Probe ==
    /\ phase = "up" /\ watch.waiting = {} /\ cron # watch.last
    /\ \E t \in Tasks : live[t] # Absent /\ live[t].def.foreign
    /\ watch' = [watch EXCEPT !.last = cron, !.waiting = {cron}]
    /\ UNCHANGED <<now, env, row, writes, bootVars, live, sched, calls, gate, reload, outcome>>

\* RefreshCronHolds with an answer the watcher, or a cancelled one, brought.
RefreshCronHolds(answer) ==
    /\ phase = "up" /\ reload.step = "idle"
    /\ \/ answer \in watch.waiting /\ watch' = [watch EXCEPT !.waiting = {}]
       \/ answer \in watch.stray /\ watch' = [watch EXCEPT !.stray = {}]
    /\ reload' = IF WithCronHold(answer) = live THEN reload
                 ELSE [step |-> "update", target |-> WithCronHold(answer), whole |-> FALSE,
                       cron |-> answer]
    /\ UNCHANGED <<now, env, row, writes, bootVars, live, sched, calls, gate, outcome>>

-----------------------------------------------------------------------------
(* The end of the daemon *)

Idle == [step |-> "idle", target |-> [t \in Tasks |-> Absent], whole |-> FALSE, cron |-> FALSE]
NoWatcher == [last |-> FALSE, waiting |-> {}, stray |-> {}]

\* What a process takes with it. The definitions in force stay visible in live,
\* for Arisen.
Gone ==
    /\ OutrunEnds \/ \A t \in Tasks : ~Outrun(t)
    /\ phase' = "down"
    /\ calls' = {}
    /\ gate' = [t \in Tasks |-> Never]
    /\ entry' = [t \in Tasks |-> NoCron]
    /\ fired' = [t \in Tasks |-> {}]
    /\ paused' = {}
    /\ known' = [t \in Tasks |-> Absent]
    /\ writes' = <<>>
    /\ todo' = {}
    /\ anchor' = [t \in Tasks |-> Never]
    /\ asOf' = 0
    /\ reload' = Idle
    /\ watch' = NoWatcher
    /\ UNCHANGED <<now, env, row, boots, live, outcome>>

\* gracefulShutdown: cron.Stop waits for its callbacks, the gate drops what it
\* holds, and the persistence worker drains.
Stop ==
    /\ phase = "up" /\ reload.step = "idle"
    /\ calls = {} /\ writes = <<>>
    /\ Gone

Crash ==
    /\ phase # "down"
    /\ Gone

-----------------------------------------------------------------------------
(* The specification *)

Init ==
    /\ now = 0
    /\ cron \in BOOLEAN /\ flips = 0
    /\ file \in [Tasks -> Offered]
    /\ edits = 0
    /\ row = [t \in Tasks |-> NoRow]
    /\ boots = 0
    /\ writes = <<>> /\ phase = "down" /\ todo = {}
    /\ live = [t \in Tasks |-> Absent]
    /\ known = live /\ entry = [t \in Tasks |-> NoCron] /\ paused = {}
    /\ fired = [t \in Tasks |-> {}]
    /\ calls = {} /\ gate = [t \in Tasks |-> Never]
    /\ anchor = gate /\ asOf = 0
    /\ reload = Idle /\ watch = NoWatcher
    /\ outcome = [t \in Tasks |-> [k \in Time |-> "none"]]

BootStep ==
    \/ Load \/ StartScheduler \/ StartCatchUp \/ FinishBoot
    \/ \E t \in Tasks : RunStartupTask(t) \/ CatchUpTask(t)

ReloadStep == Remove \/ SwapTasks \/ PrunePauses \/ \E t \in Tasks : Update(t)

Next ==
    \/ Tick \/ CronFlips \/ WriteRow
    \/ \E t \in Tasks : Edit(t) \/ Fire(t) \/ Release(t) \/ ManualRun(t) \/ Pause(t) \/ Resume(t)
    \/ BootStep
    \/ Reload \/ ReloadStep \/ Probe
    \/ \E answer \in BOOLEAN : RefreshCronHolds(answer)
    \/ Stop \/ Crash

Spec == Init /\ [][Next]_vars

-----------------------------------------------------------------------------
(* Properties *)

Defined == Defs \cup {Absent}
Specs == Scheds \cup {NoCron}
RunRows == [task : Tasks, at : Time, ticks : SUBSET Time, as : {"ran", "skipped", "missed"}]

\* Every variable keeps its shape; since never passes the present.
TypeOK ==
    /\ now \in Time
    /\ cron \in BOOLEAN /\ flips \in 0 .. MaxFlips
    /\ file \in [Tasks -> Defined] /\ edits \in 0 .. MaxEdits
    /\ row \in [Tasks -> [since : Never .. now, paused : BOOLEAN]]
    /\ writes \in Seq(RunRows)
    /\ phase \in {"down", "loaded", "startup", "catchup", "up"}
    /\ boots \in 0 .. MaxBoots /\ todo \subseteq Tasks
    /\ live \in [Tasks -> Live] /\ known \in [Tasks -> Live]
    /\ entry \in [Tasks -> Specs] /\ paused \subseteq Tasks
    /\ fired \in [Tasks -> SUBSET Time] /\ calls \subseteq Tasks
    /\ gate \in [Tasks -> Time \cup {Never}]
    /\ anchor \in [Tasks -> Time \cup {Never}] /\ asOf \in Time
    /\ reload \in [step : {"idle", "remove", "update", "prune"}, target : [Tasks -> Live],
                    whole : BOOLEAN, cron : BOOLEAN]
    /\ watch \in [last : BOOLEAN, waiting : SUBSET BOOLEAN, stray : SUBSET BOOLEAN]
    /\ outcome \in [Tasks -> [Time -> {"none", "due", "waived", "ran", "skipped", "missed"}]]

Ledger == INSTANCE TickLedger WITH Tasks <- Tasks, MaxTime <- MaxTime,
                                   now <- now, outcome <- outcome

\* Whatever the order of ticks, reloads, pauses, restarts and catch-ups, a tick
\* is recorded at most once, only if it was RunWisp's to fire, and a report of
\* missed ticks leaves no older tick of its task open.
TicksSettledOnce == Ledger!Spec

Open(t, k) == outcome[t][k] = "due"
Covered(t, k) == row[t] # NoRow /\ (row[t].paused \/ k > row[t].since)
Underway(t, k) ==
    \/ k \in InWrites(t) \cup Unreported(t)
    \/ gate[t] = k
    \/ t \in calls /\ k = now

\* A tick nothing is recorded of is still on its way to a record, or the next
\* boot's catch-up looks back far enough to report it (manager.go: "the missed
\* tick falls to catch-up on the next boot").
NoTickForgotten == \A t \in Tasks, k \in Time : Open(t, k) => Covered(t, k) \/ Underway(t, k)

AtRest == Running /\ reload.step = "idle"

\* Between reloads the scheduler holds back exactly the tasks whose row says
\* paused, so a restart changes nothing about it.
PausedMatchesRow == AtRest => \A t \in Tasks : t \in paused <=> row[t].paused

\* Between reloads no pause outlives the config that allowed it, and every cron
\* entry is the live definition's: none for a task cron holds.
ScheduleMatchesConfig == AtRest =>
    \A t \in Tasks : /\ entry[t] = Rescheduled(live[t])
                     /\ t \in paused => Pausable(known[t])

\* When nothing is under way, no tick stays open: each is recorded or given up,
\* or its schedule is paused. In particular the catch-up of the last boot has
\* reported whatever the processes before left open.
QuietMeansAnswered ==
    AtRest /\ phase = "up" /\ writes = <<>> /\ calls = {} =>
        \A t \in Tasks, k \in Time : Open(t, k) /\ gate[t] # k => row[t].paused
=============================================================================
