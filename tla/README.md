# TLA+ models of RunWisp

RunWisp is one Go daemon (`src/apps/runwisp`) that runs scheduled jobs and
supervised services, keeps their state in SQLite and serves a terminal UI, a web
UI, an HTTP API and an optional remote control plane ("station"). Its core is
`internal/runtime`: a task manager whose mutex, condition variables, contexts,
goroutines and timers decide which process runs when, and a persistence
coordinator that decides what a crash leaves behind. That core, and the chains that
begin or end in it (the cron scheduler, the notifications, the output of a run on its
way to a client, the link to a station), is what these modules model.

## 1. The system

| Component (under `internal/` unless noted) | State | Operations | Hard behaviour | Correct when |
|---|---|---|---|---|
| Run manager: `runtime/manager.go`, `manager_run.go`, `taskstate.go`, `retry.go`, `manager_shutdown.go` | per task: definition, active runs, queue, drain goroutine; `removedTasks`; `isShutdown` | trigger, drain, retire, retry, reload, remove, stop, terminate, shutdown | a goroutine on `cond.Wait`, retry goroutines, reloads at any time, a flag set without the lock | no run lost, none overtaken, limits kept, no lost wake-up, shutdown reaches all and ends |
| Persistence: `runtime/persistence.go`, `manager_recovery.go`, `cmd/runwisp/daemon_services.go` | bounded channel, worker, runs table | enqueue, flush, apply, shutdown, boot recovery | writes behind a channel, crash between two of them | one process per run, rows move forward only, events after rows |
| Service supervisor: `runtime/services`, `manager_service.go`, `retry.go` | slots: live, FATAL, exited, streak; stop flags | start, stop, restart, recycle, reload, remove, respawn after exit | decisions taken under one lock section and acted on in another | one run per slot, no slot forgotten, FATAL exactly when the budget is spent |
| Jitter gate: `runtime/jitter_gate.go`, `runtime/jitter` | held fires (EDF), in-flight runs, breach timers | submit, advance, breach, complete, shutdown | timers that lost their `Stop`, pulled-forward fires of one tick | no fire later than its slot, no idle hold, none after shutdown |
| Scheduler and catch-up: `runtime/scheduler.go`, `catchup.go`, `runonstart.go` | armed entries, pauses, last fire | arm, fire, pause, resume, replay | clock jumps, reload of an armed entry | each tick fired or recorded once |
| Reconciler, cron hold: `runtime/reconcile.go`, `cronhold.go` | current config, held sources | apply a diff, hold, release | a reload as many separate manager calls; service/task kind flips | the manager converges to the new config |
| Health watcher: `runtime/health` | failures in a row | probe, recycle | verdict against a run that is exiting | only the probed run is recycled |
| Executor: `executor/` | process, stop signal, force kill | start, stop, grace period, kill | the deadline against the process's own exit | a stopped process is killed once, and not after its pid is reused |
| Retention, soft delete: `runtime/retention.go`, `softdelete_purger.go` | marks in the table | delete, undo, purge | undo against purge | an undone row keeps its log |
| Notifications: `notify/` | coalescing windows, retry queue | batch, send, retry, drain | events on a window's boundary | none lost silently, none sent twice |
| Logs, event bus, HTTP streams: `executor/log_writer.go`, `events/`, `server/` | files, subscriber channels | rotate, follow, replay | hand-over from replay to follow | no gap, no duplicate |
| Station link: `station/` | websocket session, dispatches | apply, control, dispatch | reconnect | as the manager's operations |
| Storage, config, cron expressions, importers, autostart, updates, UIs | – | – | sequential or operating-system I/O | – |

**Interaction.** Every source of work (cron, API, station, boot) calls the
manager. The manager starts run goroutines, which call the persistence
coordinator (`PersistExisting`, `Flush`) before and after the executor and then
publish events on the bus. Only `m.mu` orders manager calls; only the channel
orders writes; nothing orders two calls of one caller against other callers.

Sections 7 and 8 say which rows of the table are not modelled.

## 2. Modules

| Module | Role |
|---|---|
| `TaskRuns` | the manager for cron and on-demand tasks |
| `MCTaskRuns`, `TaskRuns.cfg` | its instance for TLC |
| `TaskRunsStop`, `MCTaskRunsStop`, `TaskRunsStop.cfg` | `TaskRuns` with one history variable, for what a comment says of stops |
| `TaskRuns_proofs` | its theorems |
| `RunRecord` | abstract: what the row of one run promises |
| `RunPersistence`, `RunPersistence.cfg`, `RunPersistenceFail.cfg` | the coordinator, crashes and recovery; implements `RunRecord` for each run |
| `RunPersistence_proofs` | its theorems, the refinement among them |
| `ServiceSupervisor`, `MCServiceSupervisor`, `ServiceSupervisor.cfg` | one supervised service and the operators around it |
| `ServiceSupervisor_proofs` | its theorems |
| `JitterGate`, `MCJitterGate`, `JitterGate.cfg` | the gate in front of jittered cron fires, between scheduler and manager |
| `JitterGate_proofs` | its theorems |
| `TickLedger` | abstract: what is recorded of each tick of a schedule |
| `CronSchedule`, `MCCronSchedule`, `CronSchedule.cfg`, `CronGate.cfg` | scheduler, catch-up, reload and cron hold; implements `TickLedger` |
| `CronSchedule_proofs` | its theorems, the refinement among them |
| `Notify`, `MCNotify`, `Notify.cfg` | from a run event to the deliveries of one channel |
| `Notify_proofs` | its theorems |
| `LogStream`, `MCLogStream`, `LogStream.cfg`, `LogStreamLost.cfg` | a run's output, from the log writer to a client that follows it |
| `LogStream_proofs` | its theorems |
| `StationLink`, `MCStationLink`, `StationLink.cfg` | dispatches of a station, the reports back to it and the archive of logs |
| `StationLink_proofs` | its theorems |

`PROJECT.json` maps every definition to the lines it stands for.

### TaskRuns

One action is one critical section of `m.mu`. The exception is the drain
goroutine: `queueProcessLoop` keeps the lock from one `cond.Wait` to the next, so
`loop[t] = "holding"` blocks every other action that takes the lock, and the steps
in between stay separate because `BeginShutdown` sets `isShutdown` without the lock.

* `place` says where a `taskState` is: `m.tasks`, `m.removedTasks` (runs still
  draining) or nowhere. A removed state whose drain goroutine has not yet seen it
  keeps `loop` at `"ready"` until that goroutine leaves.
* `UpsertTask` is `UpsertTask` and `MutateTask` (same body on a live task); the
  revival of a draining task keeps its active list, as in the code.
* `Retire` is `retireRun`, `reapRetiredTaskState` and `scheduleFollowup`. What the
  dead goroutine had captured returns to initial values, which keeps the state space
  small and changes nothing that can be read again.
* The executor is the set of answers it can give. Whether an end reason can be retried
  (`FailedExecutionReasons`) is all the manager reads of it, so there are two:
  `"failed"` and `"exited"`. A failure before a process exists is `"failed"`
  whatever the context says. Log retention, warnings and metrics are left out.
* The force kill at the shutdown deadline only makes the executor answer sooner;
  fairness on `Exit` stands for it.
* `shouldReRun` also looks whether a reason counts as a failure (`IsFailureReason`), which the
  answers above do not tell apart; no property depends on it.

### RunPersistence and RunRecord

`ch` and `busy` are the channel and the write the worker holds; `life[r]` is the
program counter of the run's goroutine between its writes. Which run starts is not
its question: runs are queued, started, refused and orphaned freely, which covers
`recordPhantomRun` (a refused run) too. A crash forgets all but `row` and `launches`.
Boot is two steps as in `initDaemonServices`: `MarkCrashedRuns`, then
`ResumePendingRuns`, with crashes in between. `WriteFailures` lets the persistence
hook log and drop a failed write.

`RunRecord` says what the database promises about one run: nothing, `pending`,
`running`, `ended`, forward only, and at most one process, started only while the row
says `running`. `RowsAreRecords` instantiates it for each run, the row and the
number of launches being the refinement mapping.

### ServiceSupervisor

Actions are critical sections of the same lock; `caller[k]` and `stage[r]` are
the program counters of those who act on a decision later: `StartServiceInstances`
(`asked`, then `filling` its list of missing slots), a reload (`reloaded`, about to
recycle) and the restart goroutine of an instance that exited (`waiting`, `checked`).
Whether a run proved healthy is chosen freely on retirement; restart delays are
timers that may fire at any time, which covers every backoff.

### JitterGate

`Submit` is the end of `fireOnce` (the clamp to the gap before the next tick) with
`submit` and `swapSlot`; `Release` is one round of the loop in `advance`, which keeps the
gate's lock (`lock = "advancing"`) while the manager goes on under its own. A held fire
has a timer armed until `wake`; once it has gone off, `calls` counts the callback that
waits for the lock, and `Stop` no longer reaches it. The callback has a task name, as in
the code, and `Breach` looks the fire up. `pending` is a set; its order is `Earliest`.

The manager appears as what the gate can see: a trigger is refused (for any of its
reasons) or makes a run, and a run ends under the manager's lock (`End`: it finished, or a
reload dropped it from a queue) before `OnComplete` tells the gate. The offset of a fire is any
number in the task's window, so `jitter.Place` and its recomputation are covered.
Schedules are `schedule.Next` as a function. A reload that changes the schedule itself
between two ticks is left out.

Time is discrete, and its unit is the one second `fireOnce` keeps between a slot and the
next tick. Timers and cron callbacks are prompt: `Tick` waits for them. That is the
reading under which "deadline" means anything; a callback that waited for more than that
second could meet the next fire of its task.

The gate looks at `pending` on a submission and when the last counted run completes,
not when a long run outgrows a waiter's window. So a fire can wait for its slot although
the gate is already free for it; no property claims otherwise.

### CronSchedule and TickLedger

One cron task (the constants allow more) with the entry, pause and `firedTicks` of the
scheduler, its `task_registrations` row, the boot steps of `startStandaloneScheduling`
(anchors, `Start`, startup runs, catch-up), reloads as the sequence of steps the
reconciler makes, and the watcher that asks whether a system cron daemon is live. `writes`
are the rows on their way to the database: a run that was triggered is not yet
recorded, and a crash loses it. `gate` is the fire held by the jitter gate, whose own
behaviour is `JitterGate`'s.

`TickLedger` promises of each tick of a schedule that it becomes due (or is waived:
paused, held by cron, a changed schedule, an hour that repeats) and is recorded at most
once, as `ran`, `skipped` or `missed`, a report of missed ticks leaving no older one open.
`TicksSettledOnce` instantiates it with `outcome`, the history variable the triggers write.

The clock waits for cron callbacks and for a reload, and does not move
between anchors and `Start`. An edit of the file or a flip of the cron daemon happens
while the daemon is up or down, not in the middle of a boot, where nobody would
notice it earlier. A manual run does not share an instant with another run. `MCWall`
lets time 1 come back as 3, the hour that is repeated in autumn; `@every` specs are
exempt from the de-duplication, as in the code. Left out: changing the time zone in place,
`run_on_start = "boot"` with its boot ids, resumed pending runs.

`OutrunEnds` says whether the daemon may end while the row is already ahead of a tick that is
still to be recorded (`Outrun`). With it the code loses the tick, which is the
run `cron_gate_outrun`; without it every other property is checked.

### Notify

`Publish` copies the handlers of the bus, and each is called in a step of its own. A service
takes an event through `ingress`, the dispatcher, the queue of the channel, and
`coalesce.Channel.Execute` to deliveries that are retried. Its timers are `armed`, then `fired`:
a callback that waits for the mutex, which `Stop` no longer reaches, and which knows a
fingerprint and not a group. A reload builds the next service, subscribes it, and
detaches and drains the old one; shutdown has a deadline.

One fingerprint and the built-in failure route, so a success only closes the group. `answered` is
delivered or reported in-app. Steps of one goroutine that share no state with others are merged
(take and decide, dispatch and enqueue, `closeQueues` with the dispatcher's exit). The bus
subscribes and unsubscribes a service type by type; the model does it in one step. A full queue
evicts its oldest entry also where a worker has just made room, which `SendDropOldest` can do
between its two selects; at a queue of more than one place the model allows this of a queue that
was never full, too. A count is the set of events counted. Left out: the in-app coalescer and
its rows, a reload that leaves no service at all, recoveries, retention, rendering, the protocols of
the channels.

### LogStream

A line is the number the writer gave it, a file a sequence of such numbers, a size a number of lines.
`Write`, `StopCapture`, `Rotate`, `CreateSegment`, `SegmentFails` and `Rewrite` are the writer's
steps under its lock; a rotation is `Rotate` (the rename), the new segment and the sidecar's new record,
and any of them may fail, be the last before a crash, or have a reader in between. `Publish` comes
after the lock and once per stream, which is what lets streams overtake each other; the remark on
a line that matched a pattern (`Remark`) takes a number and is never published. The reader is
`ReadLineRange` over both segments: it loads the sidecar (`LoadSidecar`) and then looks at
the files, without a lock. A connection goes through `phase`; `Open` is the handler's look at the row,
`Subscribe` comes after it, the backfill is read after that, and once more when the replay
budget moved its beginning. The client is `followRunLog`: it moves its cursor and opens a lost
connection again.

`seen` has each line beside the number it was sent under, so `NumbersAreStable` compares
the two. `stale` says that the sidecar is not about the files: from the rename until
its new record is out, and for good when that fails or a crash comes first. A reader that loaded such
a sidecar, or was overtaken by a rotation after loading, is `torn`, and its client `misled`; the
properties about numbers and gaps name this exception, which the code does not exclude.
`NoSilentGap` has a reason for every line of output a client passed without seeing it:
it was rotated away or older than the client asked for (`floor`), a notice said so
(`told`), will say so (`dropped`) or was cut off (`unsaid`), or a line of the other stream
overtook it (`overtaken`). `NoLineLost` is the same without the last reason.

The two segments of one read are opened in one step. A rotation between them could only tear a
read that counts as torn anyway: its sidecar was loaded before. A new segment that cannot be created leaves
no main file, and a reader then finds nothing (`missing`). `Close` may fail to write its metadata.
Left out: the text of the notices the writer puts into the log (their numbers are modelled), frames and
regions, index offsets. The handler of the bus is atomic; a row exists before the first request.

### StationLink

`Connect` to `Detach` are the steps of a session, `Dispatch` to `Refuse` those of
the dispatch handler on the session's read loop, `Create` to `Attach` those of the run, the
bridge that hears its events and the archive; `RecoverOne` is `RecoverOrphans` at boot.
A dispatch claims the execution (`reserved`), looks for an earlier run, writes a record for the
archive and triggers. `late` is a report whose send failed and which is not in the buffer yet.
The queue of a session holds reports only; the other traffic is why a send may fail
at any time. The station asks whenever it likes and does not let a late "running"
undo an end it was told. `excused` marks the six ways in which the code loses the report of an end:
the cap of the buffer, a session that ended with its queue, a restart, an end announced while the
bridge was not subscribed, a log that is gone, and a recovered upload whose row cannot be read again for
the report (`ReportRecovered`). A look-up of an earlier run may fail, which the handler takes for "no run";
`misread` counts those that overlooked a row.

Left out: service apply, control and remove (the override is in `ServiceSupervisor`), log replay,
search and listening, heartbeat and watchdog, task sync, chunked streams, a panic of the handler
that is recovered after it made its claim.

## 3. Runs

| Run | Question | Instance | Result |
|---|---|---|---|
| `task_runs` | triggers, queue, kills, retries, reloads, removal, stops, shutdown; waiting runs leave the queue, shutdown ends | 1 task, 3 runs, 4 definitions over all policies, limits 1–2, queues 1–2 | holds, about 150 000 states |
| `task_stop_final` | are stopped runs never re-run automatically? | 1 task, 2 runs | violated, finding |
| `run_persistence` | rows refine `RunRecord`; event after row; recovery; clean shutdown; every run announced | 2 runs, channel of 2, 2 boots | holds, about 23 000 states |
| `run_write_failure` | is there one process per run when writes may fail? | 1 run | violated, finding |
| `service_supervisor` | slots, FATAL and exit flags; nothing forgotten; the service comes up | 2 slots, 3 instances ever, 2 definitions, 1 caller | holds, about 510 000 states |
| `jitter_gate` | slots as deadlines, stray callbacks, idling, what is counted, shutdown | 3 tasks, ticks at 1/4/5, 1/5 and 2, 5 time units, 3 runs | holds, about 990 000 states |
| `cron_schedule` | is each tick settled once and none forgotten; do pauses, entries, row and config agree | 1 task, 3 definitions, 2 specs, 3 instants, 2 boots, 1 edit, 1 flip of cron | holds, about 2 400 000 states |
| `cron_gate_outrun` | is a tick that was in the gate reported by the next boot? | 1 jittered task | violated, finding |
| `notify` | one fate per failure, a timer per suppressed one, what a reload can lose, no stuck stop | 2 services, 4 events, queue of 1, a window of 1 | holds, about 4 760 000 states |
| `log_stream` | numbers, gaps, end of a followed log | 2 streams, 3 lines, segments of 1, buffer of 1, 2 connections | holds, about 1 580 000 states |
| `log_stream_lost` | does a client that follows a run get every line? | 2 streams, 2 lines, 1 connection | violated, finding |
| `station_link` | how often an execution is started, owned claims, no end forgotten | 1 execution, asked for twice, 2 sessions, 1 restart, buffer of 2 | holds, about 5 730 000 states |

**Why the bounds are enough.** Three runs of a task are the least with which one is
active, one waits and a fresh trigger meets both (`Fifo`), or one is being killed, one
counts and one arrives (`KillsNoMore`). The manager has no operation that relates two
tasks but the shutdown pass, and the theorems hold for any number of tasks and runs.
Two rows with a channel of two places let writes of two runs interleave and
fill the channel; two boots give a recovery from every crash state and, on
the second, a crash during it. Two slots, a definition that shrinks to one and three
instances let a slot be respawned while a starter still holds an old list.
In `JitterGate.cfg` two tasks share a tick and a third fires into their backlog, one gap is
a single unit, and three runs let one be in flight, one take over its slot and one
breach. `MaxRuns`, `MaxBoots`, `MaxTime` and the set `Callers` are the only bounds on
behaviour; they are guards of the actions that create or advance, so they cut off
behaviours and add none.

In `CronSchedule.cfg` the three definitions differ in schedule, ownership, autostart, jitter,
startup run and catch-up, so that one edit reaches every pair of them; three instants hold a tick,
its repeat and one of the other spec; the second boot catches up on the first. In `Notify.cfg` four
events fill ingress, queue and a group over its limit, and two more come after the reload. In
`LogStream.cfg` three lines in segments of one are two rotations, so that the older segment is
replaced and its start is no longer zero; their notices take the log beyond a replay budget of
three, and the second connection meets a resumed cursor. It starts from the policy `drop_old`: the
other two never rotate and stop where `StopCapture` may stop at any time, so that their behaviours
are among its own. In `StationLink.cfg` the second dispatch comes before the run's row is written,
during the run, after its end or after the restart; two places in the buffer are the least with
which an old report is pushed out. Executions meet only in the two queues, and the theorems about
claims, starts and reports hold for any number of them; two in one run exceed ten million states.

In `ServiceSupervisor.cfg` `Overrides = {1}`: station overrides may lower the
instance count only. See section 5 for what raising it does; everything else is checked
without it.

**Fairness.** `sync.Mutex` is starvation free, so a goroutine that is ready to take
`m.mu` gets it: weak fairness for the drain goroutine once it holds the lock, strong
fairness where the lock comes and goes (`LoopLock`, `Retire`, `CancelPass`). A process
ends at the latest when its context is cancelled (stop signal, grace period, kill), so
`Exit` is fair for cancelled or timed-out runs only. `Expire` is fair: `QueueServed`
is about tasks with a `timeout`; without one a job may hold its slot for ever and the
queue behind it rightly waits. Shutdown does not depend on it, since it cancels. No
fairness is given to operators, triggers, reloads, retries (a retry that never fires is
ended by shutdown), crashes or shutdown. In `RunPersistence` the worker and goroutines past the process are
fair; nobody is obliged to trigger, crash or shut down. In `ServiceSupervisor`
callers in the middle of an operation and the goroutines after a run's exit are fair;
processes need never exit. In `LogStream` the handler's goroutine and the client that opens a
connection are fair; nobody has to write a line, and connections may be cut at any time.
`CronSchedule`, `Notify` and `StationLink` state safety only; `StopNeverStuck` says with
`ENABLED` that a service being stopped has a step of its own to take.

## 4. Properties

`TaskRuns`: `NoStrandedQueue` and `NoLostWakeup` (the re-arm after a reload off the
queue policy and back, and every signal the drain goroutine relies on), `Fifo`,
`RunsAccounted` (a run is in exactly the list its stage says, of its own task),
`ShutdownCancelsAll` (no run slips in behind the cancel pass although `isShutdown` is
set without the lock), `StartWithinLimit` and `KillsNoMore`
(action properties), `QueueServed` and `ShutdownCompletes` (liveness).

`RunPersistence`: `RowsAreRecords` (refinement), `EventAfterRow`, `NoPhantomRow`
(after recovery every unfinished row has an owner), `GracefulLeavesNoneRunning`,
`EventuallyAnnounced`.

`ServiceSupervisor`: `OneRunPerSlot`, `NoSlotForgotten`, `FatalIffExhausted`,
`EventuallyFilled`.

`JitterGate`: `InWindow` (no fire is held past its slot, and its slot stays in its own
window through every exchange), `NoIdleHold`, `InflightLives`, and the action property
`CongestedOnlyWhenDue` (nobody starts beside a younger run early, whichever timer lost
its `Stop`).

`CronSchedule`: `TicksSettledOnce` (refinement), `NoTickForgotten` (a tick nothing is recorded
of is on its way to a record, or the next boot looks back far enough), `PausedMatchesRow` and
`ScheduleMatchesConfig` (memory, row and config agree between reloads),
`QuietMeansAnswered`.

`Notify`: `AccountedOnce` (an accepted failure is in one place or has one fate),
`HeldHasTimer`, `LostOnlyAcrossSwap` (an event that no open service was offered was published
across a reload), `StopNeverStuck`.

`LogStream`: `NumbersAreStable`, `NoSilentGap`, `EventuallyDone` (liveness), and `NoLineLost`, which is
violated.

`StationLink`: `RunOnce` (one start, and one more for each look-up that overlooked a row),
`ReservationOwned`, `NoReportForgotten`.

`TypeOK` of every module is a theorem, and in `CronSchedule`, `LogStream` and `Notify` an invariant of
the run too. `RemovedWhileDraining`,
`ExitedIsDown`, `OneHeldPerTask` and `NothingHeldAfterClose` are theorems only.

Operators named "Broken variant" in the modules are plausible errors of the code; each
makes one property fail under its run, so no property holds vacuously.

## 5. What the code does otherwise than it says

* **A stop is not final** (`task_stop_final`). A comment says that a stop never races
  its own automatic re-run. It cancels contexts of active runs only; a run whose
  outcome was already decided as a failure, and a retry that waits out its delay, go on.
* **A failed write is not noticed** (`run_write_failure`). "The row must be durably
  'running' before the OS process exists": `Flush` waits for the attempt, not for success.
* **A tick can be outrun in the gate** (`cron_gate_outrun`). A comment says that a
  jittered fire dropped at shutdown "falls to catch-up on the next boot". Catch-up looks back to
  `last_run_at`, which any later run of the task has moved past the tick by then.
* **A followed log loses lines** (`log_stream_lost`). A comment says that following goes on "without
  repeating or losing a line" (`log_follow.go:50-52`). Streams publish after the writer's lock: when the
  later line of two is published first, the streamer takes the earlier one for a duplicate and skips it.

Other disagreements, met while modelling and stated as boundaries of the runs above or as
notes of the hazards in `PROJECT.json`:

* A FATAL slot can come back from a stale list of missing slots, and a stopped service can
  spawn: `Reserve` looks at neither flag, although `supervisor.go:329-330` says the supervisor
  refuses.
* A station override above the configured count does not rescale a running service
  (`NoSlotForgotten` fails with `Overrides = {1, 2}`), against `service_handler.go:20-25`.
* A rotation leaves the old sidecar beside the new files until the new record is out, and for good when
  that fails (a warning only) or the daemon dies first: readers then number lines wrongly, although
  `log_meta.go:8-10` speaks of "continuous, globally-correct line numbers" and `log_index.go:168-170` of
  segments that line up "by construction". `NumbersAreStable` and `NoSilentGap` exclude clients so
  `misled`, and nothing else. A notice of drops that is cut off after the line it belongs to is not repeated.
* A station's look-up that fails, for its session ends or the database has an error, counts as "no run":
  the execution is started once more, against `inbound_handler.go:110-114` ("re-ack without starting a
  second run"). `RunOnce` allows one start for each look-up that overlooked a row, and fails without that.
* After a recovered upload the callback reads the row again, and returns silently when that fails
  (`client.go:212-215`); the record is forgotten by then and the log removed, so the end is never
  reported, against the comment at `client.go:203-206` ("the resulting terminal `execution:update`
  is queued for delivery").
* A report that fails while a reconnect flushes is buffered behind the flush and waits for the
  next reconnect; `flushPendingUpdates` runs before the write loop, so only the capacity of the
  queue fits; the re-queue of the rest ignores the cap; a flushed "running" can follow the end; the
  bridge subscribes after the archive's recovery and misses the end of a run resumed before;
  graceful shutdown detaches the bridge before runs are stopped.
* An answer of a cancelled cron-hold watcher can be applied after the reload that
  replaced it and stays until cron flips again.
* A publisher with a copy of the old handlers is refused by a service that has been replaced, and the
  next one never gets its event, against `daemon_notify.go:62-63` ("none is dropped").
  `LostOnlyAcrossSwap` says that nothing else is lost at a reload, and fails without this exception.
* A drifted window and a full queue drop a suppressed count, although the package comment of `coalesce`
  promises the summary; `AccountedOnce` counts this as an end of its own. A late timer callback ends a newer
  group early.
* After a restart within a repeated hour a repeated tick runs again: `firedTicks` is memory.

## 6. Theorems

`TaskRuns_proofs` proves the safety properties of `TaskRuns` for any tasks, definitions and `MaxRuns`,
from `TaskRunsAssumption` alone:

| Theorem | Establishes |
|---|---|
| `TypeCorrect` | `[]TypeOK` |
| `QueueNeverStranded` | `[]NoStrandedQueue` |
| `WakeupNeverLost` | `[]NoLostWakeup` |
| `StartsInOrder` | `[]Fifo` |
| `NoRunLost` | `[]RunsAccounted` |
| `ShutdownReachesAll` | `[]ShutdownCancelsAll` |
| `RemovedTasksReachable` | `[]RemovedWhileDraining` |
| `LimitKept` | `StartWithinLimit` (action property) |
| `NoNeedlessKill` | `KillsNoMore` (action property) |
| `ShutdownNeverStuck` | `[]ShutdownGoesOn`, the safety half of `ShutdownCompletes` |

The argument has four inductive layers.
(1) `TypeOK`. (2) `Wake`: `NoStrandedQueue` and `NoLostWakeup` are not inductive, because
a drain goroutine could be missing exactly when a run is queued; `LoopArmed` adds that a
registered queue-policy task has one until shutdown. (3) `Lists`: `Fifo` needs that the
runs in the lists were created (`Known`: a fresh run has the highest number) and
`RunsAccounted` that each is in the list of its stage; both are moved through the
actions as sets by the operator `Held`, so that removing the middle of an active list or
clearing a queue is one lemma about sequences. (4) `Reach`: `ShutdownCancelsAll` and
`RemovedWhileDraining` together, on top of (1) and (3). One step per action, one
substep per conjunct it can disturb.

The two action properties count. `cancelExcessRuns` kills the lowest `Needed` live runs, and that
these are exactly so many (`LowestCount`) is an induction on a number, which the provers do not do:
the proof takes the least wrong number and shows that the one below it is wrong too (`Least`, from
the library's theorem on well-founded relations). `LiveAppend` says that cancelling the runs at
some places of a list loses exactly those places, because no run is in it twice (`Fifo`);
`LatchedCreated`, that a policy has cancelled created runs only, so the new run is live.

`ShutdownGoesOn` says that after the cancel pass of a shutdown every goroutine `wg.Wait` counts can go
on, or waits for the manager lock, whose holder can (`LoopMay`, `RunMay`: the guards of their actions).
It follows from `Wake`, `Lists` and `Reach`: an active run is in its task's list, so the pass cancelled
it; a run that ended is in the list it has to leave; and no drain goroutine sleeps any more.

`ServiceSupervisor_proofs` proves, from the module's assumptions on its constants:

| Theorem | Establishes |
|---|---|
| `TypeCorrect` | `[]TypeOK` |
| `NoDoubleInstance` | `[]OneRunPerSlot` |
| `ExitedSlotsAreDown` | `[]ExitedIsDown` |
| `FatalExactlyWhenExhausted` | `[]FatalIffExhausted` |
| `NoSlotLeftBehind` | `[]NoSlotForgotten`, if `Overrides \subseteq {1}` |

`OneRunPerSlot` pairs live slots with active runs one to one. It is inductive only
with two more facts, in `Occupancy`: runs above `created` are new, and a service that
is not registered has no active run. Adding a pair, removing one and leaving both
sides alone are the three lemmas on `Paired`. `ExitedIsDown` and `FatalIffExhausted`
are inductive together, as `Flags`: both follow from the way an exit and a spawn treat
the per-slot flags in one critical section. `NoSlotForgotten` is inductive
given the types and the numbering of runs; the proof takes one slot (`Served`) and shows
for each action that either the slot is filled, or is meant to be empty, or someone
still on the way (a starter, a restart goroutine, a reload) will come to it. Its
assumption is the boundary of the finding on overrides: raise the count and nobody comes.

`JitterGate_proofs` proves all properties of `JitterGate`, for any tasks, schedules,
windows and offsets, from `JitterGateAssumption`: `TypeCorrect`, `SlotsAreDeadlines`
(`[]InWindow`), `HeldFiresAreNamed` (`[]OneHeldPerTask`), `NeverIdleWhileHolding`
(`[]NoIdleHold`), `OnlyLiveRunsCounted` (`[]InflightLives`), `ClosedGateEmpty`
(`[]NothingHeldAfterClose`) and `EarlyStartsAreAlone` (`CongestedOnlyWhenDue`). The
invariant is `Counts` (what is counted, held and closed) and `Punctual`: every held fire
lies between its tick and its slot, its slot and window before the next tick of its
task, its timer is either armed for that slot or has a callback waiting; no callback
waits while a later fire of its task is held; and a task whose tick has come has neither.
The last two are what makes the first inductive: `TickAfterSlot` shows that time cannot
reach the next tick while a fire is held.

`RunPersistence_proofs` proves `TypeCorrect`, and, if `WriteFailures = FALSE`: `NoPhantoms`
(`[]NoPhantomRow`), `GracefulShutdown` (`[]GracefulLeavesNoneRunning`), `OneProcess`
(`[]NoSecondProcess`), `RowBeforeEvent` (`EventAfterRow`) and `Refinement`
(`RowsAreRecords`: the coordinator implements `RunRecord` for each run). The assumption is the
boundary of the finding on failed writes. What the worker holds and the channel are taken as one
queue of writes, `Pipe`. The invariant `IInv` says of each run which kinds of write may be
in the pipe at its stage (`Writing`), what its row is then (`Rows`), what the memory may
claim (`Memory`) and when a process was started (`Launched`); `Ordered` says that
writes of one run are in the order of its life. The properties themselves are not inductive,
because they speak of rows only, and a row changes long after the step that caused it.

`RunsAlwaysGoOn` (`[]RunsGoOn`) needs no assumption on writes: while a run is started and not announced
as finished, the run or the worker can go on, and a closing daemon is not stuck in its `wg.Wait`. It rests
on `Awaited`: a run that waits at a barrier has its sentinel in the pipe until the worker's
context is done, whether or not the writes before it succeeded.

`Notify_proofs` proves, for any number of services and events, any queue, window, limit and number
of attempts: `TypeCorrect`; `SuppressedAreTimed` (`[]HeldHasTimer`), inductive with its converse,
that a group which names a timer holds something (`Watched`); `NoGapAtReload`
(`[]LostOnlyAcrossSwap`), with `Listening` (the live service is on the bus until the shutdown) and
`Called` (the service that was live when a publisher copied the handlers is still to be called, has
had the event with its ingress open, or was replaced and closed by then); and `AccountedForOnce` (`[]AccountedOnce`). For the last,
`Entries` says of every event and service in which of five places the event is (`Out`, `Entering`,
`Queued`, `Sent`, `Counted`), without counting, so that appending to a queue, taking its head and
adding or ending a delivery are one lemma each; events are numbered as they are published, so the
next is new (`Numbered`); and `StopsClean` says what is left when a service's goroutines have gone.
Never and once become the counts 0 and 1 only at the end.

`CronSchedule_proofs` proves, for any tasks, definitions, schedules, wall clock and bounds, from
`CronScheduleAssumption`:

| Theorem | Establishes |
|---|---|
| `TypeCorrect` | `[]TypeOK`; `outcome` never becomes "wrong" |
| `PausesAgree` | `[]PausedMatchesRow` |
| `ScheduleAgrees` | `[]ScheduleMatchesConfig` |
| `NoneForgotten` | `[]NoTickForgotten`, if `OutrunEnds = FALSE` |
| `QuietAnswered` | `[]QuietMeansAnswered`, if `OutrunEnds = FALSE` |
| `ImplementsLedger` | `TicksSettledOnce`: it implements `TickLedger`, if `OutrunEnds = FALSE` |

The invariant has five layers. `Shape` is the types, with nothing later than `now`. `Phases` says what
can be under way in which phase of a boot. `Agree` is what `PausedMatchesRow` and
`ScheduleMatchesConfig` become in the middle of a reload, where they do not hold: which of a task's
entry, pause, row and target may differ at which step (`PauseMatches`, `TargetMatches`). `Once` says that
a tick is on at most one way to a record: a run's row, the gate, or a callback; that it came after
the boot loaded its config, and what a report covers came before; this keeps `outcome` from
recording twice. `Owed` says that an open tick is one of a task RunWisp schedules
(`OpenOwned`), that it is on its way, or its task paused, or, while the daemon is down, later than the
row's `since` (`OpenCovered`); and that a report under way covers everything open up to the load
(`ReportsWhole`), which is what `TickLedger` asks of one. The first four layers need no assumption. The
fifth is false without `OutrunEnds = FALSE`, which is the boundary of the finding on outrun ticks:
a daemon that ends while a run has moved the row past a held tick leaves it open and behind the
row. The refinement maps the clock to `Pass`, the row of a run to `Record`, a missed row to
`Report`, whatever gives ticks up to `Waive`, and all else to a stutter.

`LogStream_proofs` proves `NumbersStable` (`[]NumbersAreStable`), `GapsAreTold` (`[]NoSilentGap`) and
`TypeCorrect` from the module's assumptions on its constants alone, for any streams,
sizes, replay budget, policies and number of connections. The invariant `Inv` adds
that segments hold consecutive numbers, the older one up to where the newer begins (`Files`), that a
sidecar which is not `stale` says where both begin and is never without `stale` in the middle of a rotation
(`Index`), that an index which a connection loaded and is not `torn` still fits the files (`Fits`), and that the
backfill in hand is true unless the client was misled (`Faithful`). `ReadFacts` proves of `ReadLineRange` that
with such files and such an index every line is returned under its own number.

`NoSilentGap` needs three layers more, for a client that was not misled (`Layers`). `Basic`: where
numbers occur (lines wait in the order of their stream, nothing printed or read is past the end of
the log) and how the end of a log, of its row and of a connection hang together (`Ends`). `Middle`:
a line that a higher one got past on its way to the bus is in `overtaken` (`InOrder`), and the
backfill in hand is consecutive, starts behind what was printed and no later than the client asked
(`Stages`). `Whole`: once a connection streams, each line the client will be past is accounted for,
still waiting, or in the backfill (`Ways`). That a read leaves nothing between its first and last
line, and that it goes up to its limit or the end of the log (`ReadCovers`, with `BackfillReach` and
`AgainReach` for the two reads of a connection), is what joins the backfill to the live lines.
`Sized`, `Flags` and `Sets` are for the types and bounds in `TypeOK` only.

`EndNeverMissed` (`[]EndIsSeen`): once the end of the run was
announced, the client has its `Done`, has used up its connections, or it or the handler of its connection
can go on. The handler subscribes before it looks at the row, so a streaming one that has not heard of
the end has the event in its channel (`Alerted`).

`StationLink_proofs` proves, for any executions, bounds and capacity: `TypeCorrect`;
`ClaimsOwned` (`[]ReservationOwned`), with `Owned`, which adds that nothing is claimed before the
bridge listens; `StartedOnce` (`[]RunOnce`), with `Once`: a row follows its run (`RowFollows`), an
execution is reserved until its row is written and a dispatch past both checks found nothing of it
or misread (`Guarded`), and its starts so far, those still possible and the one being decided are at
most one more than the look-ups that misread (`Credit`);
and `NothingForgotten` (`[]NoReportForgotten`), which is inductive with
the types and `Flushing` (only a session that flushes has taken reports from the buffer). Its steps
show that whoever takes a report from one place puts it into the next, or names the loss.

`Notify_proofs` also has `StopAlwaysGoesOn`: a service being stopped has an action whose guard
holds. It is `StopNeverStuck` with the guards written out (`MayStop`, `MayRun`, `MayDeliver`) in place
of `ENABLED`. It rests on `OwedByClose`: only `Close` owes a summary, so the summaries of timers, which
it waits for, wait for nobody.

Only model-checked: `StopNeverStuck` in its own words, and all liveness: `ENABLED` and fairness are out
of the prover's reach here. What is proved in their place are the safety halves, with the guards of the
actions written out: that what is to happen has not become impossible, and that somebody can take the next
step towards it. That these steps are taken, and are finitely many, TLC checks under fairness.

| Checked by TLC | Its safety half, proved |
|---|---|
| `StopNeverStuck` | `StopAlwaysGoesOn` |
| `QueueServed` | `WakeupNeverLost`, `QueueNeverStranded` |
| `ShutdownCompletes` | `ShutdownNeverStuck` |
| `EventuallyFilled` | `NoSlotLeftBehind` |
| `EventuallyAnnounced` | `RunsAlwaysGoOn` |
| `EventuallyDone` | `EndNeverMissed` |

## 7. What the models leave out

Services do not appear in `TaskRuns` (other state, no queue); a jittered fire is there an
ordinary trigger. Data (parameters, environment, log contents, exit codes) is reduced to
the distinctions the control makes. Durations are choices. `ServiceSupervisor` leaves
out a reload that turns a service into a task or back, and has one service. The restart
request of an operator can be lost on a run that is just ending by itself under
`restart = on_failure` (`manager_service.go:96`); no property asks for more, since
the slot then reads as exited. `RunPersistence` does not say which task a recovered run
belongs to, and takes SQLite's transactions as atomic.

## 8. Plan

In this order; done parts are marked.

1. `TaskRuns` and its proofs (done).
2. `RunRecord`, `RunPersistence`, their proofs and the refinement (done).
3. `ServiceSupervisor` and its proofs (done).
4. `JitterGate` and its proofs (done).
5. `TickLedger` and `CronSchedule`: scheduler, catch-up, reload and cron hold, with the proofs and
   the refinement (done). Next: a change of the time zone in place.
6. `Notify` and its proofs (done). Next: the in-app coalescer.
7. `LogStream` and its proofs (done).
8. `StationLink` and its proofs (done). Next: service messages, log listening, heartbeat.
9. `Placement` and `Backoff`: `jitter.Place` against max-min spacing over bounded
   windows; `computeBackoff` on wrap-around integers.
10. `RunKiller` and `HealthWatcher`: stop, grace, force kill and recycle against exit.
11. Soft delete against undo.

**Not modelled**, and not planned: storage queries beyond their effect on a row, the parsing and
diffing of the configuration, importers, cutover, autostart, updates, process statistics, the
terminal and web UIs. They are sequential transformations or operating-system I/O, and most of the
repository's lines are theirs. `PROJECT.json` says of each component what is left out and why.

Abstract specifications worth stating: a multi-slot server with FIFO admission (for
`TaskRuns`), `RunRecord` and `TickLedger` (stated), "each event at least
once or counted as dropped" (notifications).
