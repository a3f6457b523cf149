--------------------------- MODULE RunPersistence ---------------------------
(***************************************************************************)
(* How the state of runs becomes durable, and what survives a crash:       *)
(* internal/runtime/persistence.go (a bounded FIFO channel drained by one  *)
(* worker, and Flush, a sentinel that waits for the worker), the order of  *)
(* writes in execute, recordRunOutcome and TriggerRunWithOptions, the end  *)
(* of ShutdownWithDeadline, and the boot that marks crashed runs and       *)
(* resumes pending ones (manager_recovery.go, daemon_services.go).         *)
(* Which run starts when is TaskRuns' matter: here a run is queued,        *)
(* started or refused freely.                                              *)
(***************************************************************************)
EXTENDS Integers, FiniteSets, Sequences

CONSTANTS
    Runs,           \* run ids
    Capacity,       \* persistenceChannelSize
    MaxBoots,       \* bound: how many times the daemon starts
    WriteFailures   \* whether a database write may fail (the hook only logs it)

ASSUME RunPersistenceAssumption ==
    /\ Capacity \in Nat \ {0}
    /\ MaxBoots \in Nat
    /\ WriteFailures \in BOOLEAN

VARIABLES
    row,        \* the runs table: "none", "pending", "running", "ended"
    launches,   \* processes started for a run, over all lives of the daemon
    life,       \* where the run is in this daemon, see Lives
    turned,     \* runs that end without executing (refused, orphaned): not in m.wg
    ch,         \* PersistenceCoordinator.ch
    busy,       \* the write the worker is applying, a sequence of at most one
    inFlight,   \* busy was taken before the coordinator's ctx was cancelled
    daemon,     \* "off", "recovering" (crashed runs marked), "up", "closing"
                \* (isShutdown), "cancelled" (persistence.Shutdown), "down" (worker gone)
    boots       \* how many times the daemon started

vars == <<row, launches, life, turned, ch, busy, inFlight, daemon, boots>>

\* "waiting" in a queue; "started" a run goroutine before its first write;
\* "marked" that write is enqueued; "flushing" waits for the worker; "cleared"
\* Flush returned; "spawned" the process exists; "returned" the executor did;
\* "closed" the terminal write is enqueued; "settling" waits for the worker;
\* "over" the terminal event is published.
Lives == {"none", "waiting", "started", "marked", "flushing", "cleared", "spawned",
          "returned", "closed", "settling", "over"}

Writes == [run : Runs, kind : {"create", "running", "ended", "flush"}]

Init ==
    /\ row = [r \in Runs |-> "none"]
    /\ launches = [r \in Runs |-> 0]
    /\ life = [r \in Runs |-> "none"]
    /\ turned = {}
    /\ ch = <<>>
    /\ busy = <<>>
    /\ inFlight = FALSE
    /\ daemon = "off"
    /\ boots = 0

-----------------------------------------------------------------------------
(* PersistenceCoordinator *)

ctxDone == daemon \in {"cancelled", "down"}
Alive == daemon \in {"up", "closing", "cancelled", "down"}

\* enqueue blocks while the channel is full; once ctx is done, select may as
\* well return without sending, and what is sent to a gone worker is lost.
Enqueue(r, k) ==
    \/ Len(ch) < Capacity /\ ch' = Append(ch, [run |-> r, kind |-> k])
    \/ ctxDone /\ ch' = ch

\* Run r goes on, its next write enqueued.
Advance(r, to) == life' = [life EXCEPT ![r] = to]
UnchangedStore == UNCHANGED <<row, busy, inFlight, daemon, boots>>

\* Flush sends its sentinel, and waits.
\* For the broken variants below: the barrier is left out.
FlushSkipped(r, to, after) ==
    /\ Advance(r, after)
    /\ UNCHANGED ch
Flush(r, to, after) ==
    \/ Enqueue(r, "flush") /\ ch' # ch /\ Advance(r, to)
    \/ ctxDone /\ ch' = ch /\ Advance(r, after)

\* Where run r gets when its Flush returns.
Released(r) == CASE life[r] = "flushing" -> "cleared"
                 [] life[r] = "settling" -> "over"
                 [] OTHER -> life[r]

\* worker: it takes the oldest task.
Take ==
    /\ Alive /\ daemon # "down"
    /\ busy = <<>> /\ ch # <<>>
    /\ busy' = <<Head(ch)>>
    /\ ch' = Tail(ch)
    /\ inFlight' = ~ctxDone
    /\ UNCHANGED <<row, launches, life, turned, daemon, boots>>

\* What a write makes of a row: INSERT, or UPDATE of a row that exists.
Written(w) ==
    IF w.kind = "create" THEN "pending"
    ELSE IF row[w.run] = "none" THEN "none" ELSE w.kind

\* The write may be lost when it was in flight at Shutdown (its context is
\* cancelled) or when the database fails.
MayDrop == (inFlight /\ ctxDone) \/ WriteFailures

Apply ==
    /\ Alive /\ busy # <<>>
    /\ LET w == busy[1] IN
       IF w.kind = "flush"
       THEN Advance(w.run, Released(w.run)) /\ UNCHANGED row
       ELSE /\ UNCHANGED life
            /\ \/ row' = [row EXCEPT ![w.run] = Written(w)]
               \/ MayDrop /\ UNCHANGED row
    /\ busy' = <<>>
    /\ UNCHANGED <<launches, turned, ch, inFlight, daemon, boots>>

\* Broken variant: Flush does not watch ctx.
FlushAbandonedNever(r) == daemon = "off" /\ UNCHANGED vars
\* The second select of Flush.
FlushAbandoned(r) ==
    /\ ctxDone
    /\ life[r] \in {"flushing", "settling"}
    /\ Advance(r, Released(r))
    /\ UNCHANGED <<row, launches, turned, ch, busy, inFlight, daemon, boots>>

\* The worker returns once the channel is empty.
WorkerExit ==
    /\ daemon = "cancelled"
    /\ busy = <<>> /\ ch = <<>>
    /\ daemon' = "down"
    /\ UNCHANGED <<row, launches, life, turned, ch, busy, inFlight, boots>>

-----------------------------------------------------------------------------
(* The life of a run *)

\* TriggerRunWithOptions: created, then queued, started or refused.
Trigger(r) ==
    /\ daemon = "up"
    /\ life[r] = "none" /\ row[r] = "none" /\ launches[r] = 0
    /\ Enqueue(r, "create")
    /\ \/ life' = [life EXCEPT ![r] = "waiting"] /\ UNCHANGED turned
       \/ life' = [life EXCEPT ![r] = "started"] /\ UNCHANGED turned
       \/ life' = [life EXCEPT ![r] = "returned"] /\ turned' = turned \cup {r}
    /\ UNCHANGED launches /\ UnchangedStore

\* queueProcessLoop starts a waiting run, before shutdown only.
Start(r) ==
    /\ daemon = "up"
    /\ life[r] = "waiting"
    /\ Advance(r, "started")
    /\ UNCHANGED <<launches, turned, ch>> /\ UnchangedStore

\* finalizeOrphanedQueue: a stop, a removal or a reload ends a waiting run.
Orphan(r) ==
    /\ Alive
    /\ life[r] = "waiting"
    /\ Advance(r, "returned")
    /\ turned' = turned \cup {r}
    /\ UNCHANGED <<launches, ch>> /\ UnchangedStore

\* execute: PersistExisting(running) ...
MarkRunning(r) ==
    /\ Alive
    /\ life[r] = "started"
    /\ Enqueue(r, "running")
    /\ Advance(r, "marked")
    /\ UNCHANGED <<launches, turned>> /\ UnchangedStore

\* Broken variant: execute does not flush before it launches.
AwaitRunningUnflushed(r) ==
    /\ Alive
    /\ life[r] = "marked"
    /\ FlushSkipped(r, "flushing", "cleared")
    /\ UNCHANGED <<launches, turned>> /\ UnchangedStore
\* ... then Flush ...
AwaitRunning(r) ==
    /\ Alive
    /\ life[r] = "marked"
    /\ Flush(r, "flushing", "cleared")
    /\ UNCHANGED <<launches, turned>> /\ UnchangedStore

\* ... then the executor, which persists the run once more (its log file exists,
\* notifyRunUpdated) and starts the process.
Launch(r) ==
    /\ Alive
    /\ life[r] = "cleared"
    /\ Enqueue(r, "running")
    /\ launches' = [launches EXCEPT ![r] = @ + 1]
    /\ Advance(r, "spawned")
    /\ UNCHANGED turned /\ UnchangedStore

\* Execute returns: the process exited, or none could be started.
Return(r) ==
    /\ Alive
    /\ life[r] \in {"cleared", "spawned"}
    /\ Advance(r, "returned")
    /\ UNCHANGED <<launches, turned, ch>> /\ UnchangedStore

\* recordRunOutcome, or the refusal of a trigger: PersistExisting(ended), then
\* publishTerminal: Flush and the terminal event.
MarkEnded(r) ==
    /\ Alive
    /\ life[r] = "returned"
    /\ Enqueue(r, "ended")
    /\ Advance(r, "closed")
    /\ UNCHANGED <<launches, turned>> /\ UnchangedStore

\* Broken variant: publishTerminal does not flush.
AwaitEndedUnflushed(r) ==
    /\ Alive
    /\ life[r] = "closed"
    /\ FlushSkipped(r, "settling", "over")
    /\ UNCHANGED <<launches, turned>> /\ UnchangedStore
AwaitEnded(r) ==
    /\ Alive
    /\ life[r] = "closed"
    /\ Flush(r, "settling", "over")
    /\ UNCHANGED <<launches, turned>> /\ UnchangedStore

-----------------------------------------------------------------------------
(* Shutdown, crash, boot *)

BeginShutdown ==
    /\ daemon = "up"
    /\ daemon' = "closing"
    /\ UNCHANGED <<row, launches, life, turned, ch, busy, inFlight, boots>>

\* m.wg: the goroutines of runs that execute.
Working == {r \in Runs \ turned : life[r] \notin {"none", "waiting", "over"}}

\* Broken variant: Shutdown does not wait for the terminal Flush.
CloseEagerly ==
    /\ daemon = "closing"
    /\ \A r \in Working : life[r] \in {"closed", "settling"}
    /\ daemon' = "cancelled"
    /\ UNCHANGED <<row, launches, life, turned, ch, busy, inFlight, boots>>
\* persistence.Shutdown cancels ctx once wg.Wait returned.
Close ==
    /\ daemon = "closing"
    /\ Working = {}
    /\ daemon' = "cancelled"
    /\ UNCHANGED <<row, launches, life, turned, ch, busy, inFlight, boots>>

\* The daemon dies, or exits when it is down: memory is lost, rows are not.
Crash ==
    /\ daemon # "off"
    /\ daemon' = "off"
    /\ life' = [r \in Runs |-> "none"]
    /\ turned' = {}
    /\ ch' = <<>> /\ busy' = <<>> /\ inFlight' = FALSE
    /\ UNCHANGED <<row, launches, boots>>

\* Broken variant: boot ends the pending rows and leaves the running ones.
MarkCrashedPending ==
    /\ daemon = "off"
    /\ boots < MaxBoots
    /\ boots' = boots + 1
    /\ row' = [r \in Runs |-> IF row[r] = "pending" THEN "ended" ELSE row[r]]
    /\ daemon' = "recovering"
    /\ UNCHANGED <<launches, life, turned, ch, busy, inFlight>>
\* markCrashedRunsWithRetry; when it fails the daemon does not start.
MarkCrashedRuns ==
    /\ daemon = "off"
    /\ boots < MaxBoots
    /\ boots' = boots + 1
    /\ row' = [r \in Runs |-> IF row[r] = "running" THEN "ended" ELSE row[r]]
    /\ daemon' = "recovering"
    /\ UNCHANGED <<launches, life, turned, ch, busy, inFlight>>

\* resumePendingRuns: each pending run rejoins its queue, starts, or ends (its
\* task is gone or a service, no room); none if they cannot be read.
Pending == {r \in Runs : row[r] = "pending"}
ResumePendingRuns ==
    /\ daemon = "recovering"
    /\ daemon' = "up"
    /\ \/ \E fate \in [Pending -> {"waiting", "started", "returned"}] :
             /\ life' = [r \in Runs |-> IF r \in Pending THEN fate[r] ELSE life[r]]
             /\ turned' = {r \in Pending : fate[r] = "returned"}
       \/ WriteFailures /\ UNCHANGED <<life, turned>>
    /\ UNCHANGED <<row, launches, ch, busy, inFlight, boots>>

-----------------------------------------------------------------------------
Worker == Take \/ Apply \/ WorkerExit
RunStep(r) == MarkRunning(r) \/ AwaitRunning(r) \/ Launch(r) \/ Return(r)
              \/ MarkEnded(r) \/ AwaitEnded(r) \/ FlushAbandoned(r)
Boot == MarkCrashedRuns \/ ResumePendingRuns

Next ==
    \/ Worker
    \/ \E r \in Runs : Trigger(r) \/ Start(r) \/ Orphan(r) \/ RunStep(r)
    \/ BeginShutdown \/ Close \/ Crash \/ Boot

Spec == Init /\ [][Next]_vars

(***************************************************************************)
(* Fairness: the worker and the run goroutines are scheduled; a sender     *)
(* blocked on the full channel gets its turn (Go queues senders in order): *)
(* SF.  A process need not exit, the daemon need not shut down.            *)
(***************************************************************************)
Fairness ==
    /\ WF_vars(Take) /\ WF_vars(Apply) /\ WF_vars(WorkerExit) /\ WF_vars(Close)
    /\ \A r \in Runs : /\ SF_vars(MarkRunning(r)) /\ SF_vars(AwaitRunning(r))
                       /\ SF_vars(MarkEnded(r)) /\ SF_vars(AwaitEnded(r))
                       /\ WF_vars(FlushAbandoned(r))

FairSpec == Spec /\ Fairness
-----------------------------------------------------------------------------
(* Properties *)

\* Every variable keeps the type its Go counterpart has.
TypeOK ==
    /\ row \in [Runs -> {"none", "pending", "running", "ended"}]
    /\ launches \in [Runs -> Nat]
    /\ life \in [Runs -> Lives]
    /\ turned \subseteq Runs
    /\ ch \in Seq(Writes) /\ Len(ch) <= Capacity
    /\ busy \in Seq(Writes) /\ Len(busy) <= 1
    /\ inFlight \in BOOLEAN
    /\ daemon \in {"off", "recovering", "up", "closing", "cancelled", "down"}
    /\ boots \in 0 .. MaxBoots

\* The runs table a reader sees is a RunRecord: rows only move forward, a process
\* exists only once its row is "running", and no run is executed twice, whatever
\* crashes and restarts come between (the FIFO channel, the two Flush barriers,
\* and the order in which a boot recovers).
Record == INSTANCE RunRecord WITH Runs <- Runs, row <- row, launches <- launches
RowsAreRecords == Record!Spec

\* A terminal event is published only once its row can be read, except while the
\* coordinator shuts down (publishTerminal: the SSE stream and `runwisp run`
\* read the row on hearing the event).
EventAfterRow ==
    [][\A r \in Runs : life[r] # "over" /\ life'[r] = "over" /\ daemon \in {"up", "closing"}
          => row'[r] = "ended"]_vars

\* While the daemon is up, a row that is not ended belongs to a run in memory:
\* boot leaves no run "running" or "pending" that nobody will end.
NoPhantomRow ==
    daemon \in {"up", "closing"} =>
        \A r \in Runs : row[r] \in {"pending", "running"} => life[r] \notin {"none", "over"}

\* After a graceful shutdown no row is "running": the next boot takes no run
\* that ended for a crashed one, although a write in flight is aborted.
GracefulLeavesNoneRunning == daemon = "down" => \A r \in Runs : row[r] # "running"

\* A run whose executor returned, or that was refused, gets its terminal event
\* unless the daemon dies: nobody waits for good for a slot of the channel or
\* for a worker that is gone.
EventuallyAnnounced ==
    \A r \in Runs : life[r] = "returned" ~> life[r] \in {"over", "none"}

\* No run gets a second process: "The row must be durably 'running' before the
\* OS process exists, or a crash could leave it 'pending' and boot would spawn
\* a second process for it" (manager_run.go:62-65).
NoSecondProcess == \A r \in Runs : launches[r] <= 1
=============================================================================
