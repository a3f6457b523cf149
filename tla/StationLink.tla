---------------------------- MODULE StationLink ----------------------------
(***************************************************************************)
(* The link to a station, the control plane that dispatches executions to  *)
(* this daemon: its session, the dispatch handler with its protection      *)
(* against duplicates, the runs, the bridge that reports them, the updates *)
(* kept for the next session, and the archival of logs with the records    *)
(* that let the next boot finish it.                                       *)
(*                                                                         *)
(* The queue of a session holds the reports only; acks, heartbeats and log *)
(* batches are the reason it may be full at any time.                      *)
(***************************************************************************)
EXTENDS Integers, Sequences, FiniteSets, SequencesExt

CONSTANTS
    Execs,          \* execution ids of the station
    MaxRuns,        \* bound: runs of one execution the model can hold
    MaxAsked,       \* bound: how often one execution is dispatched
    MaxSessions,    \* bound: sessions
    MaxRestarts,    \* bound: restarts of the daemon
    PendingLimit    \* maxPendingExecutionUpdates

ASSUME StationLinkAssumption ==
    /\ MaxRuns \in Nat /\ MaxAsked \in Nat /\ MaxSessions \in Nat /\ MaxRestarts \in Nat
    /\ PendingLimit \in Nat \ {0} /\ IsFiniteSet(Execs) /\ "none" \notin Execs

VARIABLES
    client,     \* "recovering" the archive backlog, "running", "stopping", "stopped"
    todo,       \* records RecoverOrphans has yet to look at
    phase,      \* of the session: "none", "attached", "flushing", "open", "closing"
    outbound,   \* wsSession.outbound
    flushing,   \* what FlushPending took and has not sent
    late,       \* updates that could not be sent and are not buffered yet
    pending,    \* pendingExecutionUpdates
    reserved, active,   \* of the ExecutionTracker
    handling,   \* the dispatch the read loop is working on
    run,        \* per run: "none", "created", "started", "running", "ended", "over"
    row,        \* per run, durable: "none", "pending", "running", "ended"
    final,      \* per run: what finalizeRun does next
    records,    \* durable: pending_log_uploads
    entries,    \* LogUploader.pending
    logs,       \* runs whose log file is there
    knows,      \* per execution: what the station was told last
    asked, sessions, restarts, launches,    \* counters
    misread,    \* history, per execution: look-ups that missed a row that was there
    excused     \* history: executions whose last report was lost, see NoReportForgotten

link == <<client, todo, phase, outbound, flushing, late, pending, sessions>>
tracker == <<reserved, active, handling>>
runs == <<run, row, launches>>
archive == <<final, records, entries, logs>>
station == <<knows, asked, misread>>
vars == <<link, tracker, runs, archive, station, restarts, excused>>

Runs == Execs \X (1 .. MaxRuns)
RunsOf(e) == {r \in Runs : r[1] = e}
Idle == [exec |-> "none", at |-> "idle"]
Report(e, status) == [exec |-> e, status |-> status]
\* Executions with a report of their end in a sequence of reports.
Ends(s) == {s[i].exec : i \in {j \in 1 .. Len(s) : s[j].status # "running"}}
Hears == client \in {"running", "stopping"}

-----------------------------------------------------------------------------
(***************************************************************************)
(* Sending: QueueUpdate tries the session and buffers what it cannot send  *)
(***************************************************************************)
QueueUpdate(u) ==
    \/ /\ phase # "none"
       /\ outbound' = Append(outbound, u)
       /\ UNCHANGED late
    \/ /\ late' = late \cup {u}
       /\ UNCHANGED outbound

\* bufferUpdate: at the cap the oldest makes room.
Buffered(u) == Append(IF Len(pending) >= PendingLimit THEN Tail(pending) ELSE pending, u)

\* An execution whose record survives is reported again by a later boot.
Forgotten(execs) == excused' = excused \cup (execs \ records)

BufferUpdate ==
    \E u \in late :
        /\ late' = late \ {u}
        /\ pending' = Buffered(u)
        /\ Forgotten(Ends(pending) \ Ends(pending'))
        /\ UNCHANGED <<client, todo, phase, outbound, flushing, sessions, tracker, runs, archive,
                       station, restarts>>

-----------------------------------------------------------------------------
(***************************************************************************)
(* The session                                                             *)
(***************************************************************************)
\* Dialled, authenticated and synced; attachSession.
Connect ==
    /\ client = "running" /\ phase = "none" /\ sessions < MaxSessions
    /\ phase' = "attached"
    /\ sessions' = sessions + 1
    /\ UNCHANGED <<client, todo, outbound, flushing, late, pending, tracker, runs, archive,
                   station, restarts, excused>>

\* FlushPending copies the buffer and a snapshot of what runs.
TakePending ==
    /\ phase = "attached"
    /\ phase' = "flushing"
    /\ \E s \in SetToSeqs({Report(e, "running") : e \in active}) : flushing' = pending \o s
    /\ pending' = <<>>
    /\ UNCHANGED <<client, todo, outbound, late, sessions, tracker, runs, archive, station,
                   restarts, excused>>

\* Broken variant: what could not be sent is dropped.
RequeuedNever == pending
\* The rest goes back into the buffer, behind what was buffered meanwhile.
Requeued == pending \o flushing

SendFlushed ==
    /\ phase = "flushing" /\ flushing # <<>>
    /\ \/ /\ outbound' = Append(outbound, Head(flushing))
          /\ flushing' = Tail(flushing)
          /\ UNCHANGED pending
       \/ /\ pending' = Requeued
          /\ flushing' = <<>>
          /\ UNCHANGED outbound
    /\ UNCHANGED <<client, todo, phase, late, sessions, tracker, runs, archive, station,
                   restarts, excused>>

\* The session's loops start.
OpenSession ==
    /\ phase = "flushing" /\ flushing = <<>>
    /\ phase' = "open"
    /\ UNCHANGED <<client, todo, outbound, flushing, late, pending, sessions, tracker, runs,
                   archive, station, restarts, excused>>

\* writeLoop; the station does not let a report undo the end of an execution.
WriteLoop ==
    /\ phase = "open" /\ outbound # <<>>
    /\ LET u == Head(outbound)
       IN  knows' = [knows EXCEPT ![u.exec] = IF @ = "ended" THEN @ ELSE u.status]
    /\ outbound' = Tail(outbound)
    /\ UNCHANGED <<client, todo, phase, flushing, late, pending, sessions, tracker, runs,
                   archive, asked, misread, restarts, excused>>

\* A lost connection, silence, a re-dial for new capabilities, or a shutdown.
EndSession ==
    /\ phase = "open"
    /\ phase' = "closing"
    /\ UNCHANGED <<client, todo, outbound, flushing, late, pending, sessions, tracker, runs,
                   archive, station, restarts, excused>>

\* The loops are gone, the session is closed and detached, its queue with it.
Detach ==
    /\ phase = "closing" /\ handling = Idle
    /\ phase' = "none"
    /\ outbound' = <<>>
    /\ Forgotten(Ends(outbound))
    /\ UNCHANGED <<client, todo, flushing, late, pending, sessions, tracker, runs, archive,
                   station, restarts>>

-----------------------------------------------------------------------------
(***************************************************************************)
(* Dispatch, on the goroutine of the read loop                             *)
(***************************************************************************)
\* Broken variant: only a run that was seen to start counts.
ClaimedRunning(e) == e \in active
Claimed(e) == e \in active \cup reserved

\* Reserve; a duplicate is acked and nothing else.
Dispatch(e) ==
    /\ phase = "open" /\ handling = Idle /\ asked[e] < MaxAsked
    /\ asked' = [asked EXCEPT ![e] = @ + 1]
    /\ IF Claimed(e)
       THEN UNCHANGED tracker
       ELSE /\ reserved' = reserved \cup {e}
            /\ handling' = [exec |-> e, at |-> "lookup"]
            /\ UNCHANGED active
    /\ UNCHANGED <<link, runs, archive, knows, misread, restarts, excused>>

\* Broken variant: the reservation of a duplicate stays.
ReleasedNot(e) == reserved
Released(e) == reserved \ {e}

\* The row of an earlier run was found: its end is reported again.
FoundRun ==
    /\ handling.at = "lookup"
    /\ \E r \in RunsOf(handling.exec) :
        /\ row[r] # "none"
        /\ IF row[r] = "ended"
           THEN QueueUpdate(Report(r[1], "ended")) /\ excused' = excused \ {r[1]}
           ELSE UNCHANGED <<outbound, late, excused>>
    /\ reserved' = Released(handling.exec)
    /\ handling' = Idle
    /\ UNCHANGED <<client, todo, phase, flushing, pending, sessions, active, runs, archive,
                   station, restarts>>

\* A look-up that fails (the session's context is cancelled, the database has an
\* error) counts as one that found no row; this is how many rows it overlooks.
Missed(e) == IF \E r \in RunsOf(e) : row[r] # "none" THEN 1 ELSE 0

\* No row, or no answer: acked, and the upload registered where there is a URL
\* and the write succeeds.
Accept ==
    /\ handling.at = "lookup"
    /\ handling' = [handling EXCEPT !.at = "trigger"]
    /\ misread' = [misread EXCEPT ![handling.exec] = @ + Missed(handling.exec)]
    /\ \/ /\ records' = records \cup {handling.exec}
          /\ entries' = entries \cup {handling.exec}
       \/ UNCHANGED <<records, entries>>
    /\ UNCHANGED <<link, reserved, active, runs, final, logs, knows, asked, restarts, excused>>

Create(r, stage) ==
    /\ run[r] = "none" /\ row[r] = "none"
    /\ run' = [run EXCEPT ![r] = stage]
    /\ UNCHANGED <<row, launches>>

Trigger ==
    /\ handling.at = "trigger"
    /\ \E r \in RunsOf(handling.exec) : Create(r, "created")
    /\ handling' = Idle
    /\ UNCHANGED <<link, reserved, active, archive, station, restarts, excused>>

\* The task's policy turns the run down; the handler waits for the row and the event.
TurnDown ==
    /\ handling.at = "trigger"
    /\ \E r \in RunsOf(handling.exec) : Create(r, "ended")
    /\ handling' = [handling EXCEPT !.at = "turned_down"]
    /\ UNCHANGED <<link, reserved, active, archive, station, restarts, excused>>

\* forget: the entry, and the record unless the write fails.
Forget(e) ==
    /\ entries' = entries \ {e}
    /\ records' \in {records, records \ {e}}

\* handleTriggerError, or a definition that does not resolve.
Refuse ==
    /\ \/ handling.at = "trigger"
       \/ handling.at = "turned_down" /\ \A r \in RunsOf(handling.exec) : run[r] \in {"none", "over"}
    /\ QueueUpdate(Report(handling.exec, "ended"))
    /\ Forget(handling.exec)
    /\ reserved' = reserved \ {handling.exec}
    /\ handling' = Idle
    /\ UNCHANGED <<client, todo, phase, flushing, pending, sessions, active, runs, final, logs,
                   station, restarts, excused>>

-----------------------------------------------------------------------------
(***************************************************************************)
(* Runs and the bridge                                                     *)
(***************************************************************************)
\* The persistence worker writes rows after the fact.
Persist(r) ==
    /\ \/ /\ run[r] \in {"created", "ended"} /\ row[r] = "none"
          /\ row' = [row EXCEPT ![r] = "pending"]
       \/ /\ run[r] = "ended" /\ row[r] \in {"pending", "running"}
          /\ row' = [row EXCEPT ![r] = "ended"]
    /\ UNCHANGED <<link, tracker, run, launches, archive, station, restarts, excused>>

\* The row is 'running' before the event and the process.
Start(r) ==
    /\ run[r] = "created"
    /\ run' = [run EXCEPT ![r] = "started"]
    /\ row' = [row EXCEPT ![r] = "running"]
    /\ UNCHANGED <<link, tracker, launches, archive, station, restarts, excused>>

\* handleRunEvent of run.started; the executor may fail before there is a log.
Launch(r) ==
    /\ run[r] = "started"
    /\ run' = [run EXCEPT ![r] = "running"]
    /\ launches' = [launches EXCEPT ![r[1]] = @ + 1]
    /\ logs' \in {logs, logs \cup {r}}
    /\ IF Hears
       THEN /\ active' = active \cup {r[1]}
            /\ QueueUpdate(Report(r[1], "running"))
       ELSE UNCHANGED <<active, outbound, late>>
    /\ UNCHANGED <<client, todo, phase, flushing, pending, sessions, reserved, handling, row,
                   final, records, entries, station, restarts, excused>>

\* The process ends, or a run that waits in its queue is stopped.
End(r) ==
    /\ run[r] \in {"created", "running"}
    /\ run' = [run EXCEPT ![r] = "ended"]
    /\ UNCHANGED <<link, tracker, row, launches, archive, station, restarts, excused>>

\* handleRunEvent of a terminal event, which follows the row.
AnnounceEnd(r) ==
    /\ run[r] = "ended" /\ row[r] = "ended"
    /\ run' = [run EXCEPT ![r] = "over"]
    /\ IF Hears
       THEN /\ active' = active \ {r[1]}
            /\ reserved' = reserved \ {r[1]}
            /\ final' = [final EXCEPT ![r] = "report"]
            /\ UNCHANGED excused
       ELSE /\ Forgotten({r[1]})
            /\ UNCHANGED <<active, reserved, final>>
    /\ UNCHANGED <<link, handling, row, launches, records, entries, logs, station, restarts>>

\* finalizeRun: the end at once, the coordinates of the log once it is uploaded.
ReportEnd(r) ==
    /\ final[r] = "report"
    /\ QueueUpdate(Report(r[1], "ended"))
    /\ final' = [final EXCEPT ![r] = "archive"]
    /\ UNCHANGED <<client, todo, phase, flushing, pending, sessions, tracker, runs, records,
                   entries, logs, station, restarts, excused>>

Archive(r) ==
    /\ final[r] = "archive"
    /\ \/ /\ r[1] \in entries /\ r \in logs /\ client # "stopped"
          /\ Forget(r[1])
          /\ logs' = logs \ {r}
          /\ final' = [final EXCEPT ![r] = "attach"]
          /\ UNCHANGED excused
       \/ /\ r[1] \in entries /\ r \notin logs
          /\ Forget(r[1])
          /\ excused' = excused \cup {r[1]}
          /\ final' = [final EXCEPT ![r] = "none"]
          /\ UNCHANGED logs
       \/ /\ final' = [final EXCEPT ![r] = "none"]
          /\ UNCHANGED <<records, entries, logs, excused>>
    /\ UNCHANGED <<link, tracker, runs, station, restarts>>

Attach(r) ==
    /\ final[r] = "attach"
    /\ QueueUpdate(Report(r[1], "ended"))
    /\ final' = [final EXCEPT ![r] = "none"]
    /\ UNCHANGED <<client, todo, phase, flushing, pending, sessions, tracker, runs, records,
                   entries, logs, station, restarts, excused>>

-----------------------------------------------------------------------------
(***************************************************************************)
(* The client's life: the backlog first, then sessions, until it is stopped *)
(***************************************************************************)
\* The callback of a recovered upload reads the row once more for the report; it
\* returns without one when that fails, and the record is gone by then.
ReportRecovered(e) ==
    \/ late' = late \cup {Report(e, "ended")} /\ UNCHANGED excused
    \/ excused' = excused \cup {e} /\ UNCHANGED late

\* One record of RecoverOrphans: the row is gone, the log is gone, the log is
\* uploaded, or nothing comes of it (the run goes on, the row cannot be read or
\* the upload fails) and the record waits for the next boot.
RecoverOne(e) ==
    /\ client = "recovering" /\ e \in todo
    /\ todo' = todo \ {e}
    /\ \/ /\ \A r \in RunsOf(e) : row[r] = "none"
          /\ Forget(e)
          /\ UNCHANGED <<late, logs, excused>>
       \/ /\ \E r \in RunsOf(e) : row[r] = "ended" /\ r \notin logs
          /\ Forget(e)
          /\ excused' = excused \cup {e}
          /\ UNCHANGED <<late, logs>>
       \/ \E r \in RunsOf(e) :
          /\ row[r] = "ended" /\ r \in logs
          /\ Forget(e)
          /\ logs' = logs \ {r}
          /\ ReportRecovered(e)
       \/ /\ entries' = entries \cup {e}
          /\ UNCHANGED <<late, records, logs, excused>>
    /\ UNCHANGED <<client, phase, outbound, flushing, pending, sessions, tracker, runs, final,
                   station, restarts>>

\* Run: the bridge subscribes.
Listen ==
    /\ client = "recovering" /\ todo = {} /\ late = {}
    /\ client' = "running"
    /\ UNCHANGED <<todo, phase, outbound, flushing, late, pending, sessions, tracker, runs,
                   archive, station, restarts, excused>>

\* gracefulShutdown cancels the client before it stops the runs; what is left of
\* the backlog waits for the next boot.
BeginStop ==
    /\ \/ client = "running" /\ client' = "stopping"
       \/ client = "recovering" /\ client' = "stopped"
    /\ todo' = {}
    /\ UNCHANGED <<phase, outbound, flushing, late, pending, sessions, tracker, runs, archive,
                   station, restarts, excused>>

Stopped ==
    /\ client = "stopping" /\ phase = "none"
    /\ client' = "stopped"
    /\ UNCHANGED <<todo, phase, outbound, flushing, late, pending, sessions, tracker, runs,
                   archive, station, restarts, excused>>

\* The daemon dies, or exits, and boots: rows left 'running' end, the others go
\* back to the task manager, which resumes or ends them; memory is gone.
Restart ==
    /\ restarts < MaxRestarts
    /\ restarts' = restarts + 1
    /\ \E resumed \in SUBSET {r \in Runs : row[r] = "pending"} :
        /\ row' = [r \in Runs |->
                     IF row[r] = "none" \/ r \in resumed THEN row[r] ELSE "ended"]
        /\ run' = [r \in Runs |->
                     IF r \in resumed THEN "created" ELSE IF row[r] = "none" THEN "none" ELSE "over"]
    /\ excused' = excused \cup {e \in Execs \ records :
                       knows[e] # "ended" /\ \E r \in RunsOf(e) : row'[r] = "ended"}
    /\ client' = "recovering" /\ todo' = records /\ phase' = "none"
    /\ outbound' = <<>> /\ flushing' = <<>> /\ late' = {} /\ pending' = <<>>
    /\ reserved' = {} /\ active' = {} /\ handling' = Idle
    /\ final' = [r \in Runs |-> "none"] /\ entries' = {}
    /\ UNCHANGED <<sessions, launches, records, logs, station>>

-----------------------------------------------------------------------------
Init ==
    /\ client = "running" /\ todo = {} /\ phase = "none" /\ sessions = 0
    /\ outbound = <<>> /\ flushing = <<>> /\ late = {} /\ pending = <<>>
    /\ reserved = {} /\ active = {} /\ handling = Idle
    /\ run = [r \in Runs |-> "none"] /\ row = [r \in Runs |-> "none"]
    /\ final = [r \in Runs |-> "none"]
    /\ records = {} /\ entries = {} /\ logs = {}
    /\ knows = [e \in Execs |-> "nothing"]
    /\ misread = [e \in Execs |-> 0]
    /\ asked = [e \in Execs |-> 0] /\ launches = [e \in Execs |-> 0]
    /\ restarts = 0 /\ excused = {}

Next ==
    \/ Connect \/ TakePending \/ SendFlushed \/ OpenSession \/ WriteLoop \/ EndSession \/ Detach
    \/ BufferUpdate
    \/ \E e \in Execs : Dispatch(e)
    \/ FoundRun \/ Accept \/ Trigger \/ TurnDown \/ Refuse
    \/ \E r \in Runs : \/ Persist(r) \/ Start(r) \/ Launch(r) \/ End(r) \/ AnnounceEnd(r)
                      \/ ReportEnd(r) \/ Archive(r) \/ Attach(r)
    \/ \E e \in Execs : RecoverOne(e)
    \/ Listen \/ BeginStop \/ Stopped \/ Restart

Spec == Init /\ [][Next]_vars

-----------------------------------------------------------------------------
Reports == [exec : Execs, status : {"running", "ended"}]
Stages == {"none", "created", "started", "running", "ended", "over"}

TypeOK ==
    /\ client \in {"recovering", "running", "stopping", "stopped"} /\ todo \subseteq Execs
    /\ phase \in {"none", "attached", "flushing", "open", "closing"} /\ sessions \in Nat
    /\ outbound \in Seq(Reports) /\ flushing \in Seq(Reports) /\ pending \in Seq(Reports)
    /\ late \subseteq Reports
    /\ reserved \subseteq Execs /\ active \subseteq Execs
    /\ \/ handling = Idle
       \/ handling \in [exec : Execs, at : {"lookup", "trigger", "turned_down"}]
    /\ run \in [Runs -> Stages]
    /\ row \in [Runs -> {"none", "pending", "running", "ended"}]
    /\ final \in [Runs -> {"none", "report", "archive", "attach"}]
    /\ records \subseteq Execs /\ entries \subseteq Execs /\ logs \subseteq Runs
    /\ knows \in [Execs -> {"nothing", "running", "ended"}]
    /\ asked \in [Execs -> Nat] /\ launches \in [Execs -> Nat] /\ misread \in [Execs -> Nat]
    /\ restarts \in Nat /\ excused \subseteq Execs

\* A station may ask for an execution as often as it likes, before, during and
\* after its run, across sessions and restarts of the daemon: its process is
\* started once, and once more only for each look-up of the guard that came back
\* without the row of an earlier run.
RunOnce == \A e \in Execs : launches[e] <= 1 + misread[e]

\* While the bridge listens, an execution the tracker holds has a dispatch in
\* progress or a run that is not over: no claim outlives what it was made for and
\* turns the station away for good.
ReservationOwned ==
    client = "running" =>
        \A e \in reserved \cup active :
            \/ handling.exec = e
            \/ \E r \in RunsOf(e) : run[r] \notin {"none", "over"}

\* The end of a run reaches the station, waits somewhere it will be sent from, is
\* about to be reported, or has a record by which a later boot recovers it; else
\* it was lost in one of six ways, each of which marks it as excused:
\* pushed out of the pending buffer at its cap; in the queue of a session that
\* ended; on the way when the daemon restarted; announced while the bridge was
\* not subscribed (before Run and after the client's stop); archived without a
\* log file; or uploaded by the recovery, which then could not read its row.
InTransit(e) ==
    \/ Report(e, "ended") \in late
    \/ e \in Ends(pending) \cup Ends(flushing) \cup Ends(outbound)
    \/ \E r \in RunsOf(e) : final[r] \in {"report", "attach"}
NoReportForgotten ==
    \A r \in Runs :
        row[r] = "ended" /\ run[r] = "over" =>
            knows[r[1]] = "ended" \/ InTransit(r[1]) \/ r[1] \in records \cup excused
=============================================================================
