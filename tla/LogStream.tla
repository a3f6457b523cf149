----------------------------- MODULE LogStream -----------------------------
(***************************************************************************)
(* The output of one run, from the goroutines that read the process to a   *)
(* client that follows it: the log writer with its rotation, the reader of *)
(* the files, the event bus, one connection's streamer, and the client's   *)
(* loop that re-opens a lost connection (followRunLog).                    *)
(*                                                                         *)
(* A line is the absolute number the writer gave it, so a file is a        *)
(* sequence of numbers, and a line a reader found is that number beside    *)
(* the one it is sent under.  A size is a number of lines.  A Write that   *)
(* a stopped writer drops changes nothing and is not a step.  Readers take *)
(* no lock of the writer's: the sidecar and then the files are two steps   *)
(* of theirs, and a rotation is two or three of the writer's.              *)
(***************************************************************************)
EXTENDS Integers, Sequences, FiniteSets

CONSTANTS
    Streams,        \* goroutines that write and publish: stdout, stderr
    MaxLines,       \* bound: how many lines are captured, the remark on a match included
    SegmentLines,   \* LogWriterOpts.MaxSize
    GroupLines,     \* bound: lines of one commit group
    Overflows,      \* overflow policies to start from
    PendingLimit,   \* PendingBufferLimit
    Replay,         \* LogStreamReplayDefault
    Froms,          \* where the client may ask to begin; negative counts from the end
    MaxConns        \* bound: how many connections the client opens

None == "none"

ASSUME LogStreamAssumption ==
    /\ None \notin Streams
    /\ MaxLines \in Nat /\ GroupLines \in Nat \ {0}
    /\ SegmentLines \in Nat \ {0}
    /\ Overflows \subseteq {"drop_old", "drop_new", "kill"}
    /\ PendingLimit \in Nat \ {0} /\ Replay \in Nat \ {0}
    /\ Froms \subseteq Int
    /\ MaxConns \in Nat

VARIABLES
    run,        \* "running", "closed" (its log), "ended" (its row), "announced"
    overflow,   \* LogWriter.overflow
    log,        \* the current segment
    prev,       \* the segment in the .prev slot; empty when there is none
    meta,       \* LogMeta in the sidecar container
    rotated,    \* LogWriter.rotatedLines
    prevStart,  \* LogWriter.prevSegmentStart
    stopped,    \* LogWriter.stopped
    moving,     \* the stream in the middle of rotateTail
    missing,    \* the main file does not exist
    matched,    \* outputMatcher.matched
    held,       \* per stream: lines written and not yet published
    talking,    \* per stream: it publishes its commit group
    phase,      \* of the connection
    index,      \* the LogMeta its ReadLineRange has loaded
    ended,      \* StreamConfig.RunEnded
    pending,    \* pendingCh
    dropped,    \* streamDropTracker, as the set of lines it counts
    reported,   \* the drops in the notice just sent
    term,       \* terminalCh is signalled
    anchor,     \* resolvedAnchor
    back,       \* backfill still to be sent
    last,       \* streamer.lastSent
    from,       \* followRunLog's cursor
    conns,      \* how many connections were opened
    seen,       \* lines the client printed
    told,       \* lines the client was told were dropped
    done,       \* the client received Done
    outputs, floor, overtaken, unsaid,      \* history, see Excused
    stale, torn, misled                     \* history, see Misled

files == <<overflow, log, prev, meta, rotated, prevStart, stopped, moving, missing, stale>>
said == <<matched, held, talking, outputs>>
reading == <<index, torn, misled>>
sending == <<ended, pending, dropped, reported, term, anchor, back, last>>
client == <<from, conns, seen, told, done>>
marks == <<floor, overtaken, unsaid>>
vars == <<run, files, said, phase, reading, sending, client, marks>>

NoMeta == [rotated |-> 0, start |-> 0, final |-> 0, finalized |-> FALSE]
Higher(a, b) == IF a > b THEN a ELSE b
Lower(a, b) == IF a < b THEN a ELSE b

-----------------------------------------------------------------------------
(***************************************************************************)
(* The writer                                                              *)
(***************************************************************************)
\* The number of the next line.
NextNumber == rotated + Len(log)
Truncated == stopped \/ rotated > 0

\* writeOneLine: a line of output, published once its group is written, or the
\* remark on the first line that matches a pattern, made before that line is
\* published and never published itself.
Room == Cardinality(outputs) + (IF matched THEN 1 ELSE 0) < MaxLines
Output(s) == ~talking[s] /\ Len(held[s]) < GroupLines /\ Room
Remark(s) == ~matched /\ held[s] # <<>> /\ Room

Capture(s, n) ==
    /\ held' = [held EXCEPT ![s] = Append(@, n)]
    /\ outputs' = outputs \cup {n}
    /\ UNCHANGED <<matched, talking>>
Remarked(s) ==
    /\ matched' = TRUE
    /\ talking' = [talking EXCEPT ![s] = TRUE]
    /\ UNCHANGED <<held, outputs>>
Taken(s, n) == (Output(s) /\ Capture(s, n)) \/ (Remark(s) /\ Remarked(s))

MayWrite(s) ==
    /\ run = "running" /\ moving = None /\ ~stopped
    /\ Output(s) \/ Remark(s)

Full == Len(log) >= SegmentLines

Write(s) ==
    /\ MayWrite(s) /\ ~Full
    /\ log' = Append(log, NextNumber)
    /\ Taken(s, NextNumber)
    /\ UNCHANGED <<run, overflow, prev, meta, rotated, prevStart, stopped, moving, missing, stale,
                   phase, reading, sending, client, marks>>

\* The policies that stop the capture, a failed rename, low disk space or a
\* failed write: a notice, which a broken file may not take, and nothing more.
StopCapture(s) ==
    /\ MayWrite(s)
    /\ stopped' = TRUE
    /\ log' \in {log, Append(log, NextNumber)}
    /\ (Output(s) /\ UNCHANGED said) \/ (Remark(s) /\ Remarked(s))
    /\ UNCHANGED <<run, overflow, prev, meta, rotated, prevStart, moving, missing, stale,
                   phase, reading, sending, client, marks>>

\* rotateTail: the file becomes the .prev segment.  What the sidecar says is
\* stale from here on, also to a reader that has it loaded.
Rotate(s) ==
    /\ MayWrite(s) /\ Full /\ overflow = "drop_old"
    /\ prevStart' = rotated
    /\ rotated' = rotated + Len(log)
    /\ prev' = log
    /\ log' = <<>>
    /\ moving' = s
    /\ missing' = TRUE
    /\ stale' = TRUE
    /\ torn' = (torn \/ phase \in {"indexed", "reindexed"})
    /\ UNCHANGED <<run, overflow, meta, stopped, said, phase, index, misled, sending, client, marks>>

CreateSegment(s) ==
    /\ moving = s /\ missing
    /\ missing' = FALSE
    /\ UNCHANGED <<run, overflow, log, prev, meta, rotated, prevStart, stopped, moving, stale, said,
                   phase, reading, sending, client, marks>>

\* The new file cannot be created: the writer stops, without a notice.
SegmentFails(s) ==
    /\ moving = s /\ missing
    /\ moving' = None
    /\ stopped' = TRUE
    /\ UNCHANGED <<run, overflow, log, prev, meta, rotated, prevStart, missing, stale, said,
                   phase, reading, sending, client, marks>>

\* Broken variant: the start of the .prev segment is not recorded.
MetaNoStart(final, closed) ==
    [rotated |-> rotated, start |-> 0, final |-> final, finalized |-> closed]
Meta(final, closed) ==
    [rotated |-> rotated, start |-> prevStart, final |-> final, finalized |-> closed]

\* rewriteContainerForRotation gets its record out; or the container cannot be
\* truncated, or cannot be written after it was.
Recorded == meta' = Meta(0, FALSE) /\ stale' = FALSE
Unrecorded == meta' \in {meta, NoMeta} /\ UNCHANGED stale

\* The rest of rotateTail, with its notice, and the line that did not fit.
Rewrite(s) ==
    /\ moving = s /\ ~missing
    /\ Recorded \/ Unrecorded
    /\ log' = <<rotated, rotated + 1>>
    /\ moving' = None
    /\ Taken(s, rotated + 1)
    /\ UNCHANGED <<run, overflow, prev, rotated, prevStart, stopped, missing, phase, reading,
                   sending, client, marks>>

-----------------------------------------------------------------------------
(***************************************************************************)
(* The bus: a line is published after the writer's lock is released        *)
(***************************************************************************)
\* Broken variant: the connection subscribes when it has sent the backfill.
SubscribedLate == phase \in {"live", "emitted", "told", "closing"}
Subscribed == phase \notin {"none", "opened"}

\* Broken variant: the line is sent before room is made for it.
BufferUnbounded(n) ==
    /\ pending' = Append(pending, n)
    /\ UNCHANGED dropped
\* bufferLogLine.
Buffer(n) ==
    IF Len(pending) < PendingLimit
    THEN /\ pending' = Append(pending, n)
         /\ UNCHANGED dropped
    ELSE /\ pending' = Append(Tail(pending), n)
         /\ dropped' = dropped \cup {Head(pending)}

Publish(s) ==
    /\ held[s] # <<>> /\ moving # s
    /\ LET n == Head(held[s]) IN
       /\ IF Subscribed THEN Buffer(n) ELSE UNCHANGED <<pending, dropped>>
       /\ overtaken' = overtaken \cup
            {k \in outputs : k < n /\ \E t \in Streams \ {s} : \E i \in 1 .. Len(held[t]) : held[t][i] = k}
    /\ held' = [held EXCEPT ![s] = Tail(@)]
    /\ talking' = [talking EXCEPT ![s] = Len(held[s]) > 1]
    /\ UNCHANGED <<run, files, matched, outputs, phase, reading, ended, reported, term, anchor,
                   back, last, client, floor, unsaid>>

\* The streams have ended and LogWriter.Close writes the final metadata, if it
\* can; a file that is missing takes no summary.
Close ==
    /\ run = "running" /\ moving = None
    /\ \A s \in Streams : held[s] = <<>>
    /\ run' = "closed"
    /\ log' = IF Truncated /\ ~missing THEN Append(log, NextNumber) ELSE log
    /\ meta' \in {meta, Meta(Len(IF missing THEN prev ELSE log'), TRUE)}
    /\ UNCHANGED <<overflow, prev, rotated, prevStart, stopped, moving, missing, stale, said,
                   phase, reading, sending, client, marks>>

\* The row is written before the event is published (RunPersistence, EventAfterRow).
EndRow ==
    /\ run = "closed"
    /\ run' = "ended"
    /\ UNCHANGED <<files, said, phase, reading, sending, client, marks>>

Announce ==
    /\ run = "ended"
    /\ run' = "announced"
    /\ term' = (term \/ Subscribed)
    /\ UNCHANGED <<files, said, phase, reading, ended, pending, dropped, reported, anchor, back,
                   last, client, marks>>

-----------------------------------------------------------------------------
(***************************************************************************)
(* Reading the files, with an index that was loaded from the sidecar       *)
(***************************************************************************)
\* Up to limit lines of a segment after the first skip ones, numbered from n.
Collect(segment, skip, n, limit) ==
    LET count == Lower(limit, Higher(Len(segment) - skip, 0))
    IN  [i \in 1 .. count |-> [n |-> n + i - 1, line |-> segment[skip + i]]]

FirstAvailable == IF prev # <<>> THEN index.start ELSE index.rotated
\* Without a main file a reader finds nothing.
TotalLines ==
    IF missing THEN FirstAvailable
    ELSE index.rotated + IF index.finalized THEN index.final ELSE Len(log)

ResolveStartLine(f) == Higher(IF f < 0 THEN TotalLines + f ELSE f, FirstAvailable)

ReadLineRange(f, limit) ==
    LET start == ResolveStartLine(f)
        older == IF prev # <<>> /\ start < index.rotated
                 THEN Collect(prev, start - index.start, start, limit) ELSE <<>>
        at == IF older # <<>> THEN index.rotated ELSE start
    IN  IF start >= TotalLines THEN <<>>
        ELSE older \o Collect(log, Higher(at - index.rotated, 0), at, limit - Len(older))

\* resolveBackfillAnchor: more lines than the replay budget begin at its newest.
ResolveBackfillAnchor(f) ==
    LET start == ResolveStartLine(f) IN
    IF TotalLines - start > Replay THEN Higher(TotalLines - Replay, FirstAvailable) ELSE start

\* What is older than anything a request at f is entitled to.
Entitled(f) ==
    Higher(Higher(FirstAvailable, TotalLines - Replay), IF f < 0 THEN TotalLines + f ELSE 0)

-----------------------------------------------------------------------------
(***************************************************************************)
(* One connection                                                          *)
(***************************************************************************)
RowEnded == run \in {"ended", "announced"}

Open ==
    /\ phase = "none" /\ ~done /\ conns < MaxConns
    /\ conns' = conns + 1
    /\ phase' = "opened"
    /\ ended' = RowEnded
    /\ UNCHANGED <<run, files, said, reading, pending, dropped, reported, term, anchor, back,
                   last, from, seen, told, done, marks>>

Subscribe ==
    /\ phase = "opened"
    /\ phase' = "subscribed"
    /\ UNCHANGED <<run, files, said, reading, sending, client, marks>>

\* ReadSidecar, with which each ReadLineRange begins; in the middle of a rotation
\* it may find the container truncated.
LoadSidecar ==
    /\ \/ phase = "subscribed" /\ phase' = "indexed"
       \/ phase = "again" /\ phase' = "reindexed"
    /\ \/ index' = meta
       \/ moving # None /\ ~missing /\ index' = NoMeta
    /\ torn' = stale
    /\ UNCHANGED <<run, files, said, misled, sending, client, marks>>

\* Misled: a reader numbered the lines of files its index is not about.
Misled ==
    /\ misled' = (misled \/ torn)
    /\ torn' = FALSE
    /\ index' = NoMeta

ReadBackfill ==
    /\ phase = "indexed"
    /\ anchor' = ResolveBackfillAnchor(from)
    /\ LET lines == ReadLineRange(from, Replay)
       IN  IF lines # <<>> /\ anchor' > Head(lines).n
           THEN phase' = "again" /\ back' = <<>>
           ELSE phase' = "sending" /\ back' = lines
    /\ Misled
    /\ floor' = Higher(floor, Entitled(from))
    /\ UNCHANGED <<run, files, said, ended, pending, dropped, reported, term, last, client,
                   overtaken, unsaid>>

\* The budget moved the anchor: the lines are read again from there.
ReadAgain ==
    /\ phase = "reindexed"
    /\ phase' = "sending"
    /\ back' = ReadLineRange(anchor, Replay)
    /\ Misled
    /\ floor' = Higher(floor, FirstAvailable)
    /\ UNCHANGED <<run, files, said, ended, pending, dropped, reported, term, anchor, last,
                   client, overtaken, unsaid>>

\* emitLine, and drainLogStream at the other end.
Emit(x) ==
    IF x.n <= last THEN UNCHANGED <<last, seen>>
    ELSE /\ last' = x.n
         /\ seen' = IF x.n < from THEN seen ELSE seen \cup {x}

Live(n) == [n |-> n, line |-> n]

SendBackfill ==
    /\ phase = "sending" /\ back # <<>>
    /\ IF Head(back).n < anchor THEN UNCHANGED <<last, seen>> ELSE Emit(Head(back))
    /\ back' = Tail(back)
    /\ UNCHANGED <<run, files, said, phase, reading, ended, pending, dropped, reported, term, anchor,
                   from, conns, told, done, marks>>

\* Broken variant: the handler's answer is not checked again.
TerminalEarly == ended
Terminal == ended \/ RowEnded

Recheck ==
    /\ phase = "sending" /\ back = <<>>
    /\ phase' = IF Terminal THEN "closing" ELSE "live"
    /\ UNCHANGED <<run, files, said, reading, sending, client, marks>>

\* handleLiveLine: a line, then a notice of what was dropped until then.
LiveLine ==
    /\ phase = "live" /\ pending # <<>>
    /\ Emit(Live(Head(pending)))
    /\ pending' = Tail(pending)
    /\ phase' = "emitted"
    /\ UNCHANGED <<run, files, said, reading, ended, dropped, reported, term, anchor, back, from,
                   conns, told, done, marks>>

Tell ==
    /\ phase = "emitted"
    /\ phase' = IF dropped = {} THEN "live" ELSE "told"
    /\ told' = told \cup dropped
    /\ reported' = dropped
    /\ UNCHANGED <<run, files, said, reading, ended, pending, dropped, term, anchor, back, last,
                   from, conns, seen, done, marks>>

\* commitSent takes off what was reported; a drop since then stays.
CommitSent ==
    /\ phase = "told"
    /\ phase' = "live"
    /\ dropped' = dropped \ reported
    /\ reported' = {}
    /\ UNCHANGED <<run, files, said, reading, ended, pending, term, anchor, back, last, client,
                   marks>>

LiveEnd ==
    /\ phase = "live" /\ term
    /\ phase' = "closing"
    /\ UNCHANGED <<run, files, said, reading, sending, client, marks>>

\* sendTerminalEvents.
Drain ==
    /\ phase = "closing" /\ pending # <<>>
    /\ Emit(Live(Head(pending)))
    /\ pending' = Tail(pending)
    /\ UNCHANGED <<run, files, said, phase, reading, ended, dropped, reported, term, anchor, back,
                   from, conns, told, done, marks>>

SendDone ==
    /\ phase = "closing" /\ pending = <<>>
    /\ phase' = "none"
    /\ told' = told \cup dropped
    /\ dropped' = {}
    /\ done' = TRUE
    /\ UNCHANGED <<run, files, said, reading, ended, pending, reported, term, anchor, back, last,
                   from, conns, seen, marks>>

\* The cursor after a connection: the next line, if it delivered any.
ResumeFrom == IF last >= 0 /\ last >= from THEN last + 1 ELSE from

\* What a connection that ends leaves behind.
Disconnect ==
    /\ phase' = "none"
    /\ from' = ResumeFrom
    /\ unsaid' = unsaid \cup {n \in dropped : n < from'}
    /\ ended' = FALSE /\ term' = FALSE
    /\ pending' = <<>> /\ dropped' = {} /\ reported' = {} /\ back' = <<>>
    /\ index' = NoMeta /\ torn' = FALSE
    /\ anchor' = 0 /\ last' = -1

\* A transport blip, or LogStreamTimeout.
Cut ==
    /\ phase # "none"
    /\ Disconnect
    /\ UNCHANGED <<run, files, said, misled, conns, seen, told, done, floor, overtaken>>

\* The daemon is killed and started again: the boot ends the run's row, and
\* the log stays as it was, in the middle of a rotation too, never closed.
Crash ==
    /\ run # "announced"
    /\ run' = "announced"
    /\ held' = [s \in Streams |-> <<>>]
    /\ talking' = [s \in Streams |-> FALSE]
    /\ \/ UNCHANGED <<log, meta, stale>>
       \/ /\ moving # None /\ ~missing
          /\ \/ Unrecorded /\ UNCHANGED log
             \/ Recorded /\ log' \in {log, <<rotated>>}
    /\ moving' = None
    /\ IF phase = "none" THEN UNCHANGED <<phase, index, torn, sending, from, unsaid>> ELSE Disconnect
    /\ UNCHANGED <<overflow, prev, rotated, prevStart, stopped, missing, matched, outputs, misled,
                   conns, seen, told, done, floor, overtaken>>

-----------------------------------------------------------------------------
Init ==
    /\ run = "running"
    /\ overflow \in Overflows
    /\ log = <<>> /\ prev = <<>> /\ meta = NoMeta
    /\ rotated = 0 /\ prevStart = 0 /\ stopped = FALSE /\ moving = None
    /\ missing = FALSE /\ stale = FALSE /\ matched = FALSE
    /\ held = [s \in Streams |-> <<>>]
    /\ talking = [s \in Streams |-> FALSE]
    /\ phase = "none" /\ ended = FALSE /\ term = FALSE
    /\ index = NoMeta /\ torn = FALSE /\ misled = FALSE
    /\ pending = <<>> /\ dropped = {} /\ reported = {} /\ back = <<>>
    /\ anchor = 0 /\ last = -1
    /\ from \in Froms
    /\ conns = 0 /\ seen = {} /\ told = {} /\ done = FALSE
    /\ outputs = {} /\ overtaken = {} /\ unsaid = {}
    /\ floor = Higher(from, 0)

Streamer ==
    \/ Subscribe \/ LoadSidecar \/ ReadBackfill \/ ReadAgain \/ SendBackfill \/ Recheck
    \/ LiveLine \/ Tell \/ CommitSent \/ LiveEnd \/ Drain \/ SendDone

Next ==
    \/ \E s \in Streams : \/ Write(s) \/ StopCapture(s) \/ Publish(s)
                         \/ Rotate(s) \/ CreateSegment(s) \/ SegmentFails(s) \/ Rewrite(s)
    \/ Close \/ EndRow \/ Announce
    \/ Open \/ Streamer \/ Cut \/ Crash

Spec == Init /\ [][Next]_vars

\* The goroutines of the daemon and the client's loop go on; connections may last.
FairSpec == Spec /\ WF_vars(Streamer) /\ WF_vars(Open)

-----------------------------------------------------------------------------
(***************************************************************************)
(* The variables keep their types.                                         *)
(***************************************************************************)
Lines == [n : Int, line : Nat]
Metas == [rotated : Nat, start : Nat, final : Nat, finalized : BOOLEAN]
TypeOK ==
    /\ run \in {"running", "closed", "ended", "announced"}
    /\ overflow \in Overflows
    /\ log \in Seq(Nat) /\ Len(log) <= SegmentLines + 3
    /\ prev \in Seq(Nat)
    /\ meta \in Metas /\ index \in Metas
    /\ rotated \in Nat /\ prevStart \in Nat /\ prevStart <= rotated
    /\ stopped \in BOOLEAN /\ moving \in Streams \cup {None}
    /\ missing \in BOOLEAN /\ stale \in BOOLEAN /\ matched \in BOOLEAN
    /\ held \in [Streams -> Seq(Nat)] /\ talking \in [Streams -> BOOLEAN]
    /\ phase \in {"none", "opened", "subscribed", "indexed", "again", "reindexed", "sending",
                  "live", "emitted", "told", "closing"}
    /\ ended \in BOOLEAN /\ term \in BOOLEAN /\ done \in BOOLEAN
    /\ torn \in BOOLEAN /\ misled \in BOOLEAN
    /\ pending \in Seq(Nat) /\ Len(pending) <= PendingLimit
    /\ dropped \subseteq Nat /\ reported \subseteq Nat /\ told \subseteq Nat
    /\ anchor \in Int /\ back \in Seq(Lines) /\ last \in Int
    /\ from \in Int /\ conns \in 0 .. MaxConns /\ seen \subseteq Lines
    /\ outputs \subseteq Nat /\ floor \in Int
    /\ overtaken \subseteq outputs /\ unsaid \subseteq Nat

(***************************************************************************)
(* Whatever line the client gets under a number, from either segment, from *)
(* the index of a run that is going on or of one that has ended, or from   *)
(* the bus, is the line the writer gave that number: ReadLineRange and the *)
(* metadata of rotateTail and Close agree.  The exception is a client that *)
(* was misled: the sidecar its connection had loaded was not about the     *)
(* files it then read, for a rotation had begun since, or had begun before *)
(* and not got its record out, be it to come, be it that it failed or that *)
(* the daemon died before.                                                 *)
(***************************************************************************)
NumbersAreStable == misled \/ \A x \in seen : x.n = x.line

\* What the client has gone past: it will not ask for it any more.
Passed(n) == done \/ n < from \/ n <= last
Shown == {x.line : x \in seen}
Excused == told \cup dropped \cup unsaid

(***************************************************************************)
(* A client that follows a run through backfill, live lines, full buffers  *)
(* and lost connections gets every line of output, unless the request does *)
(* not reach it (it was rotated away, is older than the replay budget or   *)
(* the tail asked for), a notice tells of it or will, that notice was cut  *)
(* off after the line it follows, the line was overtaken (one of the other *)
(* stream with a higher number was published first), or the client was     *)
(* misled.                                                                 *)
(***************************************************************************)
Lost(n) == n >= floor /\ Passed(n) /\ n \notin Shown \cup Excused
NoSilentGap == misled \/ \A n \in outputs : Lost(n) => n \in overtaken

(***************************************************************************)
(* The same without the excuse of being overtaken, as the comment of       *)
(* followRunLog promises it: "without repeating or losing a line".         *)
(***************************************************************************)
NoLineLost == misled \/ \A n \in outputs : ~Lost(n)

(***************************************************************************)
(* A client that follows a run to its end is told that it ended, also when *)
(* the terminal event was published between the handler's look at the run  *)
(* and the subscription.                                                   *)
(***************************************************************************)
EventuallyDone ==
    run = "announced" ~> done \/ (phase = "none" /\ conns = MaxConns)

=============================================================================
