------------------------- MODULE StationLink_proofs -------------------------
(***************************************************************************)
(* What holds of the link to the station for any executions, bounds and    *)
(* buffer, whatever fails: its types, that the tracker holds no claim      *)
(* nobody owns, how often an execution is started, and that no end of a    *)
(* run is forgotten.                                                       *)
(***************************************************************************)
EXTENDS StationLink, FiniteSetTheorems, TLAPS

LEMMA RunFacts ==
    /\ \A r \in Runs : r[1] \in Execs /\ r \in RunsOf(r[1])
    /\ \A e \in Execs : \A r \in RunsOf(e) : r \in Runs /\ r[1] = e
  BY DEF Runs, RunsOf

LEMMA ReportFacts ==
    \A e \in Execs, s \in {"running", "ended"} : Report(e, s) \in Reports
  BY DEF Report, Reports

\* QueueUpdate keeps the types of what it changes.
LEMMA QueueType ==
    ASSUME TypeOK, NEW u \in Reports, QueueUpdate(u)
    PROVE  outbound' \in Seq(Reports) /\ late' \subseteq Reports
<1>1. outbound \in Seq(Reports) /\ late \subseteq Reports
  BY DEF TypeOK
<1>2. Append(outbound, u) \in Seq(Reports)
  BY <1>1
<1> QED
  BY <1>1, <1>2 DEF QueueUpdate

\* Whoever a sequence of reports says has ended is an execution.
LEMMA EndsType ==
    ASSUME NEW s \in Seq(Reports) PROVE Ends(s) \subseteq Execs
<1> SUFFICES ASSUME NEW e \in Ends(s) PROVE e \in Execs
  OBVIOUS
<1>1. PICK i \in 1 .. Len(s) : e = s[i].exec
  BY DEF Ends
<1>2. s[i] \in Reports
  OBVIOUS
<1> QED
  BY <1>1, <1>2 DEF Reports

\* A snapshot of the running executions is a sequence of reports.
LEMMA SnapshotType ==
    ASSUME TypeOK, NEW s \in SetToSeqs({Report(e, "running") : e \in active})
    PROVE  s \in Seq(Reports)
<1> DEFINE S == {Report(e, "running") : e \in active}
<1>1. IsFiniteSet(active)
  BY StationLinkAssumption, FS_Subset DEF TypeOK
<1>2. IsFiniteSet(S)
  <2> DEFINE f == [e \in active |-> Report(e, "running")]
  <2>1. f \in Surjection(active, S)
    BY DEF Surjection
  <2> QED
    BY <1>1, <2>1, FS_Surjection
<1>3. Cardinality(S) \in Nat
  BY <1>2, FS_CardinalityType
<1>4. S \subseteq Reports
  BY ReportFacts DEF TypeOK
<1>5. s \in [1 .. Cardinality(S) -> S]
  BY DEF SetToSeqs
<1>6. s \in [1 .. Cardinality(S) -> Reports]
  BY <1>4, <1>5
<1> HIDE DEF S
<1> QED
  BY <1>3, <1>6

LEMMA ForgetType ==
    ASSUME TypeOK, NEW e \in Execs, Forget(e)
    PROVE  entries' \subseteq Execs /\ records' \subseteq Execs
  BY DEF TypeOK, Forget

LEMMA HandlingType ==
    ASSUME TypeOK, handling.at # "idle"
    PROVE  /\ handling \in [exec : Execs, at : {"lookup", "trigger", "turned_down"}]
           /\ handling.exec \in Execs
           /\ handling.exec # "none"
  BY StationLinkAssumption DEF TypeOK, Idle

\* Every variable of the link, the tracker, the runs and the archive keeps its type.
THEOREM TypeCorrect == Spec => []TypeOK
<1>1. Init => TypeOK
  <2> SUFFICES ASSUME Init PROVE TypeOK
    OBVIOUS
  <2>1. <<>> \in Seq(Reports)
    OBVIOUS
  <2>2. /\ outbound \in Seq(Reports) /\ flushing \in Seq(Reports) /\ pending \in Seq(Reports)
        /\ late \subseteq Reports
    BY <2>1 DEF Init
  <2> QED
    BY <2>2 DEF Init, TypeOK, Idle, Stages
<1>2. TypeOK /\ [Next]_vars => TypeOK'
  <2> SUFFICES ASSUME TypeOK, [Next]_vars PROVE TypeOK'
    OBVIOUS
  <2> USE StationLinkAssumption, RunFacts, ReportFacts
  <2>1. CASE UNCHANGED vars
    BY <2>1 DEF TypeOK, vars, link, tracker, runs, archive, station, Idle
  <2>2. CASE Connect
    BY <2>2 DEF TypeOK, Connect, tracker, runs, archive, station, Idle
  <2>3. CASE TakePending
    <3>1. PICK s \in SetToSeqs({Report(e, "running") : e \in active}) : flushing' = pending \o s
      BY <2>3 DEF TakePending
    <3>2. flushing' \in Seq(Reports)
      BY <3>1, SnapshotType DEF TypeOK
    <3> QED
      BY <2>3, <3>2 DEF TypeOK, TakePending, tracker, runs, archive, station, Idle
  <2>4. CASE SendFlushed
    <3>1. flushing \in Seq(Reports) /\ flushing # <<>> /\ pending \in Seq(Reports) /\ outbound \in Seq(Reports)
      BY <2>4 DEF SendFlushed, TypeOK
    <3>2. outbound' \in Seq(Reports) /\ flushing' \in Seq(Reports) /\ pending' \in Seq(Reports)
      <4>1. /\ Head(flushing) \in Reports /\ Tail(flushing) \in Seq(Reports)
            /\ <<>> \in Seq(Reports) /\ pending \o flushing \in Seq(Reports)
        BY <3>1
      <4>2. Append(outbound, Head(flushing)) \in Seq(Reports)
        BY <3>1, <4>1
      <4> QED
        BY <2>4, <3>1, <4>1, <4>2 DEF SendFlushed, Requeued
    <3> QED
      BY <2>4, <3>2 DEF TypeOK, SendFlushed, tracker, runs, archive, station, Idle
  <2>5. CASE OpenSession
    BY <2>5 DEF TypeOK, OpenSession, tracker, runs, archive, station, Idle
  <2>6. CASE WriteLoop
    <3>1. outbound \in Seq(Reports) /\ outbound # <<>>
      BY <2>6 DEF WriteLoop, TypeOK
    <3>2. Head(outbound) \in Reports /\ Tail(outbound) \in Seq(Reports)
      BY <3>1
    <3>3. knows' \in [Execs -> {"nothing", "running", "ended"}]
      BY <2>6, <3>2 DEF WriteLoop, TypeOK, Reports
    <3> QED
      BY <2>6, <3>2, <3>3 DEF TypeOK, WriteLoop, tracker, runs, archive, Idle
  <2>7. CASE EndSession
    BY <2>7 DEF TypeOK, EndSession, tracker, runs, archive, station, Idle
  <2>8. CASE Detach
    <3>1. Ends(outbound) \subseteq Execs
      BY EndsType DEF TypeOK
    <3>2. excused' \subseteq Execs
      BY <2>8, <3>1 DEF Detach, Forgotten, TypeOK
    <3> QED
      BY <2>8, <3>2 DEF TypeOK, Detach, tracker, runs, archive, station, Idle
  <2>9. CASE BufferUpdate
    <3>1. PICK u \in late : /\ late' = late \ {u}
                            /\ pending' = Buffered(u)
                            /\ Forgotten(Ends(pending) \ Ends(pending'))
      BY <2>9 DEF BufferUpdate
    <3>2. u \in Reports /\ pending \in Seq(Reports)
      BY DEF TypeOK
    <3>3. pending' \in Seq(Reports)
      <4>1. CASE Len(pending) >= PendingLimit
        <5>1. pending # <<>>
          BY <3>2, <4>1
        <5> QED
          BY <3>1, <3>2, <4>1, <5>1 DEF Buffered
      <4>2. CASE ~(Len(pending) >= PendingLimit)
        BY <3>1, <3>2, <4>2 DEF Buffered
      <4> QED
        BY <4>1, <4>2
    <3>4. Ends(pending) \subseteq Execs
      BY <3>2, EndsType
    <3>5. excused' \subseteq Execs
      BY <3>1, <3>4 DEF Forgotten, TypeOK
    <3> QED
      BY <2>9, <3>1, <3>3, <3>5 DEF TypeOK, BufferUpdate, tracker, runs, archive, station, Idle
  <2>10. CASE \E e \in Execs : Dispatch(e)
    BY <2>10 DEF TypeOK, Dispatch, link, runs, archive, tracker, Idle
  <2>11. CASE FoundRun
    <3>1. handling.exec \in Execs
      BY <2>11, HandlingType DEF FoundRun
    <3>2. outbound' \in Seq(Reports) /\ late' \subseteq Reports /\ excused' \subseteq Execs
      BY <2>11, <3>1, QueueType DEF FoundRun, TypeOK
    <3> QED
      BY <2>11, <3>1, <3>2 DEF TypeOK, FoundRun, Released, runs, archive, station, Idle
  <2>12. CASE Accept
    <3>1. handling \in [exec : Execs, at : {"lookup", "trigger", "turned_down"}]
      BY <2>12, HandlingType DEF Accept
    <3>2. handling' \in [exec : Execs, at : {"lookup", "trigger", "turned_down"}]
      BY <2>12, <3>1 DEF Accept
    <3>3. records' \subseteq Execs /\ entries' \subseteq Execs
      BY <2>12, <3>1 DEF Accept, TypeOK
    <3>4. misread' \in [Execs -> Nat]
      <4>1. handling.exec \in Execs /\ misread \in [Execs -> Nat]
        BY <3>1 DEF TypeOK
      <4>2. Missed(handling.exec) \in Nat
        BY DEF Missed
      <4>3. misread' = [misread EXCEPT ![handling.exec] = @ + Missed(handling.exec)]
        BY <2>12 DEF Accept
      <4> QED
        BY <4>1, <4>2, <4>3
    <3>5. UNCHANGED <<link, reserved, active, runs, final, logs, knows, asked, restarts, excused>>
      BY <2>12 DEF Accept
    <3> QED
      BY <3>2, <3>3, <3>4, <3>5 DEF TypeOK, link, runs, Idle
  <2>13. CASE Trigger
    BY <2>13, HandlingType DEF TypeOK, Trigger, Create, link, archive, station, Idle, Stages
  <2>14. CASE TurnDown
    <3>1. handling \in [exec : Execs, at : {"lookup", "trigger", "turned_down"}]
      BY <2>14, HandlingType DEF TurnDown
    <3>2. handling' \in [exec : Execs, at : {"lookup", "trigger", "turned_down"}]
      BY <2>14, <3>1 DEF TurnDown
    <3>3. run' \in [Runs -> Stages] /\ UNCHANGED <<row, launches>>
      <4>1. PICK r \in RunsOf(handling.exec) : Create(r, "ended")
        BY <2>14 DEF TurnDown
      <4>2. run \in [Runs -> Stages] /\ run' = [run EXCEPT ![r] = "ended"]
        BY <4>1 DEF TypeOK, Create
      <4>3. run' \in [Runs -> Stages]
        BY <4>2 DEF Stages
      <4> QED
        BY <4>1, <4>3 DEF Create
    <3> QED
      BY <2>14, <3>2, <3>3 DEF TypeOK, TurnDown, link, archive, station, Idle
  <2>15. CASE Refuse
    <3>1. handling.exec \in Execs
      BY <2>15, HandlingType DEF Refuse
    <3>2. outbound' \in Seq(Reports) /\ late' \subseteq Reports
      BY <2>15, <3>1, QueueType DEF Refuse
    <3>3. entries' \subseteq Execs /\ records' \subseteq Execs
      BY <2>15, <3>1, ForgetType DEF Refuse
    <3> QED
      BY <2>15, <3>1, <3>2, <3>3 DEF TypeOK, Refuse, runs, station, Idle
  <2>16. ASSUME NEW r \in Runs, Persist(r) PROVE TypeOK'
    <3>1. row' \in [Runs -> {"none", "pending", "running", "ended"}]
      BY <2>16 DEF TypeOK, Persist
    <3>2. UNCHANGED <<link, tracker, run, launches, archive, station, restarts, excused>>
      BY <2>16 DEF Persist
    <3> QED
      BY <3>1, <3>2 DEF TypeOK, link, tracker, archive, station
  <2>17. ASSUME NEW r \in Runs, Start(r) PROVE TypeOK'
    BY <2>17 DEF TypeOK, Start, link, tracker, archive, station, Idle, Stages
  <2>18. ASSUME NEW r \in Runs, Launch(r) PROVE TypeOK'
    <3>1. outbound' \in Seq(Reports) /\ late' \subseteq Reports /\ active' \subseteq Execs
      BY <2>18, QueueType DEF Launch, TypeOK
    <3>2. launches' \in [Execs -> Nat]
      BY <2>18 DEF Launch, TypeOK
    <3> QED
      BY <2>18, <3>1, <3>2 DEF TypeOK, Launch, station, Idle, Stages
  <2>19. ASSUME NEW r \in Runs, End(r) PROVE TypeOK'
    BY <2>19 DEF TypeOK, End, link, tracker, archive, station, Idle, Stages
  <2>20. ASSUME NEW r \in Runs, AnnounceEnd(r) PROVE TypeOK'
    <3>1. /\ active' \subseteq Execs /\ reserved' \subseteq Execs
          /\ final' \in [Runs -> {"none", "report", "archive", "attach"}]
      <4>1. /\ active \subseteq Execs /\ reserved \subseteq Execs
            /\ final \in [Runs -> {"none", "report", "archive", "attach"}]
        BY DEF TypeOK
      <4>2. \/ /\ active' = active \ {r[1]} /\ reserved' = reserved \ {r[1]}
               /\ final' = [final EXCEPT ![r] = "report"]
            \/ active' = active /\ reserved' = reserved /\ final' = final
        BY <2>20 DEF AnnounceEnd
      <4> QED
        BY <4>1, <4>2
    <3>2. excused' \subseteq Execs
      <4>1. r[1] \in Execs /\ excused \subseteq Execs
        BY DEF TypeOK
      <4>2. excused' = excused \/ excused' = excused \cup ({r[1]} \ records)
        BY <2>20 DEF AnnounceEnd, Forgotten
      <4> QED
        BY <4>1, <4>2
    <3> QED
      BY <2>20, <3>1, <3>2 DEF TypeOK, AnnounceEnd, link, station, Idle, Stages
  <2>21. ASSUME NEW r \in Runs, ReportEnd(r) PROVE TypeOK'
    <3>1. outbound' \in Seq(Reports) /\ late' \subseteq Reports
      BY <2>21, QueueType DEF ReportEnd
    <3> QED
      BY <2>21, <3>1 DEF TypeOK, ReportEnd, tracker, runs, station, Idle
  <2>22. ASSUME NEW r \in Runs, Archive(r) PROVE TypeOK'
    <3>1. entries' \subseteq Execs /\ records' \subseteq Execs
      BY <2>22, ForgetType DEF Archive, TypeOK
    <3>2. final' \in [Runs -> {"none", "report", "archive", "attach"}]
      <4>1. final \in [Runs -> {"none", "report", "archive", "attach"}]
        BY DEF TypeOK
      <4>2. final' = [final EXCEPT ![r] = "attach"] \/ final' = [final EXCEPT ![r] = "none"]
        BY <2>22, Zenon DEF Archive
      <4> QED
        BY <4>1, <4>2
    <3>3. logs' \subseteq Runs /\ excused' \subseteq Execs
      <4>1. logs \subseteq Runs /\ excused \subseteq Execs /\ entries \subseteq Execs
        BY DEF TypeOK
      <4>2. /\ logs' = logs \/ logs' = logs \ {r}
            /\ excused' = excused \/ (r[1] \in entries /\ excused' = excused \cup {r[1]})
        BY <2>22 DEF Archive
      <4> QED
        BY <4>1, <4>2
    <3>4. entries' \subseteq Execs /\ records' \subseteq Execs
      BY <2>22, <3>1 DEF TypeOK, Archive
    <3> QED
      BY <2>22, <3>2, <3>3, <3>4 DEF TypeOK, Archive, link, tracker, runs, station, Idle
  <2>23. ASSUME NEW r \in Runs, Attach(r) PROVE TypeOK'
    <3>1. outbound' \in Seq(Reports) /\ late' \subseteq Reports
      BY <2>23, QueueType DEF Attach
    <3> QED
      BY <2>23, <3>1 DEF TypeOK, Attach, tracker, runs, station, Idle
  <2>24. ASSUME NEW e \in Execs, RecoverOne(e) PROVE TypeOK'
    <3>1. entries' \subseteq Execs /\ records' \subseteq Execs
      BY <2>24, ForgetType DEF RecoverOne, TypeOK
    <3>2. late' \subseteq Reports /\ logs' \subseteq Runs /\ excused' \subseteq Execs
      BY <2>24 DEF RecoverOne, ReportRecovered, TypeOK, Reports, Report
    <3> QED
      BY <2>24, <3>1, <3>2 DEF TypeOK, RecoverOne, tracker, runs, station, Idle
  <2>25. CASE Listen
    BY <2>25 DEF TypeOK, Listen, tracker, runs, archive, station, Idle
  <2>26. CASE BeginStop
    BY <2>26 DEF TypeOK, BeginStop, tracker, runs, archive, station, Idle
  <2>27. CASE Stopped
    BY <2>27 DEF TypeOK, Stopped, tracker, runs, archive, station, Idle
  <2>28. CASE Restart
    <3>1. row' \in [Runs -> {"none", "pending", "running", "ended"}]
      BY <2>28 DEF Restart, TypeOK
    <3>2. run' \in [Runs -> Stages]
      BY <2>28 DEF Restart, Stages
    <3>3. excused' \subseteq Execs /\ restarts' \in Nat
      BY <2>28 DEF Restart, TypeOK
    <3>4. final' \in [Runs -> {"none", "report", "archive", "attach"}]
      BY <2>28 DEF Restart
    <3> QED
      BY <2>28, <3>1, <3>2, <3>3, <3>4 DEF TypeOK, Restart, station, Idle
  <2> QED
    BY <2>1, <2>2, <2>3, <2>4, <2>5, <2>6, <2>7, <2>8, <2>9, <2>10, <2>11, <2>12, <2>13, <2>14,
       <2>15, <2>16, <2>17, <2>18, <2>19, <2>20, <2>21, <2>22, <2>23, <2>24, <2>25, <2>26,
       <2>27, <2>28 DEF Next
<1> QED
  BY <1>1, <1>2, PTL DEF Spec

-----------------------------------------------------------------------------
(***************************************************************************)
(* Claims have owners.  ReservationOwned is not inductive: a dispatch that *)
(* gives its claim up must not have been the only owner of a running one,  *)
(* and nothing is claimed before the bridge listens.                       *)
(***************************************************************************)
Alive(e) == \E r \in RunsOf(e) : run[r] \notin {"none", "over"}

Owned ==
    /\ client = "recovering" =>
          phase = "none" /\ handling = Idle /\ reserved = {} /\ active = {}
    /\ client = "running" =>
          /\ \A e \in active : Alive(e)
          /\ \A e \in reserved : handling.exec = e \/ Alive(e)

\* A run that takes a step and is not over keeps every claim owned.
LEMMA StaysAlive ==
    ASSUME TypeOK, NEW r \in Runs, NEW stage \in Stages \ {"none", "over"},
           run' = [run EXCEPT ![r] = stage]
    PROVE  Alive(r[1])' /\ \A e \in Execs : Alive(e) => Alive(e)'
<1>1. run' \in [Runs -> Stages] /\ run'[r] = stage /\ \A q \in Runs \ {r} : run'[q] = run[q]
  BY DEF TypeOK
<1>2. Alive(r[1])'
  BY <1>1, RunFacts DEF Alive
<1>3. ASSUME NEW e \in Execs, Alive(e) PROVE Alive(e)'
  <2>1. PICK q \in RunsOf(e) : run[q] \notin {"none", "over"}
    BY <1>3 DEF Alive
  <2>2. q \in Runs /\ run'[q] \notin {"none", "over"}
    BY <1>1, <2>1, RunFacts
  <2> QED
    BY <2>1, <2>2 DEF Alive
<1> QED
  BY <1>2, <1>3

LEMMA OwnedInit == Init => Owned
  BY DEF Init, Owned

LEMMA OwnedStep == TypeOK /\ Owned /\ [Next]_vars => Owned'
<1> SUFFICES ASSUME TypeOK, Owned, [Next]_vars PROVE Owned'
  OBVIOUS
<1> USE RunFacts
<1>1. CASE UNCHANGED vars
  BY <1>1 DEF Owned, Alive, vars, link, tracker, runs
<1>2. CASE Connect \/ TakePending \/ SendFlushed \/ OpenSession \/ WriteLoop \/ EndSession
  <2>1. UNCHANGED <<client, reserved, active, handling, run>>
    BY <1>2 DEF Connect, TakePending, SendFlushed, OpenSession, WriteLoop, EndSession, tracker, runs
  <2>2. client # "recovering"
    BY <1>2 DEF Owned, Connect, TakePending, SendFlushed, OpenSession, WriteLoop, EndSession
  <2> QED
    BY <2>1, <2>2 DEF Owned, Alive
<1>3. CASE Detach \/ BufferUpdate
  <2>1. UNCHANGED <<client, reserved, active, handling, run>> /\ (phase' = phase \/ phase' = "none")
    BY <1>3 DEF Detach, BufferUpdate, tracker, runs
  <2> QED
    BY <2>1 DEF Owned, Alive
<1>4. CASE \E e \in Execs : Dispatch(e)
  <2>1. client # "recovering" /\ client' = client /\ active' = active /\ run' = run /\ handling = Idle
    BY <1>4 DEF Owned, Dispatch, link, runs, tracker
  <2>2. PICK e \in Execs : \/ reserved' = reserved /\ handling' = handling
                           \/ reserved' = reserved \cup {e} /\ handling'.exec = e
    BY <1>4 DEF Dispatch, tracker
  <2>3. client = "running" => \A d \in reserved : Alive(d)
    BY <2>1, StationLinkAssumption DEF Owned, Idle, TypeOK
  <2> QED
    BY <2>1, <2>2, <2>3 DEF Owned, Alive
<1>5. CASE FoundRun \/ Refuse
  <2>1. /\ client # "recovering" /\ client' = client /\ active' = active /\ run' = run
        /\ reserved' = reserved \ {handling.exec}
    BY <1>5 DEF Owned, Idle, FoundRun, Refuse, Released, runs
  <2> QED
    BY <2>1 DEF Owned, Alive
<1>6. CASE Accept
  <2>1. /\ client # "recovering" /\ client' = client /\ active' = active /\ run' = run
        /\ reserved' = reserved
    BY <1>6 DEF Owned, Idle, Accept, link, runs
  <2>2. handling'.exec = handling.exec
    BY <1>6, HandlingType DEF Accept
  <2> QED
    BY <2>1, <2>2 DEF Owned, Alive
<1>7. CASE Trigger \/ TurnDown
  <2>1. client # "recovering" /\ client' = client /\ active' = active /\ reserved' = reserved
    BY <1>7 DEF Owned, Idle, Trigger, TurnDown, link
  <2>2. PICK r \in RunsOf(handling.exec) : Create(r, "created") \/ Create(r, "ended")
    BY <1>7 DEF Trigger, TurnDown
  <2>3. handling.exec \in Execs /\ r \in Runs /\ r[1] = handling.exec
    BY <1>7, HandlingType DEF Trigger, TurnDown
  <2>4. PICK stage \in {"created", "ended"} : run' = [run EXCEPT ![r] = stage]
    BY <2>2 DEF Create
  <2>5. Alive(r[1])' /\ \A e \in Execs : Alive(e) => Alive(e)'
    BY <2>3, <2>4, StaysAlive DEF Stages
  <2>6. reserved \subseteq Execs /\ active \subseteq Execs
    BY DEF TypeOK
  <2> QED
    BY <2>1, <2>3, <2>5, <2>6 DEF Owned
<1>8. ASSUME NEW r \in Runs, Persist(r) \/ ReportEnd(r) \/ Archive(r) \/ Attach(r) PROVE Owned'
  <2>1. UNCHANGED <<client, phase, reserved, active, handling, run>>
    BY <1>8 DEF Persist, ReportEnd, Archive, Attach, link, tracker, runs
  <2> QED
    BY <2>1 DEF Owned, Alive
<1>9. ASSUME NEW r \in Runs, Start(r) \/ End(r) PROVE Owned'
  <2>1. UNCHANGED <<client, phase, reserved, active, handling>>
    BY <1>9 DEF Start, End, link, tracker
  <2>2. \A e \in Execs : Alive(e) => Alive(e)'
    <3>1. PICK stage \in {"started", "ended"} : run' = [run EXCEPT ![r] = stage]
      BY <1>9 DEF Start, End
    <3> QED
      BY <3>1, StaysAlive DEF Stages
  <2> QED
    BY <2>1, <2>2 DEF Owned, TypeOK
<1>10. ASSUME NEW r \in Runs, Launch(r) PROVE Owned'
  <2>1. /\ UNCHANGED <<client, phase, reserved, handling>>
        /\ active' = active \/ (client # "recovering" /\ active' = active \cup {r[1]})
    BY <1>10 DEF Launch, Hears
  <2>2. Alive(r[1])' /\ \A e \in Execs : Alive(e) => Alive(e)'
    BY <1>10 DEF Launch, Alive, TypeOK
  <2> QED
    BY <2>1, <2>2 DEF Owned, TypeOK
<1>11. ASSUME NEW r \in Runs, AnnounceEnd(r) PROVE Owned'
  <2>1. UNCHANGED <<client, phase, handling>>
    BY <1>11 DEF AnnounceEnd, link
  <2>2. \/ active' = active /\ reserved' = reserved /\ client # "running"
        \/ active' = active \ {r[1]} /\ reserved' = reserved \ {r[1]}
    BY <1>11 DEF AnnounceEnd, Hears
  <2>3. \A e \in Execs \ {r[1]} : Alive(e) => Alive(e)'
    BY <1>11 DEF AnnounceEnd, Alive, TypeOK
  <2> QED
    BY <2>1, <2>2, <2>3 DEF Owned, TypeOK
<1>12. ASSUME NEW e \in Execs, RecoverOne(e) PROVE Owned'
  <2>1. UNCHANGED <<client, phase, reserved, active, handling, run>>
    BY <1>12 DEF RecoverOne, tracker, runs
  <2> QED
    BY <2>1 DEF Owned, Alive
<1>13. CASE Listen \/ BeginStop \/ Stopped
  BY <1>13 DEF Owned, Listen, BeginStop, Stopped, tracker
<1>14. CASE Restart
  BY <1>14 DEF Owned, Restart
<1> QED
  BY <1>1, <1>2, <1>3, <1>4, <1>5, <1>6, <1>7, <1>8, <1>9, <1>10, <1>11, <1>12, <1>13, <1>14
     DEF Next

\* While the bridge listens, every execution the tracker holds has a dispatch in
\* progress or a run that is not over, whatever fails.
THEOREM ClaimsOwned == Spec => []ReservationOwned
<1>1. Owned => ReservationOwned
  BY DEF Owned, ReservationOwned, Alive
<1> QED
  BY <1>1, OwnedInit, OwnedStep, TypeCorrect, PTL DEF Spec

-----------------------------------------------------------------------------
(***************************************************************************)
(* An execution is started once, and once more for each look-up that       *)
(* overlooked a row.  The row of a run is written late, so the look-up     *)
(* alone does not stop a duplicate: as long as an execution has no row,    *)
(* its reservation does, and a dispatch that passed both finds no run of   *)
(* it.  From then on each launch has a credit of its own: it is counted    *)
(* while a dispatch may still trigger, and while a run may still start.    *)
(***************************************************************************)
RowFollows ==
    \A r \in Runs :
        /\ run[r] = "none" => row[r] = "none"
        /\ run[r] = "created" => row[r] \in {"none", "pending"}
        /\ run[r] \in {"started", "running"} => row[r] = "running"
        /\ run[r] = "over" => row[r] = "ended"

Fresh(e) == \A r \in RunsOf(e) : row[r] = "none"
HasRun(e) == \E r \in RunsOf(e) : run[r] # "none"
Deciding(e) == handling.exec = e /\ handling.at \in {"lookup", "trigger"}

Guarded ==
    \A e \in Execs : Fresh(e) =>
        /\ HasRun(e) \/ Deciding(e) => e \in reserved
        /\ ~(HasRun(e) /\ Deciding(e))
        /\ launches[e] = 0

\* Runs of an execution that are to be launched, or may be after a restart.
Spare(e) == {r \in RunsOf(e) : \/ run[r] = "started"
                               \/ run[r] # "none" /\ row[r] \in {"none", "pending"}}
Triggering(e) == IF handling.exec = e /\ handling.at = "trigger" THEN 1 ELSE 0
Credit(e) == launches[e] + Cardinality(Spare(e)) + Triggering(e) <= 1 + misread[e]

Once == RowFollows /\ Guarded /\ \A e \in Execs : Credit(e)

LEMMA SpareFinite ==
    ASSUME NEW e \in Execs
    PROVE  /\ IsFiniteSet(RunsOf(e)) /\ IsFiniteSet(Spare(e))
           /\ Cardinality(Spare(e)) \in Nat
<1>1. IsFiniteSet(1 .. MaxRuns)
  BY StationLinkAssumption, FS_Interval
<1>2. IsFiniteSet(RunsOf(e))
  <2> DEFINE f == [i \in 1 .. MaxRuns |-> <<e, i>>]
  <2>1. \A r \in RunsOf(e) : \E i \in 1 .. MaxRuns : f[i] = r
    BY DEF RunsOf, Runs
  <2>2. \A i \in 1 .. MaxRuns : f[i] \in RunsOf(e)
    BY DEF RunsOf, Runs
  <2>3. f \in Surjection(1 .. MaxRuns, RunsOf(e))
    BY <2>1, <2>2 DEF Surjection
  <2> QED
    BY <1>1, <2>3, FS_Surjection
<1>3. IsFiniteSet(Spare(e))
  BY <1>2, FS_Subset DEF Spare
<1> QED
  BY <1>2, <1>3, FS_CardinalityType

\* What a step leaves alone or takes away costs an execution no credit.
LEMMA CreditKept ==
    ASSUME TypeOK, NEW e \in Execs, Credit(e), Spare(e)' \subseteq Spare(e),
           launches'[e] = launches[e], misread'[e] = misread[e],
           Triggering(e)' = 1 => Triggering(e) = 1
    PROVE  Credit(e)'
<1>1. Cardinality(Spare(e)') <= Cardinality(Spare(e)) /\ Cardinality(Spare(e)') \in Nat
  BY SpareFinite, FS_Subset, FS_CardinalityType
<1>2. launches[e] \in Nat /\ misread[e] \in Nat /\ Triggering(e) \in {0, 1} /\ Triggering(e)' \in {0, 1}
  BY DEF TypeOK, Triggering
<1>3. launches'[e] + Cardinality(Spare(e)') + Triggering(e)' <= 1 + misread'[e]
  BY <1>1, <1>2, SpareFinite DEF Credit
<1> QED
  BY <1>3 DEF Credit

LEMMA OnceInit == Init => Once
<1> SUFFICES ASSUME Init PROVE Once
  OBVIOUS
<1> USE RunFacts
<1>1. RowFollows
  BY DEF Init, RowFollows
<1>2. Guarded
  BY DEF Init, Guarded, HasRun, Deciding, Idle
<1>3. ASSUME NEW e \in Execs PROVE Credit(e)
  <2>1. Spare(e) = {} /\ Triggering(e) = 0 /\ launches[e] = 0 /\ misread[e] = 0
    BY DEF Init, Spare, Triggering, Idle
  <2>2. Cardinality(Spare(e)) = 0
    BY <2>1, FS_EmptySet
  <2> QED
    BY <2>1, <2>2 DEF Credit
<1> QED
  BY <1>1, <1>2, <1>3 DEF Once

\* A step that touches no run and no dispatch.
LEMMA OnceKept ==
    ASSUME Once, UNCHANGED <<run, row, launches, misread, reserved, handling>>
    PROVE  Once'
  BY DEF Once, RowFollows, Guarded, Fresh, HasRun, Deciding, Credit, Spare, Triggering

\* A step of one run that exists, with its row; the claim may end with a row that is there.
LEMMA OnceRunStep ==
    ASSUME TypeOK, Once, NEW r \in Runs, run[r] # "none",
           NEW stage \in Stages \ {"none"},
           NEW state \in {"none", "pending", "running", "ended"},
           run' = [run EXCEPT ![r] = stage], row' = [row EXCEPT ![r] = state],
           UNCHANGED <<launches, misread, handling>>,
           reserved' = reserved \/ (reserved' = reserved \ {r[1]} /\ state # "none"),
           row[r] # "none" => state # "none",
           stage = "created" => state \in {"none", "pending"},
           stage \in {"started", "running"} => state = "running",
           stage = "over" => state = "ended",
           stage = "started" \/ state \in {"none", "pending"} =>
               run[r] = "started" \/ row[r] \in {"none", "pending"}
    PROVE  Once'
<1> USE RunFacts
<1>1. /\ run'[r] = stage /\ \A q \in Runs \ {r} : run'[q] = run[q]
      /\ row'[r] = state /\ \A q \in Runs \ {r} : row'[q] = row[q]
  BY DEF TypeOK
<1>2. RowFollows'
  BY <1>1 DEF Once, RowFollows
<1>3. Guarded'
  <2> SUFFICES ASSUME NEW e \in Execs, Fresh(e)'
               PROVE  /\ HasRun(e)' \/ Deciding(e)' => e \in reserved'
                      /\ ~(HasRun(e)' /\ Deciding(e)')
                      /\ launches'[e] = 0
    BY DEF Guarded
  <2>1. Fresh(e)
    BY <1>1 DEF Fresh
  <2>2. (HasRun(e)' => HasRun(e)) /\ (Deciding(e)' <=> Deciding(e))
    BY <1>1 DEF HasRun, Deciding
  <2>3. e \in reserved => e \in reserved'
    BY <1>1 DEF Fresh
  <2> QED
    BY <2>1, <2>2, <2>3 DEF Once, Guarded
<1>4. ASSUME NEW e \in Execs PROVE Credit(e)'
  <2>1. Spare(e)' \subseteq Spare(e)
    BY <1>1 DEF Spare
  <2> QED
    BY <2>1, CreditKept DEF Once, Triggering
<1> QED
  BY <1>2, <1>3, <1>4 DEF Once

\* A run that is created uses the credit of its dispatch.
LEMMA OnceCreate ==
    ASSUME TypeOK, Once, handling.at = "trigger", UNCHANGED <<reserved, misread>>,
           NEW stage \in {"created", "ended"}, NEW r \in RunsOf(handling.exec), Create(r, stage),
           handling'.at \notin {"lookup", "trigger"}
    PROVE  Once'
<1> USE RunFacts
<1>1. handling.exec \in Execs /\ r \in Runs /\ r[1] = handling.exec /\ Deciding(r[1])
  BY HandlingType DEF Deciding
<1>2. /\ run'[r] = stage /\ \A q \in Runs \ {r} : run'[q] = run[q]
      /\ row' = row /\ row[r] = "none" /\ run[r] = "none" /\ launches' = launches
  BY <1>1 DEF TypeOK, Create
<1>3. RowFollows'
  BY <1>2 DEF Once, RowFollows
<1>4. Guarded'
  <2> SUFFICES ASSUME NEW e \in Execs, Fresh(e)'
               PROVE  (HasRun(e)' => e \in reserved') /\ ~Deciding(e)' /\ launches'[e] = 0
    BY DEF Guarded
  <2>1. Fresh(e) /\ ~Deciding(e)'
    BY <1>2 DEF Fresh, Deciding
  <2>2. CASE e = r[1]
    BY <1>1, <1>2, <2>1, <2>2 DEF Once, Guarded
  <2>3. CASE e # r[1]
    <3>1. HasRun(e)' => HasRun(e)
      BY <1>2, <2>3 DEF HasRun
    <3> QED
      BY <1>2, <2>1, <3>1 DEF Once, Guarded
  <2> QED
    BY <2>2, <2>3
<1>5. ASSUME NEW e \in Execs PROVE Credit(e)'
  <2>0. Triggering(e)' = 0
    BY DEF Triggering
  <2>1. CASE e # r[1]
    <3>1. Spare(e)' \subseteq Spare(e)
      BY <1>1, <1>2, <2>1 DEF Spare
    <3> QED
      BY <1>2, <2>0, <3>1, CreditKept DEF Once
  <2>2. CASE e = r[1]
    <3>1. Spare(e)' = Spare(e) \cup {r} /\ r \notin Spare(e)
      BY <1>1, <1>2, <2>2 DEF Spare
    <3>2. Cardinality(Spare(e)') = Cardinality(Spare(e)) + 1
      <4>1. IsFiniteSet(Spare(e))
        BY SpareFinite
      <4> QED
        BY <3>1, <4>1, FS_AddElement, Zenon
    <3>3. Triggering(e) = 1 /\ Credit(e)
      BY <1>1, <2>2 DEF Triggering, Once
    <3>4. launches'[e] = launches[e] /\ misread'[e] = misread[e] /\ launches[e] \in Nat /\ misread[e] \in Nat
      BY <1>2 DEF TypeOK
    <3>5. launches'[e] + Cardinality(Spare(e)') + Triggering(e)' <= 1 + misread'[e]
      BY <2>0, <3>2, <3>3, <3>4, SpareFinite DEF Credit
    <3> QED
      BY <3>5 DEF Credit
  <2> QED
    BY <2>1, <2>2
<1> QED
  BY <1>3, <1>4, <1>5 DEF Once

\* The handler gives its reservation up: a row is there, or no run of the execution is.
LEMMA OnceReleased ==
    ASSUME TypeOK, Once, NEW e \in Execs, UNCHANGED <<run, row, launches, misread>>,
           reserved' = reserved \ {e}, handling' = Idle, ~Fresh(e) \/ ~HasRun(e)
    PROVE  Once'
<1>1. \A d \in Execs : (Fresh(d)' <=> Fresh(d)) /\ (HasRun(d)' <=> HasRun(d)) /\ ~Deciding(d)'
  BY DEF Fresh, HasRun, Deciding, Idle
<1>2. Guarded'
  BY <1>1 DEF Once, Guarded
<1>3. ASSUME NEW d \in Execs PROVE Credit(d)'
  <2>1. Spare(d)' = Spare(d) /\ Triggering(d)' = 0
    BY DEF Spare, Triggering, Idle
  <2> QED
    BY <2>1, CreditKept DEF Once
<1> QED
  BY <1>2, <1>3 DEF Once, RowFollows

\* A run that is launched uses its own credit.
LEMMA OnceLaunch == ASSUME TypeOK, Once, NEW r \in Runs, Launch(r) PROVE Once'
<1> USE RunFacts
<1>1. /\ run[r] = "started" /\ row' = row /\ reserved' = reserved /\ handling' = handling
      /\ misread' = misread
      /\ run'[r] = "running" /\ \A q \in Runs \ {r} : run'[q] = run[q]
      /\ launches'[r[1]] = launches[r[1]] + 1
      /\ \A e \in Execs \ {r[1]} : launches'[e] = launches[e]
  BY DEF TypeOK, Launch, station
<1>2. row[r] = "running" /\ ~Fresh(r[1]) /\ \A q \in Runs : run'[q] = "none" <=> run[q] = "none"
  BY <1>1 DEF Once, RowFollows, Fresh
<1>3. RowFollows'
  BY <1>1, <1>2 DEF Once, RowFollows
<1>4. Guarded'
  <2>1. \A e \in Execs : (Fresh(e)' <=> Fresh(e)) /\ (HasRun(e)' <=> HasRun(e)) /\ (Deciding(e)' <=> Deciding(e))
    BY <1>1, <1>2 DEF Fresh, HasRun, Deciding
  <2> QED
    BY <1>1, <1>2, <2>1 DEF Once, Guarded
<1>5. ASSUME NEW e \in Execs PROVE Credit(e)'
  <2>1. Triggering(e)' = Triggering(e)
    BY <1>1 DEF Triggering
  <2>2. CASE e # r[1]
    <3>1. Spare(e)' \subseteq Spare(e)
      BY <1>1, <2>2 DEF Spare
    <3> QED
      BY <1>1, <2>1, <2>2, <3>1, CreditKept DEF Once
  <2>3. CASE e = r[1]
    <3>1. Spare(e)' = Spare(e) \ {r} /\ r \in Spare(e)
      BY <1>1, <1>2, <2>3 DEF Spare
    <3>2. Cardinality(Spare(e)') = Cardinality(Spare(e)) - 1
      BY <3>1, SpareFinite, FS_RemoveElement
    <3>3. Credit(e) /\ Triggering(e) \in {0, 1}
      BY DEF Once, Triggering
    <3>4. misread'[e] = misread[e] /\ launches[e] \in Nat /\ misread[e] \in Nat
      BY <1>1 DEF TypeOK
    <3>5. launches'[e] + Cardinality(Spare(e)') + Triggering(e)' <= 1 + misread'[e]
      BY <1>1, <2>1, <2>3, <3>2, <3>3, <3>4, SpareFinite DEF Credit
    <3> QED
      BY <3>5 DEF Credit
  <2> QED
    BY <2>2, <2>3
<1> QED
  BY <1>3, <1>4, <1>5 DEF Once

\* A look-up that overlooks a row gives a credit; one that overlooks nothing finds
\* that nothing of its execution was ever used.
LEMMA OnceAccept == ASSUME TypeOK, Once, Accept PROVE Once'
<1> USE RunFacts
<1>1. PICK e \in Execs : e = handling.exec
  BY HandlingType DEF Accept
<1>2. /\ handling.at = "lookup" /\ handling'.at = "trigger" /\ handling'.exec = e
      /\ UNCHANGED <<run, row, launches, reserved>>
      /\ misread'[e] = misread[e] + Missed(e) /\ \A d \in Execs \ {e} : misread'[d] = misread[d]
  BY <1>1, HandlingType DEF Accept, runs, TypeOK
<1>3. \A d \in Execs : /\ (Fresh(d)' <=> Fresh(d)) /\ (HasRun(d)' <=> HasRun(d))
                       /\ (Deciding(d)' <=> Deciding(d)) /\ Spare(d)' = Spare(d)
  BY <1>1, <1>2 DEF Fresh, HasRun, Deciding, Spare
<1>4. Guarded'
  BY <1>2, <1>3 DEF Once, Guarded
<1>5. ASSUME NEW d \in Execs PROVE Credit(d)'
  <2>1. CASE d # e
    <3>1. Triggering(d)' = 0
      BY <1>2, <2>1 DEF Triggering
    <3> QED
      BY <1>2, <1>3, <2>1, <3>1, CreditKept DEF Once
  <2>2. CASE d = e /\ Fresh(e)
    <3>1. Deciding(e) /\ ~HasRun(e) /\ launches[e] = 0
      BY <1>1, <1>2, <2>2 DEF Once, Guarded, Deciding
    <3>2. Spare(e)' = {} /\ Cardinality(Spare(e)') = 0
      <4>1. Spare(e) = {}
        BY <3>1 DEF Spare, HasRun, Once, RowFollows
      <4>2. Spare(e)' = {}
        BY <1>3, <4>1
      <4> QED
        BY <4>2, FS_EmptySet, Zenon
    <3>3. Triggering(e)' = 1 /\ Missed(e) = 0 /\ misread[e] \in Nat
      BY <1>2, <2>2 DEF Triggering, Missed, Fresh, TypeOK
    <3>4. launches'[e] + Cardinality(Spare(e)') + Triggering(e)' <= 1 + misread'[e]
      BY <1>2, <3>1, <3>2, <3>3
    <3> QED
      BY <2>2, <3>4 DEF Credit
  <2>3. CASE d = e /\ ~Fresh(e)
    <3>1. Triggering(e) = 0 /\ Triggering(e)' = 1 /\ Missed(e) = 1
      BY <1>2, <2>3 DEF Triggering, Missed, Fresh
    <3>2. Credit(e) /\ misread[e] \in Nat /\ launches[e] \in Nat
      BY DEF Once, TypeOK
    <3>3. launches'[e] + Cardinality(Spare(e)') + Triggering(e)' <= 1 + misread'[e]
      BY <1>2, <1>3, <3>1, <3>2, SpareFinite DEF Credit
    <3> QED
      BY <2>3, <3>3 DEF Credit
  <2> QED
    BY <2>1, <2>2, <2>3
<1> QED
  BY <1>2, <1>4, <1>5 DEF Once, RowFollows

LEMMA OnceDispatch == ASSUME TypeOK, Once, NEW e \in Execs, Dispatch(e) PROVE Once'
<1> USE RunFacts
<1>1. UNCHANGED <<run, row, launches, misread>> /\ handling = Idle
  BY DEF Dispatch, runs
<1>2. CASE Claimed(e)
  BY <1>1, <1>2, OnceKept DEF Dispatch, tracker
<1>3. CASE ~Claimed(e)
  <2>1. /\ reserved' = reserved \cup {e} /\ handling'.at = "lookup" /\ handling'.exec = e
        /\ e \notin reserved
    BY <1>3 DEF Dispatch, Claimed
  <2>2. \A d \in Execs : /\ (Fresh(d)' <=> Fresh(d)) /\ (HasRun(d)' <=> HasRun(d))
                         /\ (Deciding(d)' <=> d = e) /\ Spare(d)' = Spare(d) /\ Triggering(d)' = 0
    BY <1>1, <2>1 DEF Fresh, HasRun, Deciding, Spare, Triggering
  <2>3. Guarded'
    BY <1>1, <2>1, <2>2 DEF Once, Guarded
  <2>4. \A d \in Execs : Credit(d)'
    BY <1>1, <2>2, CreditKept DEF Once
  <2> QED
    BY <1>1, <2>3, <2>4 DEF Once, RowFollows
<1> QED
  BY <1>2, <1>3

LEMMA OnceRestart == ASSUME TypeOK, Once, Restart PROVE Once'
<1> USE RunFacts
<1>1. PICK resumed \in SUBSET {r \in Runs : row[r] = "pending"} :
        /\ row' = [r \in Runs |->
                     IF row[r] = "none" \/ r \in resumed THEN row[r] ELSE "ended"]
        /\ run' = [r \in Runs |->
                     IF r \in resumed THEN "created" ELSE IF row[r] = "none" THEN "none" ELSE "over"]
  BY DEF Restart
<1>2. handling' = Idle /\ launches' = launches /\ misread' = misread
  BY DEF Restart, station
<1>3. ASSUME NEW r \in Runs
      PROVE  /\ (run'[r] = "none" <=> row[r] = "none") /\ (row'[r] = "none" <=> row[r] = "none")
             /\ run'[r] # "started"
             /\ run'[r] # "none" /\ row'[r] \in {"none", "pending"} => row[r] = "pending"
  <2>1. r \in resumed => row[r] = "pending"
    BY <1>1
  <2>2. row'[r] = (IF row[r] = "none" \/ r \in resumed THEN row[r] ELSE "ended")
    BY <1>1
  <2>3. run'[r] = (IF r \in resumed THEN "created" ELSE IF row[r] = "none" THEN "none" ELSE "over")
    BY <1>1
  <2> QED
    BY <2>1, <2>2, <2>3
<1>4. RowFollows'
  BY <1>1 DEF RowFollows
<1>5. Guarded'
  <2> SUFFICES ASSUME NEW e \in Execs, Fresh(e)'
               PROVE  ~HasRun(e)' /\ ~Deciding(e)' /\ launches'[e] = 0
    BY DEF Guarded
  <2>1. Fresh(e)
    BY <1>3 DEF Fresh
  <2>2. ~HasRun(e)' /\ ~Deciding(e)'
    BY <1>2, <1>3, <2>1 DEF Fresh, HasRun, Deciding, Idle
  <2> QED
    BY <1>2, <2>1, <2>2 DEF Once, Guarded
<1>6. ASSUME NEW e \in Execs PROVE Credit(e)'
  <2>1. Triggering(e)' = 0
    BY <1>2 DEF Triggering, Idle
  <2>2. Spare(e)' \subseteq Spare(e)
    BY <1>3 DEF Spare, Once, RowFollows
  <2> QED
    BY <1>2, <2>1, <2>2, CreditKept DEF Once
<1> QED
  BY <1>4, <1>5, <1>6 DEF Once

LEMMA OnceStep == TypeOK /\ Once /\ [Next]_vars => Once'
<1> SUFFICES ASSUME TypeOK, Once, [Next]_vars PROVE Once'
  OBVIOUS
<1> USE RunFacts
<1>1. CASE UNCHANGED vars
  BY <1>1, OnceKept DEF vars, runs, tracker, station
<1>2. CASE \/ Connect \/ TakePending \/ SendFlushed \/ OpenSession \/ WriteLoop \/ EndSession
           \/ Detach \/ BufferUpdate \/ Listen \/ BeginStop \/ Stopped
  BY <1>2, OnceKept DEF Connect, TakePending, SendFlushed, OpenSession, WriteLoop, EndSession,
     Detach, BufferUpdate, Listen, BeginStop, Stopped, runs, tracker, station
<1>3. ASSUME NEW r \in Runs, ReportEnd(r) \/ Archive(r) \/ Attach(r) PROVE Once'
  BY <1>3, OnceKept DEF ReportEnd, Archive, Attach, runs, tracker, station
<1>4. ASSUME NEW e \in Execs, RecoverOne(e) PROVE Once'
  BY <1>4, OnceKept DEF RecoverOne, runs, tracker, station
<1>5. ASSUME NEW e \in Execs, Dispatch(e) PROVE Once'
  BY <1>5, OnceDispatch
<1>6. CASE FoundRun
  <2>1. PICK e \in Execs : e = handling.exec
    BY <1>6, HandlingType DEF FoundRun
  <2>2. ~Fresh(e)
    BY <1>6, <2>1 DEF FoundRun, Fresh
  <2> QED
    BY <1>6, <2>1, <2>2, OnceReleased DEF FoundRun, Released, runs, station
<1>7. CASE Accept
  BY <1>7, OnceAccept
<1>8. CASE Trigger
  <2>1. PICK r \in RunsOf(handling.exec) : Create(r, "created")
    BY <1>8 DEF Trigger
  <2> QED
    BY <1>8, <2>1, OnceCreate DEF Trigger, Idle, station
<1>9. CASE TurnDown
  <2>1. PICK r \in RunsOf(handling.exec) : Create(r, "ended")
    BY <1>9 DEF TurnDown
  <2>2. handling'.at = "turned_down"
    BY <1>9, HandlingType DEF TurnDown
  <2> QED
    BY <1>9, <2>1, <2>2, OnceCreate DEF TurnDown, station
<1>10. CASE Refuse
  <2>1. PICK e \in Execs : e = handling.exec
    BY <1>10, HandlingType DEF Refuse
  <2>2. ~Fresh(e) \/ ~HasRun(e)
    <3>1. CASE handling.at = "trigger"
      BY <2>1, <3>1 DEF Once, Guarded, Deciding
    <3>2. CASE \A r \in RunsOf(e) : run[r] \in {"none", "over"}
      BY <3>2 DEF Fresh, HasRun, Once, RowFollows
    <3> QED
      BY <1>10, <2>1, <3>1, <3>2 DEF Refuse
  <2> QED
    BY <1>10, <2>1, <2>2, OnceReleased DEF Refuse, runs, station
<1>11. ASSUME NEW r \in Runs, Persist(r) PROVE Once'
  <2>1. UNCHANGED <<run, launches, misread, reserved, handling>>
    BY <1>11 DEF Persist, tracker, station
  <2>2. run[r] \in {"created", "ended"} /\ run' = [run EXCEPT ![r] = run[r]]
    BY <1>11, <2>1 DEF Persist, TypeOK
  <2>3. CASE row[r] = "none" /\ row' = [row EXCEPT ![r] = "pending"]
    BY <2>1, <2>2, <2>3, OnceRunStep DEF Stages
  <2>4. CASE run[r] = "ended" /\ row' = [row EXCEPT ![r] = "ended"]
    BY <2>1, <2>2, <2>4, OnceRunStep DEF Stages
  <2> QED
    BY <1>11, <2>3, <2>4 DEF Persist
<1>12. ASSUME NEW r \in Runs, Start(r) PROVE Once'
  <2>1. row[r] \in {"none", "pending"}
    BY <1>12 DEF Start, Once, RowFollows
  <2> QED
    BY <1>12, <2>1, OnceRunStep DEF Start, Stages, tracker, station
<1>13. ASSUME NEW r \in Runs, End(r) PROVE Once'
  <2>1. /\ run[r] \in {"created", "running"} /\ run' = [run EXCEPT ![r] = "ended"]
        /\ UNCHANGED <<launches, misread, reserved, handling>> /\ row' = row
    BY <1>13 DEF End, tracker, station
  <2>2. row' = [row EXCEPT ![r] = row[r]] /\ row[r] \in {"none", "pending", "running", "ended"}
    BY <2>1 DEF TypeOK
  <2> QED
    BY <2>1, <2>2, OnceRunStep DEF Stages
<1>14. ASSUME NEW r \in Runs, AnnounceEnd(r) PROVE Once'
  <2>1. /\ run[r] = "ended" /\ row[r] = "ended" /\ run' = [run EXCEPT ![r] = "over"] /\ row' = row
        /\ UNCHANGED <<launches, misread, handling>>
        /\ reserved' = reserved \/ reserved' = reserved \ {r[1]}
    BY <1>14 DEF AnnounceEnd, station
  <2>2. row' = [row EXCEPT ![r] = "ended"]
    BY <2>1 DEF TypeOK
  <2> QED
    BY <2>1, <2>2, OnceRunStep DEF Stages
<1>15. ASSUME NEW r \in Runs, Launch(r) PROVE Once'
  BY <1>15, OnceLaunch
<1>16. CASE Restart
  BY <1>16, OnceRestart
<1> QED
  BY <1>1, <1>2, <1>3, <1>4, <1>5, <1>6, <1>7, <1>8, <1>9, <1>10, <1>11, <1>12, <1>13, <1>14,
     <1>15, <1>16 DEF Next

\* However often the station asks, across sessions and restarts: an execution's
\* process is started once, and once more at most for each look-up of the guard
\* that came back without the row of an earlier run.
THEOREM StartedOnce == Spec => []RunOnce
<1>1. Once /\ TypeOK => RunOnce
  <2> SUFFICES ASSUME Once, TypeOK, NEW e \in Execs PROVE launches[e] <= 1 + misread[e]
    BY DEF RunOnce
  <2>1. Credit(e) /\ Triggering(e) \in {0, 1} /\ launches[e] \in Nat /\ misread[e] \in Nat
    BY DEF Once, Triggering, TypeOK
  <2> QED
    BY <2>1, SpareFinite DEF Credit
<1> QED
  BY <1>1, OnceInit, OnceStep, TypeCorrect, PTL DEF Spec

-----------------------------------------------------------------------------
(***************************************************************************)
(* No end of a run is forgotten.  The property is inductive: each step     *)
(* that takes a report from one place puts it into another, or names the   *)
(* execution in excused.                                                   *)
(***************************************************************************)
Told(e) == knows[e] = "ended" \/ InTransit(e) \/ e \in records \cup excused

LEMMA EndsAppend ==
    ASSUME NEW s \in Seq(Reports), NEW u \in Reports
    PROVE  /\ Ends(s) \subseteq Ends(Append(s, u))
           /\ u.status = "ended" => u.exec \in Ends(Append(s, u))
<1>1. /\ Len(Append(s, u)) = Len(s) + 1 /\ Append(s, u)[Len(s) + 1] = u
      /\ \A i \in 1 .. Len(s) : Append(s, u)[i] = s[i]
  OBVIOUS
<1>2. ASSUME NEW e \in Ends(s) PROVE e \in Ends(Append(s, u))
  <2>1. PICK i \in 1 .. Len(s) : s[i].status # "running" /\ e = s[i].exec
    BY DEF Ends
  <2>2. i \in 1 .. Len(Append(s, u)) /\ Append(s, u)[i] = s[i]
    BY <1>1
  <2> QED
    BY <2>1, <2>2 DEF Ends
<1>3. ASSUME u.status = "ended" PROVE u.exec \in Ends(Append(s, u))
  <2>1. Len(s) + 1 \in 1 .. Len(Append(s, u))
    BY <1>1
  <2> QED
    BY <1>1, <1>3, <2>1 DEF Ends
<1> QED
  BY <1>2, <1>3

LEMMA EndsConcat ==
    ASSUME NEW s \in Seq(Reports), NEW t \in Seq(Reports)
    PROVE  Ends(s) \subseteq Ends(s \o t) /\ Ends(t) \subseteq Ends(s \o t)
<1>1. /\ Len(s \o t) = Len(s) + Len(t)
      /\ \A i \in 1 .. Len(s) : (s \o t)[i] = s[i]
      /\ \A i \in 1 .. Len(t) : (s \o t)[Len(s) + i] = t[i]
  OBVIOUS
<1>2. ASSUME NEW e \in Ends(s) PROVE e \in Ends(s \o t)
  <2>1. PICK i \in 1 .. Len(s) : s[i].status # "running" /\ e = s[i].exec
    BY DEF Ends
  <2>2. i \in 1 .. Len(s \o t) /\ (s \o t)[i] = s[i]
    BY <1>1
  <2> QED
    BY <2>1, <2>2 DEF Ends
<1>3. ASSUME NEW e \in Ends(t) PROVE e \in Ends(s \o t)
  <2>1. PICK i \in 1 .. Len(t) : t[i].status # "running" /\ e = t[i].exec
    BY DEF Ends
  <2>2. Len(s) + i \in 1 .. Len(s \o t) /\ (s \o t)[Len(s) + i] = t[i]
    BY <1>1
  <2> QED
    BY <2>1, <2>2 DEF Ends
<1> QED
  BY <1>2, <1>3

LEMMA EndsTail ==
    ASSUME NEW s \in Seq(Reports), s # <<>>, NEW e \in Ends(s), e \notin Ends(Tail(s))
    PROVE  Head(s).exec = e /\ Head(s).status = "ended" /\ Head(s) \in Reports
<1>1. PICK i \in 1 .. Len(s) : s[i].status # "running" /\ e = s[i].exec
  BY DEF Ends
<1>2. Len(Tail(s)) = Len(s) - 1 /\ \A j \in 1 .. Len(s) - 1 : Tail(s)[j] = s[j + 1]
  OBVIOUS
<1>3. i = 1
  <2> SUFFICES ASSUME i # 1 PROVE FALSE
    OBVIOUS
  <2>1. i - 1 \in 1 .. Len(Tail(s)) /\ Tail(s)[i - 1] = s[i]
    BY <1>2
  <2>2. e \in Ends(Tail(s))
    BY <1>1, <2>1 DEF Ends
  <2> QED
    BY <2>2
<1>4. s[1] = Head(s) /\ s[1] \in Reports
  BY <1>1
<1> QED
  BY <1>1, <1>3, <1>4 DEF Reports

\* A report of an end that is queued is in transit, and nothing else leaves.
LEMMA QueuedInTransit ==
    ASSUME TypeOK, NEW e \in Execs, NEW status \in {"running", "ended"},
           QueueUpdate(Report(e, status))
    PROVE  /\ Ends(outbound) \subseteq Ends(outbound') /\ late \subseteq late'
           /\ status = "ended" => Report(e, "ended") \in late' \/ e \in Ends(outbound')
<1>1. outbound \in Seq(Reports) /\ Report(e, status) \in Reports
  BY ReportFacts DEF TypeOK
<1>2. Report(e, status).exec = e /\ Report(e, status).status = status
  BY DEF Report
<1> QED
  BY <1>1, <1>2, EndsAppend DEF QueueUpdate

\* A step that takes no report away and keeps what the station knows, the records
\* and the losses.
LEMMA ToldKept ==
    ASSUME TypeOK, NEW e \in Execs, Told(e),
           knows' = knows, records \subseteq records', excused \subseteq excused',
           late \subseteq late', Ends(pending) \subseteq Ends(pending'),
           Ends(flushing) \subseteq Ends(flushing'), Ends(outbound) \subseteq Ends(outbound'),
           \A r \in RunsOf(e) : final[r] \in {"report", "attach"} => final'[r] \in {"report", "attach"}
    PROVE  Told(e)'
<1>1. CASE InTransit(e)
  <2>1. CASE \E r \in RunsOf(e) : final[r] \in {"report", "attach"}
    <3>1. PICK r \in RunsOf(e) : final'[r] \in {"report", "attach"}
      BY <2>1
    <3> QED
      BY <3>1 DEF Told, InTransit
  <2>2. CASE \/ Report(e, "ended") \in late
             \/ e \in Ends(pending) \cup Ends(flushing) \cup Ends(outbound)
    <3>1. Report(e, "ended") = Report(e, "ended")'
      BY DEF Report
    <3>2. \/ Report(e, "ended") \in late'
          \/ e \in Ends(pending') \cup Ends(flushing') \cup Ends(outbound')
      BY <2>2
    <3> QED
      BY <3>1, <3>2 DEF Told, InTransit
  <2> QED
    BY <1>1, <2>1, <2>2 DEF InTransit
<1>2. CASE ~InTransit(e)
  BY <1>2 DEF Told
<1> QED
  BY <1>1, <1>2

\* Only a session that flushes has updates taken from the buffer.
Flushing == flushing # <<>> => phase = "flushing"

LEMMA FlushingStep == Flushing /\ [Next]_vars => Flushing'
<1> SUFFICES ASSUME Flushing, [Next]_vars PROVE Flushing'
  OBVIOUS
<1>1. CASE UNCHANGED vars
  BY <1>1 DEF Flushing, vars, link
<1>2. CASE \/ Connect \/ TakePending \/ SendFlushed \/ OpenSession \/ WriteLoop \/ EndSession
           \/ Detach \/ BufferUpdate \/ Listen \/ BeginStop \/ Stopped \/ Restart
  BY <1>2 DEF Flushing, Connect, TakePending, SendFlushed, OpenSession, WriteLoop, EndSession,
     Detach, BufferUpdate, Listen, BeginStop, Stopped, Restart
<1>3. CASE (\E e \in Execs : Dispatch(e)) \/ FoundRun \/ Accept \/ Trigger \/ TurnDown \/ Refuse
  BY <1>3 DEF Flushing, Dispatch, FoundRun, Accept, Trigger, TurnDown, Refuse, link
<1>4. ASSUME NEW r \in Runs, \/ Persist(r) \/ Start(r) \/ Launch(r) \/ End(r) \/ AnnounceEnd(r)
                             \/ ReportEnd(r) \/ Archive(r) \/ Attach(r)
      PROVE  Flushing'
  BY <1>4 DEF Flushing, Persist, Start, Launch, End, AnnounceEnd, ReportEnd, Archive, Attach, link
<1>5. ASSUME NEW e \in Execs, RecoverOne(e) PROVE Flushing'
  BY <1>5 DEF Flushing, RecoverOne
<1> QED
  BY <1>1, <1>2, <1>3, <1>4, <1>5 DEF Next

LEMMA ForgetOthers ==
    ASSUME NEW e \in Execs, Forget(e)
    PROVE  \A d \in records : d # e => d \in records'
  BY DEF Forget

\* The steps of the session and of the buffer lose no report without naming it.
LEMMA SessionTells ==
    ASSUME TypeOK, Flushing, NEW e \in Execs, Told(e),
           \/ TakePending \/ SendFlushed \/ WriteLoop \/ Detach \/ BufferUpdate
    PROVE  Told(e)'
<1> USE RunFacts
<1>1. /\ outbound \in Seq(Reports) /\ flushing \in Seq(Reports) /\ pending \in Seq(Reports)
      /\ late \subseteq Reports
  BY DEF TypeOK
<1>2. Ends(<<>>) = {}
  BY DEF Ends
<1>3. final' = final /\ records' = records /\ excused \subseteq excused'
  BY DEF TakePending, SendFlushed, WriteLoop, Detach, BufferUpdate, Forgotten, archive
<1>4. CASE \/ e \in records \cup excused \/ knows[e] = "ended"
           \/ \E r \in RunsOf(e) : final[r] \in {"report", "attach"}
  <2>1. knows[e] = "ended" => knows'[e] = "ended"
    BY DEF TypeOK, TakePending, SendFlushed, WriteLoop, Detach, BufferUpdate, station
  <2> QED
    BY <1>3, <1>4, <2>1 DEF Told, InTransit
<1>5. Report(e, "ended") = Report(e, "ended")'
  BY DEF Report
<1> DEFINE Waits == \/ Report(e, "ended") \in late
                    \/ e \in Ends(pending) \cup Ends(flushing) \cup Ends(outbound)
<1>6. Waits' => Told(e)'
  BY <1>5 DEF Told, InTransit
<1>7. ASSUME TakePending, Waits PROVE Waits'
  <2>1. PICK s \in SetToSeqs({Report(d, "running") : d \in active}) : flushing' = pending \o s
    BY <1>7 DEF TakePending
  <2>2. s \in Seq(Reports)
    BY <2>1, SnapshotType
  <2>3. Ends(pending) \subseteq Ends(flushing')
    BY <1>1, <2>1, <2>2, EndsConcat
  <2>4. Ends(flushing) = {}
    BY <1>2, <1>7 DEF TakePending, Flushing
  <2>5. outbound' = outbound /\ late' = late
    BY <1>7 DEF TakePending
  <2> QED
    BY <1>5, <1>7, <2>3, <2>4, <2>5
<1>8. ASSUME SendFlushed, Waits PROVE Waits'
  <2>1. late' = late /\ flushing # <<>>
    BY <1>8 DEF SendFlushed
  <2>2. CASE /\ outbound' = Append(outbound, Head(flushing))
             /\ flushing' = Tail(flushing) /\ pending' = pending
    <3>1. Head(flushing) \in Reports
      BY <1>1, <2>1
    <3>2. Ends(outbound) \subseteq Ends(outbound')
      BY <1>1, <2>2, <3>1, EndsAppend
    <3>3. e \in Ends(flushing) => e \in Ends(flushing') \/ e \in Ends(outbound')
      BY <1>1, <2>1, <2>2, <3>1, EndsAppend, EndsTail
    <3> QED
      BY <1>5, <1>8, <2>1, <2>2, <3>2, <3>3
  <2>3. CASE pending' = pending \o flushing /\ outbound' = outbound
    <3>1. Ends(pending) \subseteq Ends(pending') /\ Ends(flushing) \subseteq Ends(pending')
      BY <1>1, <2>3, EndsConcat
    <3> QED
      BY <1>5, <1>8, <2>1, <2>3, <3>1
  <2> QED
    BY <1>8, <2>2, <2>3 DEF SendFlushed, Requeued
<1>9. ASSUME WriteLoop, Waits PROVE Told(e)'
  <2>1. /\ outbound # <<>> /\ outbound' = Tail(outbound)
        /\ UNCHANGED <<flushing, late, pending>>
        /\ knows' = [knows EXCEPT ![Head(outbound).exec] =
                       IF @ = "ended" THEN @ ELSE Head(outbound).status]
    BY <1>9 DEF WriteLoop
  <2>2. CASE e \in Ends(outbound) /\ e \notin Ends(outbound')
    <3>1. Head(outbound).exec = e /\ Head(outbound).status = "ended"
      BY <1>1, <2>1, <2>2, EndsTail
    <3>2. knows'[e] = "ended"
      BY <2>1, <3>1 DEF TypeOK
    <3> QED
      BY <3>2 DEF Told
  <2>3. CASE e \in Ends(outbound) => e \in Ends(outbound')
    BY <1>5, <1>6, <1>9, <2>1, <2>3
  <2> QED
    BY <2>2, <2>3
<1>10. ASSUME Detach, Waits PROVE Told(e)'
  <2>1. UNCHANGED <<flushing, late, pending>> /\ excused' = excused \cup (Ends(outbound) \ records)
    BY <1>10 DEF Detach, Forgotten
  <2>2. CASE e \in Ends(outbound)
    BY <1>3, <2>1, <2>2 DEF Told
  <2>3. CASE e \notin Ends(outbound)
    BY <1>5, <1>6, <1>10, <2>1, <2>3
  <2> QED
    BY <2>2, <2>3
<1>11. ASSUME BufferUpdate, Waits PROVE Told(e)'
  <2>1. PICK u \in late : /\ late' = late \ {u}
                          /\ pending' = Buffered(u)
                          /\ Forgotten(Ends(pending) \ Ends(pending'))
    BY <1>11 DEF BufferUpdate
  <2>2. UNCHANGED <<outbound, flushing>>
    BY <1>11 DEF BufferUpdate
  <2>3. u \in Reports
    BY <1>1
  <2>4. u.status = "ended" => u.exec \in Ends(pending')
    <3>1. PICK kept \in Seq(Reports) : pending' = Append(kept, u)
      <4>1. Len(pending) >= PendingLimit => Tail(pending) \in Seq(Reports)
        BY <1>1, StationLinkAssumption
      <4> QED
        BY <1>1, <2>1, <4>1 DEF Buffered
    <3> QED
      BY <2>3, <3>1, EndsAppend
  <2>5. CASE Report(e, "ended") = u
    BY <1>5, <1>6, <2>4, <2>5 DEF Report
  <2>6. CASE e \in Ends(pending) /\ e \notin Ends(pending')
    BY <1>3, <2>1, <2>6 DEF Told, Forgotten
  <2>7. CASE Report(e, "ended") # u /\ (e \in Ends(pending) => e \in Ends(pending'))
    BY <1>5, <1>6, <1>11, <2>1, <2>2, <2>7
  <2> QED
    BY <2>5, <2>6, <2>7
<1>12. CASE Waits
  <2> HIDE DEF Waits
  <2> QED
    BY <1>6, <1>7, <1>8, <1>9, <1>10, <1>11, <1>12
<1> QED
  BY <1>4, <1>12 DEF Told, InTransit

\* A step that queues a report and changes nothing else Told reads of e.
LEMMA QueueTells ==
    ASSUME TypeOK, NEW e \in Execs, Told(e), NEW d \in Execs, NEW status \in {"running", "ended"},
           QueueUpdate(Report(d, status)),
           knows' = knows, pending' = pending, flushing' = flushing, records' = records,
           e \in excused => e \in excused',
           \A r \in RunsOf(e) : final'[r] = final[r]
    PROVE  Told(e)'
<1>1. Ends(outbound) \subseteq Ends(outbound') /\ late \subseteq late'
  BY QueuedInTransit
<1>2. Report(e, "ended") = Report(e, "ended")'
  BY DEF Report
<1> QED
  BY <1>1, <1>2 DEF Told, InTransit

\* A report of an end that waits to be sent, or whose execution is named, is enough.
LEMMA TransitTells ==
    ASSUME TypeOK, NEW e \in Execs, QueueUpdate(Report(e, "ended"))
    PROVE  Told(e)'
<1>1. Report(e, "ended") = Report(e, "ended")'
  BY DEF Report
<1> QED
  BY <1>1, QueuedInTransit DEF Told, InTransit

Noted(r) == row[r] = "ended" /\ run[r] = "over" => Told(r[1])

LEMMA NotedStep ==
    TypeOK /\ Flushing /\ NoReportForgotten /\ [Next]_vars => NoReportForgotten'
<1> SUFFICES ASSUME TypeOK, Flushing, \A r \in Runs : Noted(r), [Next]_vars,
                    NEW q \in Runs
             PROVE  Noted(q)'
  BY DEF NoReportForgotten, Noted, Told
<1> DEFINE e == q[1]
<1> USE RunFacts
<1>0. e \in Execs /\ q \in RunsOf(e)
  OBVIOUS
<1>1. CASE UNCHANGED vars
  BY <1>1 DEF Noted, Told, InTransit, Report, vars, link, tracker, runs, archive, station
<1>2. CASE TakePending \/ SendFlushed \/ WriteLoop \/ Detach \/ BufferUpdate
  <2>1. UNCHANGED runs
    BY <1>2 DEF TakePending, SendFlushed, WriteLoop, Detach, BufferUpdate
  <2> QED
    BY <1>0, <1>2, <2>1, SessionTells DEF Noted, runs
<1>3. CASE Connect \/ OpenSession \/ EndSession \/ Listen \/ BeginStop \/ Stopped
  <2>1. UNCHANGED <<runs, archive, station, excused, late, pending, flushing, outbound>>
    BY <1>3 DEF Connect, OpenSession, EndSession, Listen, BeginStop, Stopped
  <2> QED
    BY <2>1 DEF Noted, Told, InTransit, Report, runs, archive, station
<1>4. CASE \E d \in Execs : Dispatch(d)
  BY <1>4 DEF Dispatch, Noted, Told, InTransit, Report, link, runs, archive
<1>5. CASE FoundRun
  <2>1. PICK d \in Execs : d = handling.exec
    BY <1>5, HandlingType DEF FoundRun
  <2>2. /\ run' = run /\ row' = row /\ knows' = knows /\ pending' = pending
        /\ flushing' = flushing /\ records' = records /\ final' = final
    BY <1>5 DEF FoundRun, runs, archive, station
  <2>3. CASE UNCHANGED <<outbound, late, excused>>
    BY <2>2, <2>3 DEF Noted, Told, InTransit, Report
  <2>4. CASE QueueUpdate(Report(d, "ended")) /\ excused' = excused \ {d}
    <3>1. CASE e = d
      BY <2>4, <3>1, TransitTells DEF Noted
    <3>2. CASE e # d
      <4>1. e \in excused => e \in excused'
        BY <2>4, <3>2
      <4>2. Told(e) => Told(e)'
        BY <1>0, <2>2, <2>4, <4>1, QueueTells
      <4> QED
        BY <2>2, <4>2 DEF Noted
    <3> QED
      BY <3>1, <3>2
  <2> QED
    BY <1>5, <2>1, <2>3, <2>4 DEF FoundRun
<1>6. CASE Accept
  <2>1. UNCHANGED <<link, run, row, final, knows, excused>> /\ records \subseteq records'
    BY <1>6 DEF Accept, runs, station
  <2> QED
    BY <2>1 DEF Noted, Told, InTransit, Report, link
<1>7. CASE Trigger \/ TurnDown
  <2>1. PICK r \in RunsOf(handling.exec) : Create(r, "created") \/ Create(r, "ended")
    BY <1>7 DEF Trigger, TurnDown
  <2>2. UNCHANGED <<link, archive, station, excused, row>>
    BY <1>7, <2>1 DEF Trigger, TurnDown, Create
  <2>3. run'[q] = "over" => run[q] = "over"
    BY <2>1 DEF Create, TypeOK
  <2> QED
    BY <2>2, <2>3 DEF Noted, Told, InTransit, Report, link, archive, station
<1>8. CASE Refuse
  <2>1. PICK d \in Execs : d = handling.exec
    BY <1>8, HandlingType DEF Refuse
  <2>2. /\ UNCHANGED <<run, row, knows, pending, flushing, final, excused>>
        /\ QueueUpdate(Report(d, "ended")) /\ Forget(d)
    BY <1>8, <2>1 DEF Refuse, runs, station
  <2>3. CASE e = d
    BY <2>2, <2>3, TransitTells DEF Noted
  <2>4. CASE e # d
    <3>1. e \in records => e \in records'
      BY <2>2, <2>4, ForgetOthers
    <3>2. Ends(outbound) \subseteq Ends(outbound') /\ late \subseteq late'
      BY <2>2, QueuedInTransit
    <3>3. Report(e, "ended") = Report(e, "ended")'
      BY DEF Report
    <3> QED
      BY <2>2, <3>1, <3>2, <3>3 DEF Noted, Told, InTransit
  <2> QED
    BY <2>3, <2>4
<1>9. ASSUME NEW r \in Runs, Persist(r) \/ Start(r) \/ End(r) PROVE Noted(q)'
  <2>1. UNCHANGED <<link, archive, station, excused>>
    BY <1>9 DEF Persist, Start, End
  <2>2. row'[q] = "ended" /\ run'[q] = "over" => row[q] = "ended" /\ run[q] = "over"
    BY <1>9 DEF Persist, Start, End, TypeOK
  <2> QED
    BY <2>1, <2>2 DEF Noted, Told, InTransit, Report, link, archive, station
<1>10. ASSUME NEW r \in Runs, Launch(r) PROVE Noted(q)'
  <2>1. /\ row' = row /\ knows' = knows /\ pending' = pending /\ flushing' = flushing
        /\ records' = records /\ final' = final /\ excused' = excused
    BY <1>10 DEF Launch, station
  <2>2. run'[q] = "over" => run[q] = "over"
    BY <1>10 DEF Launch, TypeOK
  <2>3. CASE UNCHANGED <<outbound, late>>
    BY <2>1, <2>2, <2>3 DEF Noted, Told, InTransit, Report
  <2>4. CASE QueueUpdate(Report(r[1], "running"))
    <3>1. Told(e) => Told(e)'
      BY <1>0, <2>1, <2>4, QueueTells
    <3> QED
      BY <2>1, <2>2, <3>1 DEF Noted
  <2> QED
    BY <1>10, <2>3, <2>4 DEF Launch
<1>11. ASSUME NEW r \in Runs, AnnounceEnd(r) PROVE Noted(q)'
  <2>1. UNCHANGED <<link, row, knows, records>> /\ excused \subseteq excused'
    BY <1>11 DEF AnnounceEnd, Forgotten, station
  <2>2. \/ final' = [final EXCEPT ![r] = "report"]
        \/ final' = final /\ excused' = excused \cup ({r[1]} \ records)
    BY <1>11 DEF AnnounceEnd, Forgotten
  <2>3. \A s \in Runs : final[s] \in {"report", "attach"} => final'[s] \in {"report", "attach"}
    BY <2>2 DEF TypeOK
  <2>4. CASE q = r
    BY <2>1, <2>2, <2>4 DEF Noted, Told, InTransit, TypeOK
  <2>5. CASE q # r
    <3>1. run'[q] = run[q]
      BY <1>11, <2>5 DEF AnnounceEnd, TypeOK
    <3> QED
      BY <1>0, <2>1, <2>3, <3>1, ToldKept DEF Noted, link
  <2> QED
    BY <2>4, <2>5
<1>12. ASSUME NEW r \in Runs, ReportEnd(r) \/ Attach(r) PROVE Noted(q)'
  <2>1. /\ run' = run /\ row' = row /\ knows' = knows /\ pending' = pending
        /\ flushing' = flushing /\ records' = records /\ excused' = excused
        /\ QueueUpdate(Report(r[1], "ended"))
        /\ \A s \in Runs \ {r} : final'[s] = final[s]
    BY <1>12 DEF ReportEnd, Attach, runs, station, TypeOK
  <2> QED
    <3>1. CASE e = r[1]
      BY <2>1, <3>1, TransitTells DEF Noted
    <3>2. CASE e # r[1]
      <4>1. \A s \in RunsOf(e) : final'[s] = final[s]
        BY <1>0, <2>1, <3>2
      <4>2. Told(e) => Told(e)'
        BY <1>0, <2>1, <4>1, QueueTells
      <4> QED
        BY <2>1, <4>2 DEF Noted
    <3> QED
      BY <3>1, <3>2
<1>13. ASSUME NEW r \in Runs, Archive(r) PROVE Noted(q)'
  <2>1. UNCHANGED <<link, run, row, knows>> /\ excused \subseteq excused'
    BY <1>13 DEF Archive, runs, station
  <2>2. \A s \in Runs : final[s] \in {"report", "attach"} => final'[s] \in {"report", "attach"}
    BY <1>13 DEF Archive, TypeOK
  <2>3. \/ records' = records
        \/ Forget(r[1]) /\ (r[1] \in excused' \/ final'[r] = "attach")
    BY <1>13 DEF Archive, TypeOK
  <2>4. CASE e = r[1] /\ (r[1] \in excused' \/ final'[r] = "attach")
    BY <2>4 DEF Noted, Told, InTransit
  <2>5. CASE records' = records
    BY <1>0, <2>1, <2>2, <2>5, ToldKept DEF Noted, link
  <2>6. CASE Forget(r[1]) /\ e # r[1]
    <3>1. e \in records => e \in records'
      BY <1>0, <2>6, ForgetOthers
    <3>2. Report(e, "ended") = Report(e, "ended")'
      BY DEF Report
    <3> QED
      BY <1>0, <2>1, <2>2, <3>1, <3>2 DEF Noted, Told, InTransit, link
  <2> QED
    BY <2>3, <2>4, <2>5, <2>6
<1>14. ASSUME NEW d \in Execs, RecoverOne(d) PROVE Noted(q)'
  <2>1. /\ UNCHANGED <<run, row, knows, pending, flushing, outbound, final>>
        /\ excused \subseteq excused' /\ late \subseteq late'
    BY <1>14 DEF RecoverOne, ReportRecovered, runs, station
  <2>2. Report(e, "ended") = Report(e, "ended")'
    BY DEF Report
  <2>3. CASE e # d \/ records' = records
    <3>1. e \in records => e \in records'
      BY <1>14, <2>3, ForgetOthers DEF RecoverOne
    <3> QED
      BY <2>1, <2>2, <3>1 DEF Noted, Told, InTransit
  <2>4. CASE e = d /\ records' # records
    <3>1. \/ \A r \in RunsOf(d) : row[r] = "none"
          \/ d \in excused'
          \/ Report(d, "ended") \in late'
      BY <1>14, <2>4 DEF RecoverOne, ReportRecovered
    <3>2. CASE \A r \in RunsOf(d) : row[r] = "none"
      BY <1>0, <2>1, <2>4, <3>2 DEF Noted
    <3>3. CASE d \in excused' \/ Report(d, "ended") \in late'
      BY <2>2, <2>4, <3>3 DEF Noted, Told, InTransit
    <3> QED
      BY <3>1, <3>2, <3>3
  <2> QED
    BY <2>3, <2>4
<1>15. CASE Restart
  <2>1. /\ knows' = knows /\ records' = records
        /\ excused' = excused \cup {d \in Execs \ records :
                           knows[d] # "ended" /\ \E r \in RunsOf(d) : row'[r] = "ended"}
    BY <1>15 DEF Restart, station
  <2> QED
    BY <1>0, <2>1 DEF Noted, Told
<1> QED
  BY <1>1, <1>2, <1>3, <1>4, <1>5, <1>6, <1>7, <1>8, <1>9, <1>10, <1>11, <1>12, <1>13, <1>14,
     <1>15 DEF Next

\* The end of a run is known to the station, on its way, to be recovered, or lost
\* in one of the six ways NoReportForgotten names.
THEOREM NothingForgotten == Spec => []NoReportForgotten
<1>1. Init => Flushing /\ NoReportForgotten
  BY DEF Init, Flushing, NoReportForgotten
<1> QED
  BY <1>1, FlushingStep, NotedStep, TypeCorrect, PTL DEF Spec
=============================================================================
