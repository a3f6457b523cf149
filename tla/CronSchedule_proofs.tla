------------------------- MODULE CronSchedule_proofs -------------------------
(***************************************************************************)
(* What holds of the ticks of cron tasks for any tasks, definitions and    *)
(* schedules, however often the daemon, cron and the operator come and go: *)
(* the types, the agreement of memory, row and config, that no tick is     *)
(* forgotten, and that the whole implements TickLedger.                    *)
(***************************************************************************)
EXTENDS CronSchedule, FiniteSetTheorems, WellFoundedInduction, TLAPS

LEMMA ConstantFacts ==
    /\ MaxTime \in Nat /\ Time \subseteq Nat /\ Time = 0 .. MaxTime /\ 0 \in Time
    /\ MaxEdits \in Nat /\ MaxFlips \in Nat /\ MaxBoots \in Nat /\ Offered \subseteq Defs
    /\ Never = -1 /\ Never \notin Time /\ NoCron \notin Scheds
    /\ \A s \in Scheds : Ticks[s] \subseteq Nat
  BY CronScheduleAssumption DEF Time, Never

\* A definition is not Absent, so a task of the config has one.
LEMMA LiveFacts ==
    ASSUME NEW x \in Live, x # Absent
    PROVE  x \in [def : Defs, held : BOOLEAN] /\ x.def \in Defs /\ x.held \in BOOLEAN
           /\ x.def.sched \in Scheds \cup {NoCron}
  BY CronScheduleAssumption DEF Live, Defs

LEMMA SchedulableFacts ==
    ASSUME NEW x \in Live, Schedulable(x)
    PROVE  x # Absent /\ x.def.sched \in Scheds /\ Ticks[x.def.sched] \subseteq Nat
           /\ Rescheduled(x) = x.def.sched /\ Rescheduled(x) # NoCron
  BY LiveFacts, ConstantFacts DEF Schedulable, Rescheduled

\* Sets of numbers have a least member, and bounded ones a greatest.
LEMMA HasMin ==
    ASSUME NEW S \in SUBSET Nat, S # {} PROVE \E x \in S : \A y \in S : x <= y
<1>1. \E x \in S : \A y \in S : ~(<<y, x>> \in OpToRel(<, Nat))
  BY NatLessThanWellFounded, WFMin
<1>2. PICK x \in S : \A y \in S : ~(<<y, x>> \in OpToRel(<, Nat))
  BY <1>1
<1>3. ASSUME NEW y \in S PROVE x <= y
  <2>1. ~(y < x)
    BY <1>2, <1>3 DEF OpToRel
  <2> QED
    BY <2>1
<1> QED
  BY <1>3

LEMMA MaxFacts ==
    ASSUME NEW n \in Nat, NEW S \in SUBSET (0 .. n), S # {} PROVE Max(S) \in S
<1> DEFINE D == {n - x : x \in S}
<1>1. D \in SUBSET Nat /\ D # {}
  <2>1. \A x \in S : n - x \in Nat /\ n - x \in D
    OBVIOUS
  <2> QED
    BY <2>1
<1>2. PICK d \in D : \A e \in D : d <= e
  BY <1>1, HasMin
<1>3. n - d \in S
  BY <1>1
<1>4. ASSUME NEW y \in S PROVE n - d >= y
  <2>1. d <= n - y /\ d \in Nat /\ y \in Nat
    BY <1>1, <1>2
  <2> QED
    BY <2>1
<1>5. \E x \in S : \A y \in S : x >= y
  BY <1>3, <1>4
<1> QED
  BY <1>5 DEF Max

-----------------------------------------------------------------------------
(***************************************************************************)
(* The shape of the state: TypeOK, but for the outcome of a tick, which    *)
(* could be "wrong" as far as types go; and nothing is later than now.     *)
(***************************************************************************)
Kinds == {"none", "due", "waived", "ran", "skipped", "missed"}
Rows(n) == [since : Never .. n, paused : BOOLEAN]

ClockType == now \in Time /\ asOf \in Time /\ asOf <= now
EnvType == /\ cron \in BOOLEAN /\ flips \in 0 .. MaxFlips
           /\ file \in [Tasks -> Defined] /\ edits \in 0 .. MaxEdits
BootType == /\ phase \in {"down", "loaded", "startup", "catchup", "up"}
            /\ boots \in 0 .. MaxBoots /\ todo \subseteq Tasks
RowType == row \in [Tasks -> Rows(now)]
WriteType == writes \in Seq(RunRows) /\ \A i \in DOMAIN writes : writes[i].at <= now
LiveType == live \in [Tasks -> Live]
KnownType == known \in [Tasks -> Live]
SchedType == /\ entry \in [Tasks -> Specs] /\ paused \subseteq Tasks
             /\ fired \in [Tasks -> SUBSET Time] /\ calls \subseteq Tasks
GateType == gate \in [Tasks -> Time \cup {Never}] /\ \A t \in Tasks : gate[t] <= now
AnchorType == anchor \in [Tasks -> Time \cup {Never}]
ReloadType == reload \in [step : {"idle", "remove", "update", "prune"}, target : [Tasks -> Live],
                          whole : BOOLEAN, cron : BOOLEAN]
WatchType == watch \in [last : BOOLEAN, waiting : SUBSET BOOLEAN, stray : SUBSET BOOLEAN]
OutcomeType == outcome \in [Tasks -> [Time -> Kinds \cup {"wrong"}]]

Shape == /\ ClockType /\ EnvType /\ BootType /\ RowType /\ WriteType /\ LiveType /\ KnownType
         /\ SchedType /\ GateType /\ AnchorType /\ ReloadType /\ WatchType /\ OutcomeType

\* Giving up what is due, tick by tick.
LEMMA WaivedFacts ==
    ASSUME OutcomeType, NEW t \in Tasks
    PROVE  /\ Waived(t) \in [Time -> Kinds \cup {"wrong"}]
           /\ \A k \in Time : Waived(t)[k] = IF outcome[t][k] = "due" THEN "waived" ELSE outcome[t][k]
  BY DEF OutcomeType, Waived, Kinds

\* What a history must be for something of the ticks S of t to be recorded in it.
IsSettled(new, t, S, as) ==
    /\ \A u \in Tasks \ {t} : new[u] = outcome[u]
    /\ \A k \in Time : k \notin S => new[t][k] = outcome[t][k]
    /\ \A k \in Time : k \in S /\ outcome[t][k] \in {"due", "waived"} /\ as # "missed"
         => new[t][k] = as
    /\ \A k \in Time : k \in S /\ as = "missed" => new[t][k] =
         IF outcome[t][k] = "due" THEN "missed" ELSE outcome[t][k]

\* Recording something of some ticks, tick by tick.
LEMMA SettledFacts ==
    ASSUME OutcomeType, NEW t \in Tasks, NEW S, NEW as \in {"ran", "skipped", "missed"}
    PROVE  /\ Settled(t, S, as) \in [Tasks -> [Time -> Kinds \cup {"wrong"}]]
           /\ IsSettled(Settled(t, S, as), t, S, as)
<1> DEFINE f == [k \in Time |->
    IF k \notin S THEN outcome[t][k]
    ELSE IF outcome[t][k] = "due" \/ (outcome[t][k] = "waived" /\ as # "missed") THEN as
    ELSE IF as = "missed" THEN outcome[t][k] ELSE "wrong"]
<1>1. Settled(t, S, as) = [outcome EXCEPT ![t] = f]
  BY DEF OutcomeType, Settled
<1>2. f \in [Time -> Kinds \cup {"wrong"}]
  BY DEF OutcomeType, Kinds
<1>3. Settled(t, S, as)[t] = f
  BY <1>1 DEF OutcomeType
<1>4. \A u \in Tasks \ {t} : Settled(t, S, as)[u] = outcome[u]
  BY <1>1 DEF OutcomeType
<1>5. IsSettled(Settled(t, S, as), t, S, as)
  BY <1>3, <1>4 DEF IsSettled
<1>6. Settled(t, S, as) \in [Tasks -> [Time -> Kinds \cup {"wrong"}]]
  <2> HIDE DEF f
  <2> QED
    BY <1>1, <1>2 DEF OutcomeType
<1> QED
  BY <1>5, <1>6

\* The row of a task, under what the code does to it.
LEMMA RegisteredFacts ==
    ASSUME now \in Time, NEW r \in Rows(now), NEW x
    PROVE  /\ Registered(r, x) \in Rows(now) /\ Registered(r, x) # NoRow
           /\ r # NoRow => Registered(r, x) = r
           /\ r = NoRow => Registered(r, x).paused = StartsPaused(x)
  BY ConstantFacts DEF Rows, Registered, NoRow, Never, StartsPaused, Pausable

LEMMA ResumedFacts ==
    ASSUME now \in Time, NEW r \in Rows(now)
    PROVE  /\ Resumed(r) \in Rows(now) /\ ~Resumed(r).paused
           /\ ~r.paused => Resumed(r) = r
           /\ r # NoRow => Resumed(r) # NoRow
  BY ConstantFacts DEF Rows, Resumed, NoRow, Never

LEMMA BumpedFacts ==
    ASSUME now \in Time, NEW r \in Rows(now), NEW at \in Time, at <= now
    PROVE  /\ Bumped(r, at) \in Rows(now) /\ Bumped(r, at).paused = r.paused
           /\ Bumped(r, at) = NoRow <=> r = NoRow
           /\ Bumped(r, at).since = r.since \/ (r # NoRow /\ Bumped(r, at).since = at)
<1>1. /\ now \in Nat /\ at \in Nat /\ Never = -1 /\ NoRow.since = Never
      /\ r.since \in Never .. now /\ r.paused \in BOOLEAN
  BY ConstantFacts DEF Rows, NoRow
<1>2. CASE r # NoRow /\ r.since < at
  <2> DEFINE n == [r EXCEPT !.since = at]
  <2>1. n \in Rows(now) /\ n.paused = r.paused /\ n.since = at
    BY <1>1 DEF Rows
  <2> HIDE DEF n
  <2>2. n # NoRow
    BY <1>1, <2>1
  <2>3. Bumped(r, at) = n
    BY <1>2 DEF Bumped, n
  <2> QED
    BY <1>2, <2>1, <2>2, <2>3
<1>3. CASE ~(r # NoRow /\ r.since < at)
  <2>1. Bumped(r, at) = r
    BY <1>3 DEF Bumped
  <2> QED
    BY <2>1
<1> QED
  BY <1>2, <1>3

\* The config as it is loaded, and under another answer about cron.
LEMMA LoadedType ==
    ASSUME EnvType PROVE Loaded \in [Tasks -> Live]
<1>1. ASSUME NEW t \in Tasks, file[t] # Absent
      PROVE  [def |-> file[t], held |-> file[t].foreign /\ cron] \in Live
  <2>1. file[t] \in Defs
    BY <1>1 DEF EnvType, Defined
  <2>2. file[t].foreign \in BOOLEAN
    BY <2>1 DEF Defs
  <2> QED
    BY <2>1, <2>2 DEF Live, EnvType
<1> QED
  BY <1>1 DEF Loaded, Live

LEMMA HoldType ==
    ASSUME LiveType, NEW answer \in BOOLEAN
    PROVE  /\ WithCronHold(answer) \in [Tasks -> Live]
           /\ \A t \in Tasks : WithCronHold(answer)[t] = Absent <=> live[t] = Absent
           /\ \A t \in Tasks : live[t] # Absent => WithCronHold(answer)[t].def = live[t].def
<1>1. ASSUME NEW t \in Tasks, live[t] # Absent
      PROVE  /\ [live[t] EXCEPT !.held = live[t].def.foreign /\ answer] \in [def : Defs, held : BOOLEAN]
             /\ [live[t] EXCEPT !.held = live[t].def.foreign /\ answer].def = live[t].def
  <2>1. live[t] \in [def : Defs, held : BOOLEAN]
    BY <1>1, LiveFacts DEF LiveType
  <2>2. live[t].def.foreign \in BOOLEAN
    BY <2>1 DEF Defs
  <2> QED
    BY <2>1, <2>2
<1>2. Absent \notin [def : Defs, held : BOOLEAN]
  BY CronScheduleAssumption
<1>3. \A t \in Tasks : WithCronHold(answer)[t] =
          IF live[t] = Absent THEN Absent ELSE [live[t] EXCEPT !.held = live[t].def.foreign /\ answer]
  BY DEF WithCronHold
<1> QED
  BY <1>1, <1>2, <1>3 DEF WithCronHold, Live

\* The rows on their way, one by one.
LEMMA WritesFacts ==
    ASSUME WriteType
    PROVE  \A i \in DOMAIN writes :
              writes[i] \in RunRows /\ writes[i].task \in Tasks /\ writes[i].ticks \subseteq Time
<1>1. writes \in Seq(RunRows)
  BY DEF WriteType
<1>2. \A i \in DOMAIN writes : writes[i] \in RunRows
  BY <1>1
<1> QED
  BY <1>2 DEF RunRows

\* Another row for the persistence worker.
LEMMA Appended ==
    ASSUME NEW s \in Seq(RunRows), NEW w \in RunRows
    PROVE  /\ Append(s, w) \in Seq(RunRows)
           /\ DOMAIN Append(s, w) = DOMAIN s \cup {Len(s) + 1} /\ Len(s) + 1 \notin DOMAIN s
           /\ \A i \in DOMAIN s : Append(s, w)[i] = s[i]
           /\ Append(s, w)[Len(s) + 1] = w
<1>1. Append(s, w) \in Seq(RunRows)
  OBVIOUS
<1>2. Len(s) \in Nat /\ DOMAIN s = 1 .. Len(s) /\ DOMAIN Append(s, w) = 1 .. Len(s) + 1
  OBVIOUS
<1>3. DOMAIN Append(s, w) = DOMAIN s \cup {Len(s) + 1} /\ Len(s) + 1 \notin DOMAIN s
  BY <1>2
<1>4. \A i \in 1 .. Len(s) : Append(s, w)[i] = s[i]
  OBVIOUS
<1>5. Append(s, w)[Len(s) + 1] = w
  OBVIOUS
<1> QED
  BY <1>1, <1>2, <1>3, <1>4, <1>5

LEMMA PersistFacts ==
    ASSUME WriteType, now \in Time, now' = now, NEW t \in Tasks, NEW at \in Time, at <= now,
           NEW S \in SUBSET Time, NEW as \in {"ran", "skipped", "missed"}, Persist(t, at, S, as)
    PROVE  /\ WriteType'
           /\ DOMAIN writes' = DOMAIN writes \cup {Len(writes) + 1} /\ Len(writes) + 1 \notin DOMAIN writes
           /\ \A i \in DOMAIN writes : writes'[i] = writes[i]
           /\ writes'[Len(writes) + 1] = NewRow(t, at, S, as)
<1> DEFINE w == NewRow(t, at, S, as)
<1>1. w \in RunRows /\ w.at = at
  BY DEF NewRow, RunRows
<1>2. writes \in Seq(RunRows) /\ writes' = Append(writes, w)
  BY DEF WriteType, Persist
<1> HIDE DEF w
<1>3. /\ writes' \in Seq(RunRows)
      /\ DOMAIN writes' = DOMAIN writes \cup {Len(writes) + 1} /\ Len(writes) + 1 \notin DOMAIN writes
      /\ \A i \in DOMAIN writes : writes'[i] = writes[i]
      /\ writes'[Len(writes) + 1] = w
  BY <1>1, <1>2, Appended
<1>4. WriteType'
  BY <1>1, <1>3 DEF WriteType
<1> QED
  BY <1>3, <1>4 DEF w

\* The first row leaves the queue of the persistence worker.
LEMMA TailFacts ==
    ASSUME NEW s \in Seq(RunRows), s # <<>>
    PROVE  /\ Head(s) \in RunRows /\ 1 \in DOMAIN s /\ Head(s) = s[1] /\ Tail(s) \in Seq(RunRows)
           /\ \A i \in DOMAIN Tail(s) : i + 1 \in DOMAIN s /\ i + 1 # 1 /\ Tail(s)[i] = s[i + 1]
           /\ \A j \in DOMAIN s : j # 1 => j - 1 \in DOMAIN Tail(s) /\ Tail(s)[j - 1] = s[j]
           /\ \A i, j \in DOMAIN Tail(s) : i # j => i + 1 # j + 1
<1>1. Len(s) \in Nat /\ DOMAIN s = 1 .. Len(s) /\ Len(s) # 0
  OBVIOUS
<1>2. Head(s) = s[1] /\ Head(s) \in RunRows /\ Tail(s) \in Seq(RunRows) /\ Len(Tail(s)) = Len(s) - 1
  OBVIOUS
<1>3. DOMAIN Tail(s) = 1 .. Len(s) - 1
  BY <1>2
<1>4. \A i \in 1 .. Len(s) - 1 : Tail(s)[i] = s[i + 1]
  OBVIOUS
<1>5. ASSUME NEW i \in 1 .. Len(s) - 1 PROVE i + 1 \in 1 .. Len(s) /\ i + 1 # 1 /\ Tail(s)[i] = s[i + 1]
  BY <1>1, <1>4
<1>6. ASSUME NEW j \in 1 .. Len(s), j # 1 PROVE j - 1 \in 1 .. Len(s) - 1 /\ Tail(s)[j - 1] = s[j]
  <2>1. j - 1 \in 1 .. Len(s) - 1 /\ (j - 1) + 1 = j
    BY <1>1, <1>6
  <2>2. Tail(s)[j - 1] = s[(j - 1) + 1]
    BY <1>4, <2>1
  <2> QED
    BY <2>1, <2>2
<1>7. \A i, j \in 1 .. Len(s) - 1 : i # j => i + 1 # j + 1
  BY <1>1
<1>8. 1 \in 1 .. Len(s)
  BY <1>1
<1> QED
  BY <1>1, <1>2, <1>3, <1>5, <1>6, <1>7, <1>8

\* A report and the runs that make up for it join the queue.
LEMMA Joined ==
    ASSUME NEW s \in Seq(RunRows), NEW w \in RunRows, NEW x \in RunRows, NEW n \in Nat,
           NEW out, out = s \o <<w>> \o [i \in 1 .. n |-> x]
    PROVE  /\ out \in Seq(RunRows)
           /\ DOMAIN s \subseteq DOMAIN out /\ \A i \in DOMAIN s : out[i] = s[i]
           /\ Len(s) + 1 \in DOMAIN out /\ Len(s) + 1 \notin DOMAIN s /\ out[Len(s) + 1] = w
           /\ \A i \in DOMAIN out : i \in DOMAIN s \/ i = Len(s) + 1 \/ out[i] = x
<1> DEFINE r == [i \in 1 .. n |-> x]
           p == Append(s, w)
<1>1. r \in Seq(RunRows) /\ Len(r) = n /\ \A i \in 1 .. n : r[i] = x
  OBVIOUS
<1>2. /\ p \in Seq(RunRows) /\ DOMAIN p = DOMAIN s \cup {Len(s) + 1} /\ Len(s) + 1 \notin DOMAIN s
      /\ \A i \in DOMAIN s : p[i] = s[i]
      /\ p[Len(s) + 1] = w
  BY Appended
<1>3. s \o <<w>> = p
  OBVIOUS
<1>4. out = p \o r
  BY <1>3
<1> HIDE DEF r, p
<1>5. out \in Seq(RunRows) /\ Len(p) \in Nat /\ DOMAIN p = 1 .. Len(p) /\ DOMAIN out = 1 .. Len(p) + n
  <2>1. p \in Seq(RunRows) /\ r \in Seq(RunRows) /\ Len(r) = n
    BY <1>1, <1>2
  <2>2. Len(p) \in Nat /\ DOMAIN p = 1 .. Len(p)
    BY <2>1
  <2>0. \A a, b \in Seq(RunRows) : a \o b \in Seq(RunRows) /\ Len(a \o b) = Len(a) + Len(b)
    OBVIOUS
  <2>3. p \o r \in Seq(RunRows)
    BY <2>0, <2>1
  <2>4. Len(p \o r) = Len(p) + n
    BY <2>0, <2>1
  <2>5. DOMAIN (p \o r) = 1 .. Len(p \o r)
    BY <2>3
  <2> QED
    BY <2>2, <2>3, <2>4, <2>5, <1>4
<1>6. \A i \in 1 .. Len(p) : out[i] = p[i]
  BY <1>1, <1>2, <1>4
<1>7. ASSUME NEW i \in DOMAIN out PROVE i \in DOMAIN p \/ out[i] = x
  <2>1. CASE i \in 1 .. Len(p)
    BY <2>1, <1>5
  <2>2. CASE i \notin 1 .. Len(p)
    <3>1. i \in Len(p) + 1 .. Len(p) + n /\ i - Len(p) \in 1 .. n
      BY <2>2, <1>5
    <3>2. out[i] = r[i - Len(p)]
      BY <3>1, <1>1, <1>2, <1>4
    <3> QED
      BY <3>1, <3>2, <1>1
  <2> QED
    BY <2>1, <2>2
<1>8. DOMAIN p \subseteq DOMAIN out
  BY <1>5
<1> QED
  BY <1>2, <1>5, <1>6, <1>7, <1>8

-----------------------------------------------------------------------------
(***************************************************************************)
(* What goes with the phases of a boot: a reload happens when the daemon   *)
(* is up, nothing is under way before the scheduler starts, and an anchor  *)
(* is taken only of a task whose schedule is RunWisp's.                    *)
(***************************************************************************)
Phases ==
    /\ reload.step # "idle" => phase = "up"
    /\ phase \in {"down", "loaded"} =>
          /\ writes = <<>> /\ calls = {} /\ paused = {}
          /\ \A t \in Tasks : gate[t] = Never /\ entry[t] = NoCron
    /\ phase \in {"loaded", "startup", "catchup"} =>
          \A t \in Tasks : anchor[t] # Never => Schedulable(live[t]) /\ anchor[t] \in Time

LEMMA ShapeInit ==
    ASSUME Init PROVE Shape /\ Phases
<1>1. ClockType /\ EnvType /\ BootType
  BY ConstantFacts DEF Init, ClockType, EnvType, BootType, Defined
<1>2. RowType
  BY ConstantFacts DEF Init, RowType, Rows, NoRow
<1>3. WriteType /\ LiveType /\ KnownType
  BY DEF Init, WriteType, LiveType, KnownType, Live
<1>4. SchedType /\ GateType /\ AnchorType /\ WatchType
  BY ConstantFacts DEF Init, SchedType, GateType, AnchorType, WatchType, NoWatcher, Specs
<1>5. ReloadType /\ OutcomeType
  BY DEF Init, ReloadType, OutcomeType, Idle, Live, Kinds
<1>6. Phases
  BY DEF Init, Phases, Idle
<1> QED
  BY <1>1, <1>2, <1>3, <1>4, <1>5, <1>6 DEF Shape

LEMMA ShapeTick ==
    ASSUME Shape, Phases, Tick PROVE Shape' /\ Phases'
<1>1. now \in Nat /\ now' = now + 1 /\ now' \in Time
  BY ConstantFacts DEF Shape, ClockType, Tick
<1>2. ClockType' /\ GateType'
  BY <1>1, ConstantFacts DEF Shape, ClockType, GateType, Tick, bootVars
<1>3. RowType'
  BY <1>1, ConstantFacts DEF Shape, RowType, Rows, Tick
<1>4. WriteType'
  BY <1>1, ConstantFacts DEF Shape, WriteType, Tick, RunRows
<1>5. OutcomeType'
  BY <1>1, ConstantFacts DEF Shape, OutcomeType, Tick, Arisen, Kinds
<1>6. calls' \subseteq Tasks /\ (phase \in {"down", "loaded"} => calls' = {})
  BY DEF Phases, Tick
<1>7. /\ UNCHANGED <<env, row, writes, bootVars, live, sched, gate, reload, watch>>
  BY DEF Tick
<1>8. Phases'
  BY <1>6, <1>7 DEF Phases, bootVars, sched, Schedulable
<1> QED
  BY <1>2, <1>3, <1>4, <1>5, <1>6, <1>7, <1>8 DEF Shape, EnvType, BootType, LiveType, KnownType, SchedType,
     AnchorType, ReloadType, WatchType, env, bootVars, sched

LEMMA ShapeEnv ==
    ASSUME Shape, Phases, CronFlips \/ \E t \in Tasks : Edit(t) PROVE Shape' /\ Phases'
<1>1. EnvType'
  <2>1. CASE CronFlips
    BY <2>1, ConstantFacts DEF Shape, EnvType, CronFlips
  <2>2. ASSUME NEW t \in Tasks, Edit(t) PROVE EnvType'
    BY <2>2, ConstantFacts DEF Shape, EnvType, Edit, Defined
  <2> QED
    BY <2>1, <2>2
<1>2. UNCHANGED <<now, row, writes, bootVars, live, sched, calls, gate, reload, watch, outcome>>
  BY DEF CronFlips, Edit
<1>3. Phases'
  BY <1>2 DEF Phases, bootVars, sched, Schedulable
<1> QED
  BY <1>1, <1>2, <1>3 DEF Shape, ClockType, BootType, RowType, WriteType, LiveType, KnownType, SchedType,
     GateType, AnchorType, ReloadType, WatchType, OutcomeType, bootVars, sched

LEMMA ShapeWriteRow ==
    ASSUME Shape, Phases, WriteRow PROVE Shape' /\ Phases'
<1> DEFINE w == Head(writes)
<1>1. /\ w \in RunRows /\ 1 \in DOMAIN writes /\ w = writes[1] /\ Tail(writes) \in Seq(RunRows)
      /\ \A i \in DOMAIN Tail(writes) : i + 1 \in DOMAIN writes /\ Tail(writes)[i] = writes[i + 1]
  BY TailFacts DEF WriteRow, Shape, WriteType
<1>2. w.task \in Tasks /\ w.at \in Time /\ w.at <= now /\ w.ticks \subseteq Time
      /\ w.as \in {"ran", "skipped", "missed"}
  BY <1>1 DEF RunRows, Shape, WriteType
<1>3. /\ row' = [row EXCEPT ![w.task] = Bumped(row[w.task], w.at)]
      /\ outcome' = Settled(w.task, w.ticks, w.as)
      /\ writes' = Tail(writes) /\ phase # "down" /\ writes # <<>>
      /\ UNCHANGED <<now, env, bootVars, live, sched, calls, gate, reload, watch>>
  BY DEF WriteRow
<1> HIDE DEF w
<1>4. Bumped(row[w.task], w.at) \in Rows(now)
  BY <1>2, BumpedFacts DEF Shape, RowType, ClockType
<1>5. RowType'
  BY <1>2, <1>3, <1>4 DEF Shape, RowType
<1>6. OutcomeType'
  BY <1>2, <1>3, SettledFacts DEF Shape, OutcomeType
<1>7. WriteType'
  BY <1>1, <1>3 DEF Shape, WriteType
<1>8. Phases'
  BY <1>3 DEF Phases, bootVars, sched, Schedulable
<1> QED
  BY <1>3, <1>5, <1>6, <1>7, <1>8 DEF Shape, ClockType, EnvType, BootType, LiveType, KnownType, SchedType,
     GateType, AnchorType, ReloadType, WatchType, env, bootVars, sched

LEMMA BootRowType ==
    ASSUME Shape, NEW t \in Tasks
    PROVE  /\ BootRow(t) \in Rows(now)
           /\ Schedulable(Loaded[t]) => BootRow(t) # NoRow
           /\ AnchorOf(BootRow(t)) \in Time \cup {Never}
<1>1. row[t] \in Rows(now) /\ NoRow \in Rows(now) /\ now \in Time
  BY ConstantFacts DEF Shape, RowType, Rows, NoRow, ClockType
<1>2. BootRow(t) \in Rows(now) /\ (Schedulable(Loaded[t]) => BootRow(t) # NoRow)
  <2> DEFINE kept == IF Loaded[t] = Absent THEN NoRow ELSE row[t]
  <2>1. kept \in Rows(now)
    BY <1>1
  <2>2. Registered(kept, Loaded[t]) \in Rows(now) /\ Registered(kept, Loaded[t]) # NoRow
    BY <1>1, <2>1, RegisteredFacts
  <2> QED
    BY <2>1, <2>2 DEF BootRow
<1>3. BootRow(t).since \in Time \cup {Never}
  BY <1>1, <1>2, ConstantFacts DEF Rows
<1> QED
  BY <1>2, <1>3 DEF AnchorOf

LEMMA ShapeLoad ==
    ASSUME Shape, Phases, Load PROVE Shape' /\ Phases'
<1>1. /\ UNCHANGED <<now, env, writes, todo, sched, calls, gate, reload>>
      /\ phase = "down" /\ phase' = "loaded" /\ live' = Loaded /\ asOf' = now
  BY DEF Load
<1>2. BootType' /\ WatchType' /\ ClockType'
  BY ConstantFacts, <1>1 DEF Load, Shape, BootType, WatchType, EnvType, ClockType
<1>3. LiveType'
  BY <1>1, LoadedType DEF Shape, LiveType
<1>4. RowType'
  BY BootRowType, <1>1 DEF Load, RowType
<1>5. AnchorType' /\ \A t \in Tasks : anchor'[t] # Never => Schedulable(Loaded[t])
  BY BootRowType DEF Load, AnchorType
<1>6. OutcomeType'
  BY WaivedFacts DEF Load, OutcomeType, Shape
<1>7. Phases'
  <2>1. \A t \in Tasks : anchor'[t] # Never => anchor'[t] \in Time
    BY <1>5 DEF AnchorType
  <2>2. \A t \in Tasks : Schedulable(live'[t]) <=> Schedulable(Loaded[t])
    BY <1>1
  <2> QED
    BY <1>1, <1>5, <2>1, <2>2 DEF Phases, sched, Schedulable
<1> QED
  BY <1>1, <1>2, <1>3, <1>4, <1>5, <1>6, <1>7 DEF Shape, EnvType, WriteType, KnownType, SchedType,
     GateType, ReloadType, env, sched

LEMMA ShapeStartScheduler ==
    ASSUME Shape, Phases, StartScheduler PROVE Shape' /\ Phases'
<1>1. /\ UNCHANGED <<now, env, writes, boots, live, calls, gate, anchor, asOf, reload, watch>>
      /\ phase = "loaded" /\ phase' = "startup" /\ todo' = Tasks /\ known' = live
  BY DEF StartScheduler
<1>2. RowType'
  BY ResumedFacts, <1>1 DEF StartScheduler, Shape, RowType, ClockType
<1>3. SchedType'
  <2>1. \A t \in Tasks : Schedulable(live[t]) => live[t].def.sched \in Specs
    BY SchedulableFacts DEF Shape, LiveType, Specs
  <2> QED
    BY <2>1, <1>1 DEF StartScheduler, Shape, SchedType, Specs
<1>4. OutcomeType'
  BY WaivedFacts DEF StartScheduler, OutcomeType, Shape
<1>5. Phases'
  BY <1>1 DEF Phases, Schedulable
<1> QED
  BY <1>1, <1>2, <1>3, <1>4, <1>5 DEF Shape, ClockType, EnvType, BootType, WriteType, LiveType, KnownType,
     GateType, AnchorType, ReloadType, WatchType, env

LEMMA ShapeRunStartupTask ==
    ASSUME Shape, Phases, NEW t \in Tasks, RunStartupTask(t) PROVE Shape' /\ Phases'
<1>1. /\ UNCHANGED <<now, env, row, phase, boots, anchor, asOf, live, sched, calls, gate, reload, watch,
                     outcome>>
      /\ todo' = todo \ {t} /\ phase = "startup"
      /\ Persist(t, now, {}, "ran") \/ UNCHANGED writes
  BY DEF RunStartupTask
<1>2. WriteType'
  <2>1. now \in Time /\ now \in Nat /\ now' = now /\ now <= now /\ {} \in SUBSET Time
    BY <1>1, ConstantFacts DEF Shape, ClockType
  <2>2. Persist(t, now, {}, "ran") => WriteType'
    BY <2>1, PersistFacts DEF Shape
  <2> QED
    BY <1>1, <2>2 DEF Shape, WriteType
<1>3. Phases'
  BY <1>1 DEF Phases, Schedulable
<1> QED
  BY <1>1, <1>2, <1>3 DEF Shape, ClockType, EnvType, BootType, RowType, LiveType, KnownType, SchedType,
     GateType, AnchorType, ReloadType, WatchType, OutcomeType, env, sched

LEMMA ShapeBootEnds ==
    ASSUME Shape, Phases, StartCatchUp \/ FinishBoot PROVE Shape' /\ Phases'
<1>1. /\ UNCHANGED <<now, env, row, writes, boots, anchor, asOf, live, sched, calls, gate, reload, watch,
                     outcome>>
      /\ phase \in {"startup", "catchup"} /\ phase' \in {"catchup", "up"}
      /\ todo' \subseteq Tasks
  BY DEF StartCatchUp, FinishBoot, Shape, BootType
<1>2. Phases'
  BY <1>1 DEF Phases, Schedulable
<1> QED
  BY <1>1, <1>2 DEF Shape, ClockType, EnvType, BootType, RowType, WriteType, LiveType, KnownType, SchedType,
     GateType, AnchorType, ReloadType, WatchType, OutcomeType, env, sched

\* What the ticks a catch-up reports are, and the rows it sends.
Missable(t) == {k \in Ticks[live[t].def.sched] : anchor[t] < k /\ k <= asOf}

LEMMA MissedFacts ==
    ASSUME Shape, NEW t \in Tasks, Schedulable(live[t]), anchor[t] \in Time,
           NEW M, M = MissedTicks(live[t].def.sched, anchor[t], asOf)
    PROVE  /\ Missable(t) \in SUBSET Time
           /\ M \in SUBSET Missable(t) /\ IsFiniteSet(M)
           /\ M = {} => Missable(t) = {}
<1> DEFINE s == live[t].def.sched
<1>1. /\ Ticks[s] \subseteq Nat /\ asOf \in Nat /\ MaxTime \in Nat /\ asOf <= MaxTime
      /\ asOf \in Time /\ Time = 0 .. MaxTime /\ anchor[t] \in Nat
  BY SchedulableFacts, ConstantFacts DEF Shape, LiveType, ClockType
<1>2. M = {k \in Missable(t) : s \in Every \/ ~\E j \in Missable(t) : j < k /\ Wall[j] = Wall[k]}
  BY DEF MissedTicks, Missable
<1>3. Missable(t) \subseteq 0 .. asOf
  BY <1>1 DEF Missable
<1>4. Missable(t) \in SUBSET Time
  BY <1>1, <1>3
<1>5. IsFiniteSet(M)
  <2>1. IsFiniteSet(0 .. asOf)
    BY <1>1, FS_Interval
  <2>2. M \subseteq 0 .. asOf
    BY <1>2, <1>3
  <2> QED
    BY <2>1, <2>2, FS_Subset
<1>6. ASSUME Missable(t) # {} PROVE M # {}
  <2>1. Missable(t) \in SUBSET Nat
    BY <1>1 DEF Missable
  <2>2. PICK x \in Missable(t) : \A y \in Missable(t) : x <= y
    BY <1>6, <2>1, HasMin
  <2>3. ~\E j \in Missable(t) : j < x /\ Wall[j] = Wall[x]
    <3>1. \A j \in Missable(t) : ~(j < x)
      BY <2>1, <2>2
    <3> QED
      BY <3>1
  <2> QED
    BY <1>2, <2>2, <2>3
<1> QED
  BY <1>2, <1>4, <1>5, <1>6

LEMMA CatchUpFacts ==
    ASSUME Shape, Phases, NEW t \in Tasks, CatchUpTask(t)
    PROVE  \/ /\ UNCHANGED writes
              /\ anchor[t] # Never => Schedulable(live[t]) /\ Missable(t) = {}
           \/ /\ anchor[t] # Never /\ anchor[t] \in Time /\ Schedulable(live[t])
              /\ Missable(t) \in SUBSET Time
              /\ \E at \in Time, n \in Nat :
                    /\ at <= asOf
                    /\ writes' = writes \o <<NewRow(t, at, Missable(t), "missed")>>
                                        \o [i \in 1 .. n |-> NewRow(t, now, {}, "ran")]
<1> DEFINE d == live[t].def
           M == MissedTicks(d.sched, anchor[t], asOf)
           at == MissedAt(M, d)
           n == CatchUpTriggers(M, d)
<1>1. IF anchor[t] # Never /\ M # {}
      THEN writes' = writes \o <<NewRow(t, at, Missable(t), "missed")>>
                            \o [i \in 1 .. n |-> NewRow(t, now, {}, "ran")]
      ELSE UNCHANGED writes
  BY DEF CatchUpTask, LookBack, Missable
<1>2. CASE anchor[t] = Never
  BY <1>1, <1>2
<1>3. CASE anchor[t] # Never
  <2>1. Schedulable(live[t]) /\ anchor[t] \in Time
    BY <1>3 DEF Phases, CatchUpTask
  <2>2. /\ Missable(t) \in SUBSET Time /\ M \in SUBSET Missable(t) /\ IsFiniteSet(M)
        /\ M = {} => Missable(t) = {}
    BY <2>1, MissedFacts
  <2>3. CASE M = {}
    BY <1>1, <2>1, <2>2, <2>3
  <2>4. CASE M # {}
    <3>1. d \in Defs /\ d.catchUp \in Nat
      <4>1. live[t] \in Live /\ live[t] # Absent
        BY <2>1 DEF Shape, LiveType, Schedulable
      <4>2. d \in Defs
        BY <4>1, LiveFacts
      <4> QED
        BY <4>2 DEF Defs
    <3>2. Cardinality(M) \in Nat
      BY <2>2, FS_CardinalityType
    <3>3. n \in Nat
      BY <3>1, <3>2 DEF CatchUpTriggers
    <3>4. asOf \in Nat /\ asOf \in Time /\ Time = 0 .. MaxTime
      BY ConstantFacts DEF Shape, ClockType
    <3>5. M \in SUBSET (0 .. asOf)
      BY <2>2, <3>4 DEF Missable
    <3>6. Max(M) \in M
      BY <2>4, <3>4, <3>5, MaxFacts
    <3>7. at \in Time /\ at <= asOf
      <4>1. Max(M) \in Time /\ Max(M) <= asOf
        BY <3>6, <3>5, <2>2, <3>4
      <4> HIDE DEF M
      <4>2. at = asOf \/ at = Max(M)
        BY DEF MissedAt
      <4> QED
        BY <4>1, <4>2, <3>4
    <3>8. writes' = writes \o <<NewRow(t, at, Missable(t), "missed")>>
                           \o [i \in 1 .. n |-> NewRow(t, now, {}, "ran")]
      BY <1>1, <1>3, <2>4
    <3> HIDE DEF n, at
    <3> QED
      BY <1>3, <2>1, <2>2, <3>3, <3>7, <3>8
  <2> QED
    BY <2>3, <2>4
<1> QED
  BY <1>2, <1>3

\* The same, row by row.
LEMMA CatchUpRows ==
    ASSUME Shape, Phases, NEW t \in Tasks, CatchUpTask(t)
    PROVE  \/ /\ UNCHANGED writes
              /\ anchor[t] # Never => Schedulable(live[t]) /\ Missable(t) = {}
           \/ /\ anchor[t] # Never /\ anchor[t] \in Time /\ Schedulable(live[t])
              /\ Missable(t) \in SUBSET Time
              /\ writes' \in Seq(RunRows)
              /\ DOMAIN writes \subseteq DOMAIN writes'
              /\ \A i \in DOMAIN writes : writes'[i] = writes[i]
              /\ \E r \in DOMAIN writes' \ DOMAIN writes, at \in Time :
                    /\ at <= asOf /\ writes'[r] = NewRow(t, at, Missable(t), "missed")
                    /\ \A i \in DOMAIN writes' :
                         i \in DOMAIN writes \/ i = r \/ writes'[i] = NewRow(t, now, {}, "ran")
<1>1. CASE /\ anchor[t] # Never /\ anchor[t] \in Time /\ Schedulable(live[t])
           /\ Missable(t) \in SUBSET Time
           /\ \E at \in Time, n \in Nat :
                 /\ at <= asOf
                 /\ writes' = writes \o <<NewRow(t, at, Missable(t), "missed")>>
                                     \o [i \in 1 .. n |-> NewRow(t, now, {}, "ran")]
  <2>1. PICK at \in Time, n \in Nat :
            /\ at <= asOf
            /\ writes' = writes \o <<NewRow(t, at, Missable(t), "missed")>>
                                \o [i \in 1 .. n |-> NewRow(t, now, {}, "ran")]
    BY <1>1
  <2> DEFINE w == NewRow(t, at, Missable(t), "missed")
             x == NewRow(t, now, {}, "ran")
  <2>2. w \in RunRows /\ x \in RunRows /\ writes \in Seq(RunRows)
    BY <1>1 DEF NewRow, RunRows, Shape, ClockType, WriteType
  <2>3. writes' = writes \o <<w>> \o [i \in 1 .. n |-> x]
    BY <2>1
  <2> HIDE DEF w, x
  <2>4. /\ writes' \in Seq(RunRows)
        /\ DOMAIN writes \subseteq DOMAIN writes' /\ \A i \in DOMAIN writes : writes'[i] = writes[i]
        /\ Len(writes) + 1 \in DOMAIN writes' /\ Len(writes) + 1 \notin DOMAIN writes
        /\ writes'[Len(writes) + 1] = w
        /\ \A i \in DOMAIN writes' : i \in DOMAIN writes \/ i = Len(writes) + 1 \/ writes'[i] = x
    BY <2>2, <2>3, Joined
  <2>5. \E r \in DOMAIN writes' \ DOMAIN writes :
            /\ writes'[r] = w
            /\ \A i \in DOMAIN writes' : i \in DOMAIN writes \/ i = r \/ writes'[i] = x
    BY <2>4
  <2>6. at \in Time /\ at <= asOf /\ w = NewRow(t, at, Missable(t), "missed") /\ x = NewRow(t, now, {}, "ran")
    BY <2>1 DEF w, x
  <2> QED
    BY <1>1, <2>4, <2>5, <2>6
<1> QED
  BY <1>1, CatchUpFacts

LEMMA ShapeCatchUpTask ==
    ASSUME Shape, Phases, NEW t \in Tasks, CatchUpTask(t) PROVE Shape' /\ Phases'
<1>1. /\ UNCHANGED <<now, env, row, phase, boots, anchor, asOf, live, sched, calls, gate, reload, watch,
                     outcome>>
      /\ todo' = todo \ {t} /\ phase = "catchup"
  BY DEF CatchUpTask
<1>2. WriteType'
  <2>1. /\ writes' \in Seq(RunRows)
        /\ \/ writes' = writes
           \/ /\ \A i \in DOMAIN writes : writes'[i] = writes[i]
              /\ \E r, at : /\ at \in Time /\ at <= asOf /\ writes'[r] = NewRow(t, at, Missable(t), "missed")
                            /\ \A i \in DOMAIN writes' :
                                 i \in DOMAIN writes \/ i = r \/ writes'[i] = NewRow(t, now, {}, "ran")
    BY CatchUpRows DEF Shape, WriteType
  <2>2. \A at : NewRow(t, at, Missable(t), "missed").at = at
    BY DEF NewRow
  <2>3. NewRow(t, now, {}, "ran").at = now
    BY DEF NewRow
  <2>4. now \in Nat /\ asOf \in Nat /\ asOf <= now /\ now' = now
    BY <1>1, ConstantFacts DEF Shape, ClockType
  <2>5. \A at \in Time : at <= asOf => at <= now
    BY <2>4, ConstantFacts
  <2> QED
    BY <2>1, <2>2, <2>3, <2>4, <2>5 DEF Shape, WriteType
<1>3. Phases'
  BY <1>1 DEF Phases, Schedulable
<1> QED
  BY <1>1, <1>2, <1>3 DEF Shape, ClockType, EnvType, BootType, RowType, LiveType, KnownType, SchedType,
     GateType, AnchorType, ReloadType, WatchType, OutcomeType, env, sched

\* Fire, by what becomes of the callback: refused, recorded as a repeat, held in
\* the gate, or handed to the manager.
LEMMA FireFacts ==
    ASSUME NEW t \in Tasks, Fire(t)
    PROVE  /\ t \in calls /\ calls' = calls \ {t}
           /\ UNCHANGED <<now, env, row, bootVars, live, known, entry, paused, reload, watch>>
           /\ fired' = fired \/ \E S \in {fired[t], FiredNow(t)} : fired' = [fired EXCEPT ![t] = S]
           /\ \/ /\ t \in paused \/ live[t] = Absent
                 /\ outcome' = [outcome EXCEPT ![t] = Waived(t)]
                 /\ UNCHANGED <<writes, gate, fired>>
              \/ /\ ~(t \in paused \/ live[t] = Absent)
                 /\ \E as \in {"ran", "skipped"} : Persist(t, now, {now}, as)
                 /\ UNCHANGED <<gate, outcome>>
              \/ /\ ~(t \in paused \/ live[t] = Absent)
                 /\ gate' = [gate EXCEPT ![t] = now]
                 /\ UNCHANGED <<writes, outcome>>
<1>1. /\ t \in calls /\ calls' = calls \ {t}
      /\ UNCHANGED <<now, env, row, bootVars, live, known, entry, paused, reload, watch>>
  BY DEF Fire
<1>2. CASE t \in paused \/ live[t] = Absent
  BY <1>1, <1>2 DEF Fire, Refuse
<1>3. CASE ~(t \in paused \/ live[t] = Absent)
  <2>1. FireUnpaused(t)
    BY <1>3 DEF Fire
  <2>2. CASE ~(entry[t] \in Every) /\ Repeat(t)
    BY <1>1, <1>3, <2>1, <2>2 DEF FireUnpaused
  <2>3. CASE ~(~(entry[t] \in Every) /\ Repeat(t))
    <3>1. fired' = [fired EXCEPT ![t] = IF entry[t] \in Every THEN fired[t] ELSE FiredNow(t)] /\ StartOrHold(t)
      BY <2>1, <2>3 DEF FireUnpaused
    <3>2. \E S \in {fired[t], FiredNow(t)} : fired' = [fired EXCEPT ![t] = S]
      BY <3>1
    <3> QED
      BY <1>1, <1>3, <3>1, <3>2 DEF StartOrHold
  <2> QED
    BY <2>2, <2>3
<1> QED
  BY <1>2, <1>3

LEMMA ShapeFire ==
    ASSUME Shape, Phases, NEW t \in Tasks, Fire(t) PROVE Shape' /\ Phases'
<1>1. /\ t \in calls /\ calls' = calls \ {t}
      /\ UNCHANGED <<now, env, row, bootVars, live, known, entry, paused, reload, watch>>
      /\ fired' = fired \/ \E S \in {fired[t], FiredNow(t)} : fired' = [fired EXCEPT ![t] = S]
      /\ phase \notin {"down", "loaded"}
  BY FireFacts DEF Phases
<1>2. now \in Time /\ now \in Nat /\ now' = now /\ now <= now /\ {now} \in SUBSET Time
  BY <1>1, ConstantFacts DEF Shape, ClockType
<1>3. SchedType'
  <2>1. FiredNow(t) \subseteq Time
    BY <1>2 DEF FiredNow, Shape, SchedType
  <2> QED
    BY <1>1, <2>1 DEF Shape, SchedType
<1>4. WriteType'
  <2>1. \A as \in {"ran", "skipped"} : Persist(t, now, {now}, as) => WriteType'
    BY <1>2, PersistFacts DEF Shape
  <2>2. UNCHANGED writes \/ \E as \in {"ran", "skipped"} : Persist(t, now, {now}, as)
    BY FireFacts
  <2> QED
    BY <1>2, <2>1, <2>2 DEF Shape, WriteType
<1>5. GateType'
  <2>1. gate' = gate \/ gate' = [gate EXCEPT ![t] = now]
    BY FireFacts
  <2> QED
    BY <1>2, <2>1 DEF Shape, GateType
<1>6. OutcomeType'
  <2>1. outcome' = outcome \/ outcome' = [outcome EXCEPT ![t] = Waived(t)]
    BY FireFacts
  <2> QED
    BY <2>1, WaivedFacts DEF Shape, OutcomeType
<1>7. Phases'
  BY <1>1 DEF Phases, bootVars, Schedulable
<1> QED
  BY <1>1, <1>3, <1>4, <1>5, <1>6, <1>7 DEF Shape, ClockType, EnvType, BootType, RowType, LiveType, KnownType,
     AnchorType, ReloadType, WatchType, env, bootVars

LEMMA ShapeRelease ==
    ASSUME Shape, Phases, NEW t \in Tasks, Release(t) PROVE Shape' /\ Phases'
<1>1. /\ gate[t] # Never /\ gate' = [gate EXCEPT ![t] = Never]
      /\ UNCHANGED <<now, env, row, bootVars, live, sched, calls, reload, watch>>
      /\ \/ UNCHANGED writes /\ outcome' = [outcome EXCEPT ![t] = Waived(t)]
         \/ Persist(t, gate[t], {gate[t]}, "ran") /\ UNCHANGED outcome
  BY DEF Release, ReleaseChecked
<1>2. gate[t] \in Time /\ gate[t] <= now /\ now \in Time /\ now' = now /\ {gate[t]} \in SUBSET Time
  BY <1>1 DEF Shape, GateType, ClockType
<1>3. WriteType'
  <2>1. Persist(t, gate[t], {gate[t]}, "ran") => WriteType'
    BY <1>2, PersistFacts DEF Shape
  <2> QED
    BY <1>1, <1>2, <2>1 DEF Shape, WriteType
<1>4. GateType'
  BY <1>1, <1>2, ConstantFacts DEF Shape, GateType
<1>5. OutcomeType'
  BY <1>1, WaivedFacts DEF Shape, OutcomeType
<1>6. Phases'
  BY <1>1 DEF Phases, bootVars, sched, Schedulable
<1> QED
  BY <1>1, <1>3, <1>4, <1>5, <1>6 DEF Shape, ClockType, EnvType, BootType, RowType, LiveType, KnownType,
     SchedType, AnchorType, ReloadType, WatchType, env, bootVars, sched

LEMMA ShapeManualRun ==
    ASSUME Shape, Phases, NEW t \in Tasks, ManualRun(t) PROVE Shape' /\ Phases'
<1>1. /\ UNCHANGED <<now, env, row, bootVars, live, sched, calls, gate, reload, watch, outcome>>
      /\ phase = "up" /\ Persist(t, now, {}, "ran")
  BY DEF ManualRun
<1>2. WriteType'
  <2>1. now \in Time /\ now \in Nat /\ now' = now /\ now <= now /\ {} \in SUBSET Time
    BY <1>1, ConstantFacts DEF Shape, ClockType
  <2> QED
    BY <1>1, <2>1, PersistFacts DEF Shape
<1>3. Phases'
  BY <1>1 DEF Phases, bootVars
<1> QED
  BY <1>1, <1>2, <1>3 DEF Shape, ClockType, EnvType, BootType, RowType, LiveType, KnownType, SchedType,
     GateType, AnchorType, ReloadType, WatchType, OutcomeType, env, bootVars, sched

LEMMA ShapePause ==
    ASSUME Shape, Phases, NEW t \in Tasks, Pause(t) PROVE Shape' /\ Phases'
<1>1. /\ UNCHANGED <<now, env, writes, bootVars, live, known, entry, fired, calls, gate, reload, watch,
                     outcome>>
      /\ phase = "up" /\ paused' = paused \cup {t}
      /\ row' = [row EXCEPT ![t] = [since |-> IF row[t] = NoRow THEN now ELSE row[t].since, paused |-> TRUE]]
  BY DEF Pause
<1>2. RowType'
  BY <1>1, ConstantFacts DEF Shape, RowType, Rows, ClockType
<1>3. Phases'
  BY <1>1 DEF Phases, bootVars
<1> QED
  BY <1>1, <1>2, <1>3 DEF Shape, ClockType, EnvType, BootType, WriteType, LiveType, KnownType, SchedType,
     GateType, AnchorType, ReloadType, WatchType, OutcomeType, env, bootVars

LEMMA ShapeResume ==
    ASSUME Shape, Phases, NEW t \in Tasks, Resume(t) PROVE Shape' /\ Phases'
<1>1. /\ UNCHANGED <<now, env, writes, bootVars, live, known, entry, fired, calls, gate, reload, watch>>
      /\ phase = "up" /\ paused' = paused \ {t}
      /\ row' = [row EXCEPT ![t] = Resumed(row[t])]
      /\ outcome' = [outcome EXCEPT ![t] = Waived(t)]
  BY DEF Resume
<1>2. RowType' /\ OutcomeType'
  BY <1>1, ResumedFacts, WaivedFacts DEF Shape, RowType, ClockType, OutcomeType
<1>3. Phases'
  BY <1>1 DEF Phases, bootVars
<1> QED
  BY <1>1, <1>2, <1>3 DEF Shape, ClockType, EnvType, BootType, WriteType, LiveType, KnownType, SchedType,
     GateType, AnchorType, ReloadType, WatchType, env, bootVars

LEMMA ShapeRemove ==
    ASSUME Shape, Phases, Remove PROVE Shape' /\ Phases'
<1>1. /\ UNCHANGED <<now, env, writes, bootVars, known, paused, calls, gate, watch>>
      /\ reload.step = "remove" /\ reload' = [reload EXCEPT !.step = "update"] /\ phase = "up"
  BY DEF Remove, Phases
<1>2. ReloadType' /\ LiveType'
  BY <1>1 DEF Remove, Shape, ReloadType, LiveType, Live
<1>3. SchedType'
  BY <1>1 DEF Remove, Shape, SchedType, Specs
<1>4. RowType'
  BY <1>1, ConstantFacts DEF Remove, Shape, RowType, Rows, NoRow, ClockType
<1>5. OutcomeType'
  BY WaivedFacts DEF Remove, Shape, OutcomeType
<1>6. Phases'
  BY <1>1 DEF Phases, bootVars
<1> QED
  BY <1>1, <1>2, <1>3, <1>4, <1>5, <1>6 DEF Shape, ClockType, EnvType, BootType, WriteType, KnownType,
     GateType, AnchorType, WatchType, env, bootVars

LEMMA ShapeUpdate ==
    ASSUME Shape, Phases, NEW t \in Tasks, Update(t) PROVE Shape' /\ Phases'
<1> DEFINE x == reload.target[t]
<1>1. /\ UNCHANGED <<now, env, writes, bootVars, known, calls, gate, reload, watch>>
      /\ reload.step = "update" /\ phase = "up" /\ x \in Live
      /\ live' = [live EXCEPT ![t] = x] /\ row' = [row EXCEPT ![t] = UpdatedRow(t, x)]
      /\ outcome' = outcome \/ outcome' = [outcome EXCEPT ![t] = Waived(t)]
      /\ paused' \subseteq paused \cup {t}
      /\ \/ entry' = [entry EXCEPT ![t] = Rescheduled(x)] /\ fired' = [fired EXCEPT ![t] = {}]
         \/ UNCHANGED <<entry, fired>>
  BY DEF Update, Phases, Shape, ReloadType
<1>2. LiveType'
  BY <1>1 DEF Shape, LiveType
<1>3. SchedType'
  <2>1. Rescheduled(x) \in Specs
    BY <1>1, SchedulableFacts DEF Rescheduled, Specs
  <2> QED
    BY <1>1, <2>1 DEF Shape, SchedType
<1>4. RowType'
  <2>1. UpdatedRow(t, x) \in Rows(now)
    BY RegisteredFacts DEF UpdatedRow, Shape, RowType, ClockType
  <2> QED
    BY <1>1, <2>1 DEF Shape, RowType
<1>5. OutcomeType'
  BY <1>1, WaivedFacts DEF Shape, OutcomeType
<1>6. Phases'
  BY <1>1 DEF Phases, bootVars
<1> QED
  BY <1>1, <1>2, <1>3, <1>4, <1>5, <1>6 DEF Shape, ClockType, EnvType, BootType, WriteType, KnownType,
     GateType, AnchorType, ReloadType, WatchType, env, bootVars

LEMMA ShapeReload ==
    ASSUME Shape, Phases, Reload \/ SwapTasks \/ Probe \/ \E answer \in BOOLEAN : RefreshCronHolds(answer)
    PROVE  Shape' /\ Phases'
<1>1. /\ UNCHANGED <<now, env, row, writes, bootVars, live, entry, paused, fired, calls, gate, outcome>>
      /\ phase = "up"
  BY DEF Reload, SwapTasks, Probe, RefreshCronHolds, sched, Phases
<1>2. ReloadType'
  <2>1. CASE Reload
    BY <2>1, LoadedType DEF Reload, Shape, ReloadType, EnvType
  <2>2. CASE SwapTasks
    BY <2>2 DEF SwapTasks, Shape, ReloadType
  <2>3. CASE Probe
    BY <2>3 DEF Probe, Shape, ReloadType
  <2>4. ASSUME NEW answer \in BOOLEAN, RefreshCronHolds(answer) PROVE ReloadType'
    BY <2>4, HoldType DEF RefreshCronHolds, Shape, ReloadType
  <2> QED
    BY <2>1, <2>2, <2>3, <2>4
<1>3. KnownType'
  BY DEF Reload, SwapTasks, Probe, RefreshCronHolds, sched, Shape, KnownType, ReloadType
<1>4. WatchType'
  <2>1. Reload \/ SwapTasks => WatchType'
    BY DEF Reload, SwapTasks, Shape, WatchType
  <2>2. CASE Probe
    BY <2>2 DEF Probe, Shape, WatchType, EnvType
  <2>3. ASSUME NEW answer \in BOOLEAN, RefreshCronHolds(answer) PROVE WatchType'
    BY <2>3 DEF RefreshCronHolds, Shape, WatchType
  <2> QED
    BY <2>1, <2>2, <2>3
<1>5. Phases'
  BY <1>1 DEF Phases, bootVars
<1> QED
  BY <1>1, <1>2, <1>3, <1>4, <1>5 DEF Shape, ClockType, EnvType, BootType, RowType, WriteType, LiveType,
     SchedType, GateType, AnchorType, OutcomeType, env, bootVars

LEMMA ShapePrunePauses ==
    ASSUME Shape, Phases, PrunePauses PROVE Shape' /\ Phases'
<1>1. /\ UNCHANGED <<now, env, writes, bootVars, live, known, entry, fired, calls, gate>>
      /\ reload.step = "prune" /\ phase = "up" /\ reload' = [reload EXCEPT !.step = "idle"]
      /\ paused' \subseteq paused
  BY DEF PrunePauses, PrunePaused, Phases
<1>2. RowType'
  BY <1>1, ResumedFacts DEF PrunePauses, PrunePaused, Shape, RowType, ClockType
<1>3. OutcomeType'
  BY WaivedFacts DEF PrunePauses, PrunePaused, Shape, OutcomeType
<1>4. ReloadType' /\ WatchType'
  BY <1>1 DEF PrunePauses, Shape, ReloadType, WatchType
<1>5. Phases'
  BY <1>1 DEF Phases, bootVars
<1> QED
  BY <1>1, <1>2, <1>3, <1>4, <1>5 DEF Shape, ClockType, EnvType, BootType, WriteType, LiveType, KnownType,
     SchedType, GateType, AnchorType, env, bootVars

LEMMA ShapeGone ==
    ASSUME Shape, Phases, Stop \/ Crash PROVE Shape' /\ Phases'
<1>1. Gone
  BY DEF Stop, Crash
<1>2. UNCHANGED <<now, env, row, boots, live, outcome>> /\ phase' = "down"
  BY <1>1 DEF Gone
<1>3. ClockType' /\ BootType' /\ GateType' /\ AnchorType'
  BY <1>1, ConstantFacts DEF Gone, Shape, ClockType, BootType, GateType, AnchorType
<1>4. WriteType' /\ KnownType' /\ SchedType' /\ ReloadType' /\ WatchType'
  BY <1>1 DEF Gone, WriteType, KnownType, SchedType, ReloadType, WatchType, Live, Specs, Idle, NoWatcher
<1>5. Phases'
  BY <1>1 DEF Gone, Phases, Idle
<1> QED
  BY <1>2, <1>3, <1>4, <1>5 DEF Shape, EnvType, RowType, LiveType, OutcomeType, env

LEMMA ShapeStep ==
    ASSUME Shape, Phases, [Next]_vars PROVE Shape' /\ Phases'
<1>1. CASE UNCHANGED vars
  BY <1>1 DEF vars, env, bootVars, sched, Shape, Phases, ClockType, EnvType, BootType, RowType, WriteType,
     LiveType, KnownType, SchedType, GateType, AnchorType, ReloadType, WatchType, OutcomeType, Schedulable
<1>2. CASE Next
  BY <1>2, ShapeTick, ShapeEnv, ShapeWriteRow, ShapeLoad, ShapeStartScheduler, ShapeRunStartupTask,
     ShapeBootEnds, ShapeCatchUpTask, ShapeFire, ShapeRelease, ShapeManualRun, ShapePause, ShapeResume,
     ShapeRemove, ShapeUpdate, ShapeReload, ShapePrunePauses, ShapeGone DEF Next, BootStep, ReloadStep
<1> QED
  BY <1>1, <1>2

-----------------------------------------------------------------------------
(***************************************************************************)
(* Memory, row and config agree: the cron entries are those of the live    *)
(* config, a task whose schedule is RunWisp's has a row, the scheduler     *)
(* holds back what the row says paused, and a reload brings known and      *)
(* live to its target. In the middle of a reload less is true, and this    *)
(* says how much: a removed task may still be held back without a row, and *)
(* the scheduler's task set trails the registry's.                         *)
(***************************************************************************)
EntryMatches == Running => \A t \in Tasks : entry[t] = Rescheduled(live[t])

RowThere == \A t \in Tasks : Schedulable(live[t]) => row[t] # NoRow

PauseMatches == Running => \A t \in Tasks :
    /\ row[t].paused => t \in paused
    /\ t \in paused /\ ~row[t].paused =>
          reload.step \in {"update", "prune"} /\ reload.whole /\ reload.target[t] = Absent
    /\ t \in paused => \/ Pausable(known[t])
                       \/ reload.step = "prune"
                       \/ reload.step = "update" /\ Pausable(reload.target[t])

TargetMatches ==
    /\ AtRest => known = live
    /\ reload.step = "remove" => reload.whole
    /\ reload.step \in {"update", "prune"} =>
          \A t \in Tasks : reload.target[t] = Absent => live[t] = Absent
    /\ reload.step = "prune" => live = reload.target /\ known = live
    /\ reload.step = "update" /\ ~reload.whole => \A t \in Tasks :
          /\ known[t] = Absent <=> reload.target[t] = Absent
          /\ known[t] # Absent => known[t].def = reload.target[t].def

Agree == EntryMatches /\ RowThere /\ PauseMatches /\ TargetMatches

\* A step that leaves all of these alone, but for how far back a row looks.
LEMMA AgreeKept ==
    ASSUME Agree, UNCHANGED <<live, known, entry, paused, reload>>, Running' => Running,
           \A t \in Tasks : row'[t].paused = row[t].paused /\ (row'[t] = NoRow <=> row[t] = NoRow)
    PROVE  Agree'
<1>1. EntryMatches' /\ RowThere'
  BY DEF Agree, EntryMatches, RowThere, Rescheduled, Schedulable
<1>2. PauseMatches'
  BY DEF Agree, PauseMatches, Pausable
<1>3. TargetMatches'
  BY DEF Agree, TargetMatches, AtRest
<1> QED
  BY <1>1, <1>2, <1>3 DEF Agree

LEMMA AgreeInit ==
    ASSUME Init PROVE Agree
<1>1. ~Running /\ reload.step = "idle" /\ \A t \in Tasks : live[t] = Absent
  BY DEF Init, Running, Idle
<1> QED
  BY <1>1 DEF Agree, EntryMatches, RowThere, PauseMatches, TargetMatches, AtRest, Schedulable

LEMMA AgreeQuiet ==
    ASSUME Shape, Phases, Agree,
           \/ Tick \/ CronFlips \/ StartCatchUp \/ FinishBoot \/ Probe
           \/ \E t \in Tasks : \/ Edit(t) \/ RunStartupTask(t) \/ CatchUpTask(t)
                               \/ Fire(t) \/ Release(t) \/ ManualRun(t)
    PROVE  Agree'
<1>1. UNCHANGED <<live, known, entry, paused, reload, row>>
  BY FireFacts DEF Tick, CronFlips, StartCatchUp, FinishBoot, Probe, Edit, RunStartupTask, CatchUpTask, Release,
     ManualRun, sched
<1>2. UNCHANGED phase \/ (phase = "startup" /\ phase' = "catchup") \/ phase = "catchup"
  BY FireFacts DEF Tick, CronFlips, StartCatchUp, FinishBoot, Probe, Edit, RunStartupTask, CatchUpTask, Release,
     ManualRun, bootVars
<1> QED
  BY <1>1, <1>2, AgreeKept DEF Running

LEMMA AgreeWriteRow ==
    ASSUME Shape, Phases, Agree, WriteRow PROVE Agree'
<1> DEFINE w == Head(writes)
<1>1. w.task \in Tasks /\ w.at \in Time /\ w.at <= now
  <2>1. w \in RunRows /\ 1 \in DOMAIN writes /\ w = writes[1]
    BY TailFacts DEF WriteRow, Shape, WriteType
  <2> QED
    BY <2>1 DEF RunRows, Shape, WriteType
<1>2. /\ row' = [row EXCEPT ![w.task] = Bumped(row[w.task], w.at)]
      /\ UNCHANGED <<live, known, entry, paused, reload, phase>>
  BY DEF WriteRow, sched, bootVars
<1> HIDE DEF w
<1>3. /\ Bumped(row[w.task], w.at).paused = row[w.task].paused
      /\ Bumped(row[w.task], w.at) = NoRow <=> row[w.task] = NoRow
  BY <1>1, BumpedFacts DEF Shape, RowType, ClockType
<1>4. \A t \in Tasks : row'[t].paused = row[t].paused /\ (row'[t] = NoRow <=> row[t] = NoRow)
  BY <1>1, <1>2, <1>3 DEF Shape, RowType
<1> QED
  BY <1>2, <1>4, AgreeKept DEF Running

LEMMA AgreeLoad ==
    ASSUME Shape, Phases, Agree, Load PROVE Agree'
<1>1. ~Running' /\ reload' = reload /\ reload.step = "idle"
  BY DEF Load, Running, Phases, Shape, ReloadType
<1>2. RowThere'
  <2>1. \A t \in Tasks : live'[t] = Loaded[t] /\ row'[t] = BootRow(t)
    BY DEF Load
  <2> QED
    BY <2>1, BootRowType DEF RowThere, Schedulable
<1> QED
  BY <1>1, <1>2 DEF Agree, EntryMatches, PauseMatches, TargetMatches, AtRest

LEMMA AgreeStartScheduler ==
    ASSUME Shape, Phases, Agree, StartScheduler PROVE Agree'
<1>1. /\ UNCHANGED <<live, reload>> /\ known' = live /\ phase = "loaded" /\ reload.step = "idle"
      /\ \A t \in Tasks : /\ t \in paused' <=> row[t].paused /\ Pausable(live[t])
                          /\ row'[t] = IF Pausable(live[t]) THEN row[t] ELSE Resumed(row[t])
                          /\ entry'[t] = IF Schedulable(live[t]) THEN live[t].def.sched ELSE NoCron
  BY DEF StartScheduler, Phases
<1>2. \A t \in Tasks : ~Resumed(row[t]).paused /\ (row[t] # NoRow => Resumed(row[t]) # NoRow)
  BY ResumedFacts DEF Shape, RowType, ClockType
<1>3. EntryMatches'
  BY <1>1 DEF EntryMatches, Rescheduled, Schedulable
<1>4. RowThere'
  BY <1>1, <1>2 DEF Agree, RowThere, Schedulable
<1>5. PauseMatches'
  BY <1>1, <1>2 DEF PauseMatches, Pausable
<1>6. TargetMatches'
  BY <1>1 DEF TargetMatches, AtRest
<1> QED
  BY <1>3, <1>4, <1>5, <1>6 DEF Agree

LEMMA AgreePause ==
    ASSUME Shape, Phases, Agree, NEW t \in Tasks, Pause(t) PROVE Agree'
<1>1. /\ UNCHANGED <<live, known, entry, reload, phase>>
      /\ paused' = paused \cup {t} /\ Pausable(known[t])
      /\ row' = [row EXCEPT ![t] = [since |-> IF row[t] = NoRow THEN now ELSE row[t].since, paused |-> TRUE]]
  BY DEF Pause, bootVars
<1>2. row'[t].paused /\ row'[t] # NoRow /\ \A u \in Tasks \ {t} : row'[u] = row[u]
  BY <1>1 DEF Shape, RowType, NoRow
<1>3. EntryMatches' /\ RowThere'
  BY <1>1, <1>2 DEF Agree, EntryMatches, RowThere, Rescheduled, Schedulable, Running
<1>4. PauseMatches'
  BY <1>1, <1>2 DEF Agree, PauseMatches, Running, Pausable
<1>5. TargetMatches'
  BY <1>1 DEF Agree, TargetMatches, AtRest, Running
<1> QED
  BY <1>3, <1>4, <1>5 DEF Agree

LEMMA AgreeResume ==
    ASSUME Shape, Phases, Agree, NEW t \in Tasks, Resume(t) PROVE Agree'
<1>1. /\ UNCHANGED <<live, known, entry, reload, phase>>
      /\ paused' = paused \ {t} /\ row' = [row EXCEPT ![t] = Resumed(row[t])]
  BY DEF Resume, bootVars
<1>2. ~row'[t].paused /\ (row[t] # NoRow => row'[t] # NoRow) /\ \A u \in Tasks \ {t} : row'[u] = row[u]
  BY <1>1, ResumedFacts DEF Shape, RowType, ClockType
<1>3. EntryMatches' /\ RowThere'
  BY <1>1, <1>2 DEF Agree, EntryMatches, RowThere, Rescheduled, Schedulable, Running
<1>4. PauseMatches'
  BY <1>1, <1>2 DEF Agree, PauseMatches, Running, Pausable
<1>5. TargetMatches'
  BY <1>1 DEF Agree, TargetMatches, AtRest, Running
<1> QED
  BY <1>3, <1>4, <1>5 DEF Agree

LEMMA AgreeReload ==
    ASSUME Shape, Phases, Agree, Reload \/ \E answer \in BOOLEAN : RefreshCronHolds(answer)
    PROVE  Agree'
<1>1. /\ UNCHANGED <<live, known, entry, paused, row, phase>> /\ phase = "up" /\ reload.step = "idle"
  BY DEF Reload, RefreshCronHolds, sched, bootVars
<1>2. known = live /\ \A t \in Tasks : /\ t \in paused <=> row[t].paused
                                       /\ t \in paused => Pausable(known[t])
  BY <1>1 DEF Agree, TargetMatches, PauseMatches, AtRest, Running
<1>3. EntryMatches' /\ RowThere'
  BY <1>1 DEF Agree, EntryMatches, RowThere, Rescheduled, Schedulable, Running
<1>4. PauseMatches'
  BY <1>1, <1>2 DEF PauseMatches, Pausable
<1>5. TargetMatches'
  <2>1. CASE Reload
    <3>1. reload'.step = "remove" /\ reload'.whole
      BY <2>1 DEF Reload
    <3> QED
      BY <3>1 DEF TargetMatches, AtRest
  <2>2. ASSUME NEW answer \in BOOLEAN, RefreshCronHolds(answer) PROVE TargetMatches'
    <3>1. CASE reload' = reload
      BY <3>1, <1>1 DEF Agree, TargetMatches, AtRest, Running
    <3>2. CASE /\ reload'.step = "update" /\ ~reload'.whole
               /\ reload'.target = WithCronHold(answer)
      <4>1. \A t \in Tasks : /\ reload'.target[t] = Absent <=> live[t] = Absent
                             /\ live[t] # Absent => reload'.target[t].def = live[t].def
        BY <3>2, HoldType DEF Shape
      <4> QED
        BY <1>1, <1>2, <3>2, <4>1 DEF TargetMatches, AtRest
    <3>3. \/ reload' = reload
          \/ reload'.step = "update" /\ ~reload'.whole /\ reload'.target = WithCronHold(answer)
      BY <2>2 DEF RefreshCronHolds
    <3> QED
      BY <3>1, <3>2, <3>3
  <2> QED
    BY <2>1, <2>2
<1> QED
  BY <1>3, <1>4, <1>5 DEF Agree

LEMMA AgreeRemove ==
    ASSUME Shape, Phases, Agree, Remove PROVE Agree'
<1>1. /\ UNCHANGED <<known, paused, phase>> /\ phase = "up" /\ reload.step = "remove" /\ reload.whole
      /\ reload'.step = "update" /\ reload'.whole /\ reload'.target = reload.target
      /\ reload \in [step : {"idle", "remove", "update", "prune"}, target : [Tasks -> Live],
                     whole : BOOLEAN, cron : BOOLEAN]
  BY DEF Remove, bootVars, Phases, Agree, TargetMatches, Shape, ReloadType
<1>2. \A t \in Tasks :
        /\ live'[t] = IF live[t] # Absent /\ reload.target[t] = Absent THEN Absent ELSE live[t]
        /\ entry'[t] = IF live[t] # Absent /\ reload.target[t] = Absent THEN NoCron ELSE entry[t]
        /\ row'[t] = row[t] \/ (row'[t] = NoRow /\ reload.target[t] = Absent)
  BY DEF Remove, Removed
<1>3. EntryMatches' /\ RowThere'
  BY <1>1, <1>2 DEF Agree, EntryMatches, RowThere, Rescheduled, Schedulable, Running
<1>4. PauseMatches'
  BY <1>1, <1>2 DEF Agree, PauseMatches, Running, Pausable, NoRow
<1>5. TargetMatches'
  BY <1>1, <1>2 DEF TargetMatches, AtRest
<1> QED
  BY <1>3, <1>4, <1>5 DEF Agree

LEMMA AgreeUpdate ==
    ASSUME Shape, Phases, Agree, NEW t \in Tasks, Update(t) PROVE Agree'
<1> DEFINE x == reload.target[t]
<1>1. /\ UNCHANGED <<known, phase, reload>> /\ phase = "up" /\ reload.step = "update"
      /\ x \in Live /\ x # Absent
      /\ live' = [live EXCEPT ![t] = x] /\ row' = [row EXCEPT ![t] = UpdatedRow(t, x)]
      /\ paused' = IF row[t] = NoRow /\ row'[t].paused THEN paused \cup {t} ELSE paused
  BY DEF Update, bootVars, Phases, Shape, ReloadType, Changed
<1>2. /\ live'[t] = x /\ row'[t] = UpdatedRow(t, x)
      /\ \A u \in Tasks \ {t} : live'[u] = live[u] /\ row'[u] = row[u]
  BY <1>1 DEF Shape, LiveType, RowType
<1>3. /\ row[t] # NoRow => row'[t] = row[t]
      /\ row[t] = NoRow /\ row'[t].paused => Pausable(x)
      /\ Schedulable(x) => row'[t] # NoRow
  <2>1. /\ Registered(row[t], x) # NoRow
        /\ row[t] # NoRow => Registered(row[t], x) = row[t]
        /\ row[t] = NoRow => Registered(row[t], x).paused = StartsPaused(x)
    <3>1. row[t] \in Rows(now) /\ now \in Time
      BY DEF Shape, RowType, ClockType
    <3> QED
      BY <3>1, RegisteredFacts
  <2>2. row'[t] = IF ~Schedulable(live[t]) /\ Schedulable(x) THEN Registered(row[t], x) ELSE row[t]
    BY <1>2 DEF UpdatedRow
  <2>3. Schedulable(live[t]) => row[t] # NoRow
    BY DEF Agree, RowThere
  <2>4. row[t] = NoRow /\ row'[t].paused => row'[t] = Registered(row[t], x)
    BY <2>2 DEF NoRow
  <2> QED
    BY <2>1, <2>2, <2>3, <2>4 DEF StartsPaused
<1>4. EntryMatches'
  <2>1. \A u \in Tasks : entry[u] = Rescheduled(live[u])
    BY <1>1 DEF Agree, EntryMatches, Running
  <2>2. entry'[t] = Rescheduled(x) /\ \A u \in Tasks \ {t} : entry'[u] = entry[u]
    <3>1. CASE NewSchedule(t, x)
      BY <3>1 DEF Update, Shape, SchedType
    <3>2. CASE ~NewSchedule(t, x)
      <4>1. entry' = entry
        BY <3>2 DEF Update
      <4>2. Rescheduled(live[t]) = Rescheduled(x)
        BY <3>2, <1>1 DEF NewSchedule, Rescheduled, Schedulable
      <4> QED
        BY <4>1, <4>2, <2>1
    <3> QED
      BY <3>1, <3>2
  <2> QED
    BY <1>2, <2>1, <2>2 DEF EntryMatches, Rescheduled, Schedulable
<1>5. RowThere'
  BY <1>2, <1>3 DEF Agree, RowThere, Schedulable
<1>6. PauseMatches'
  <2>1. ASSUME NEW u \in Tasks \ {t}
        PROVE  (u \in paused' <=> u \in paused) /\ row'[u] = row[u]
    BY <1>1, <1>2
  <2>2. /\ row'[t].paused => t \in paused'
        /\ t \in paused' => row'[t].paused
        /\ t \in paused' => Pausable(known[t]) \/ Pausable(x)
    <3>1. /\ row[t].paused => t \in paused
          /\ t \in paused => row[t].paused
          /\ t \in paused => Pausable(known[t]) \/ Pausable(x)
      BY <1>1 DEF Agree, PauseMatches, Running
    <3>2. row[t] = NoRow => t \notin paused
      BY <3>1 DEF NoRow
    <3> QED
      BY <1>1, <1>3, <3>1, <3>2
  <2> QED
    BY <1>1, <2>1, <2>2 DEF Agree, PauseMatches, Running, Pausable
<1>7. TargetMatches'
  BY <1>1, <1>2 DEF Agree, TargetMatches, AtRest
<1> QED
  BY <1>4, <1>5, <1>6, <1>7 DEF Agree

LEMMA AgreeSwapTasks ==
    ASSUME Shape, Phases, Agree, SwapTasks PROVE Agree'
<1>1. /\ UNCHANGED <<live, entry, paused, row, phase>> /\ phase = "up" /\ reload.step = "update"
      /\ known' = reload.target /\ reload'.target = reload.target /\ reload'.whole = reload.whole
      /\ reload'.step = IF reload.whole THEN "prune" ELSE "idle"
  BY DEF SwapTasks, bootVars, Phases, Shape, ReloadType
<1>2. live = reload.target
  <2>1. \A t \in Tasks : live[t] = reload.target[t]
    BY <1>1 DEF SwapTasks, Changed, Agree, TargetMatches
  <2> QED
    BY <2>1 DEF Shape, LiveType, ReloadType
<1>3. EntryMatches' /\ RowThere'
  BY <1>1 DEF Agree, EntryMatches, RowThere, Rescheduled, Schedulable, Running
<1>4. PauseMatches'
  <2>1. CASE reload.whole
    BY <1>1, <2>1 DEF Agree, PauseMatches, Running, Pausable
  <2>2. CASE ~reload.whole
    <3>1. \A t \in Tasks : Pausable(known[t]) <=> Pausable(reload.target[t])
      BY <1>1, <2>2 DEF Agree, TargetMatches, Pausable
    <3> QED
      BY <1>1, <2>2, <3>1 DEF Agree, PauseMatches, Running, Pausable
  <2> QED
    BY <2>1, <2>2
<1>5. TargetMatches'
  BY <1>1, <1>2 DEF TargetMatches, AtRest
<1> QED
  BY <1>3, <1>4, <1>5 DEF Agree

LEMMA AgreePrunePauses ==
    ASSUME Shape, Phases, Agree, PrunePauses PROVE Agree'
<1>1. /\ UNCHANGED <<live, known, entry, phase>> /\ phase = "up" /\ reload.step = "prune"
      /\ reload'.step = "idle"
      /\ live = reload.target /\ known = live
  BY DEF PrunePauses, bootVars, Phases, Shape, ReloadType, Agree, TargetMatches
<1>2. \A t \in Tasks :
        /\ t \in paused' <=> t \in paused /\ Pausable(reload.target[t])
        /\ row'[t] = IF t \in paused /\ ~Pausable(reload.target[t]) THEN Resumed(row[t]) ELSE row[t]
  BY DEF PrunePauses, PrunePaused
<1>3. \A t \in Tasks : ~Resumed(row[t]).paused /\ (row[t] # NoRow => Resumed(row[t]) # NoRow)
  BY ResumedFacts DEF Shape, RowType, ClockType
<1>4. EntryMatches' /\ RowThere'
  BY <1>1, <1>2, <1>3 DEF Agree, EntryMatches, RowThere, Rescheduled, Schedulable, Running
<1>5. PauseMatches'
  BY <1>1, <1>2, <1>3 DEF Agree, PauseMatches, Running, Pausable
<1>6. TargetMatches'
  BY <1>1 DEF TargetMatches, AtRest
<1> QED
  BY <1>4, <1>5, <1>6 DEF Agree

LEMMA AgreeGone ==
    ASSUME Agree, Stop \/ Crash PROVE Agree'
<1>1. UNCHANGED <<row, live>> /\ ~Running' /\ reload'.step = "idle"
  BY DEF Stop, Crash, Gone, Running, Idle
<1> QED
  BY <1>1 DEF Agree, EntryMatches, RowThere, PauseMatches, TargetMatches, AtRest, Schedulable

LEMMA AgreeStep ==
    ASSUME Shape, Phases, Agree, [Next]_vars PROVE Agree'
<1>1. CASE UNCHANGED vars
  BY <1>1, AgreeKept DEF vars, bootVars, sched, Running
<1>2. CASE Next
  BY <1>2, AgreeQuiet, AgreeWriteRow, AgreeLoad, AgreeStartScheduler, AgreePause, AgreeResume, AgreeReload,
     AgreeRemove, AgreeUpdate, AgreeSwapTasks, AgreePrunePauses, AgreeGone DEF Next, BootStep, ReloadStep
<1> QED
  BY <1>1, <1>2

-----------------------------------------------------------------------------
(***************************************************************************)
(* A tick is on at most one way to a record. What waits in the gate, in a  *)
(* callback or in a run's row passed after this process loaded its config, *)
(* nothing is recorded of it yet, and no other of the three has it; what a *)
(* report covers passed before.                                            *)
(***************************************************************************)
Recordable(t, k) == outcome[t][k] \in {"due", "waived"}
RunOf(i, t) == writes[i].task = t /\ writes[i].as # "missed"
InNoRun(t, k) == \A i \in DOMAIN writes : RunOf(i, t) => k \notin writes[i].ticks

RunsOnce ==
    /\ \A i \in DOMAIN writes : writes[i].as # "missed" =>
          \A k \in writes[i].ticks : /\ writes[i].ticks = {k} /\ asOf < k /\ k <= now
                                     /\ Recordable(writes[i].task, k)
    /\ \A i, j \in DOMAIN writes :
          i # j /\ writes[i].task = writes[j].task /\ writes[i].as # "missed" /\ writes[j].as # "missed"
          => writes[i].ticks \cap writes[j].ticks = {}
ReportsOld == \A i \in DOMAIN writes : writes[i].as = "missed" => \A k \in writes[i].ticks : k <= asOf
GateOnce == \A t \in Tasks : gate[t] # Never =>
    asOf < gate[t] /\ Recordable(t, gate[t]) /\ InNoRun(t, gate[t])
CallsOnce == \A t \in calls : asOf < now /\ Recordable(t, now) /\ gate[t] # now /\ InNoRun(t, now)
NeverWrong == \A t \in Tasks, k \in Time : outcome[t][k] \in Kinds

Once == RunsOnce /\ ReportsOld /\ GateOnce /\ CallsOnce /\ NeverWrong

\* Nothing is recorded in the step; what was due may be given up.
GivenUp == \A t \in Tasks, k \in Time :
    outcome'[t][k] = outcome[t][k] \/ (outcome[t][k] = "due" /\ outcome'[t][k] = "waived")

LEMMA WaivesOne ==
    ASSUME OutcomeType, NEW t \in Tasks, outcome' = [outcome EXCEPT ![t] = Waived(t)]
    PROVE  GivenUp
<1>1. outcome'[t] = Waived(t) /\ \A u \in Tasks \ {t} : outcome'[u] = outcome[u]
  BY DEF OutcomeType
<1> QED
  BY <1>1, WaivedFacts DEF GivenUp

LEMMA WaivesSome ==
    ASSUME OutcomeType, \A t \in Tasks : outcome'[t] \in {outcome[t], Waived(t)}
    PROVE  GivenUp
<1>1. ASSUME NEW t \in Tasks, NEW k \in Time
      PROVE  outcome'[t][k] = outcome[t][k] \/ (outcome[t][k] = "due" /\ outcome'[t][k] = "waived")
  BY WaivedFacts
<1> QED
  BY <1>1 DEF GivenUp

\* Every step but the clock's and the persistence worker's.
LEMMA StepGivesUp ==
    ASSUME Shape, [Next]_vars, ~Tick, ~WriteRow PROVE GivenUp /\ UNCHANGED now
<1>1. OutcomeType
  BY DEF Shape
<1>2. CASE Load
  BY <1>1, <1>2, WaivesSome DEF Load
<1>3. CASE StartScheduler
  BY <1>1, <1>3, WaivesSome DEF StartScheduler
<1>4. CASE Remove
  BY <1>1, <1>4, WaivesSome DEF Remove
<1>5. CASE PrunePauses
  BY <1>1, <1>5, WaivesSome DEF PrunePauses, PrunePaused
<1>6. ASSUME NEW t \in Tasks, Fire(t) \/ Release(t) \/ Resume(t) \/ Update(t)
      PROVE  GivenUp /\ UNCHANGED now
  <2>1. outcome' = outcome \/ outcome' = [outcome EXCEPT ![t] = Waived(t)]
    BY <1>6, FireFacts DEF Release, ReleaseChecked, Resume, Update
  <2>2. UNCHANGED now
    BY <1>6, FireFacts DEF Release, Resume, Update
  <2> QED
    BY <1>1, <2>1, <2>2, WaivesOne DEF GivenUp
<1>7. CASE \/ CronFlips \/ StartCatchUp \/ FinishBoot \/ Probe \/ Reload \/ SwapTasks \/ Stop \/ Crash
           \/ (\E t \in Tasks : Edit(t) \/ RunStartupTask(t) \/ CatchUpTask(t) \/ ManualRun(t) \/ Pause(t))
           \/ (\E answer \in BOOLEAN : RefreshCronHolds(answer))
           \/ UNCHANGED vars
  <2>1. UNCHANGED <<now, outcome>>
    BY <1>7 DEF CronFlips, StartCatchUp, FinishBoot, Probe, Reload, SwapTasks, Stop, Crash, Gone, Edit,
       RunStartupTask, CatchUpTask, ManualRun, Pause, RefreshCronHolds, vars
  <2> QED
    BY <2>1 DEF GivenUp
<1> QED
  BY <1>2, <1>3, <1>4, <1>5, <1>6, <1>7 DEF Next, BootStep, ReloadStep

LEMMA OnceInit ==
    ASSUME Init PROVE Once
<1>1. /\ DOMAIN writes = {} /\ calls = {} /\ \A t \in Tasks : gate[t] = Never
      /\ \A t \in Tasks, k \in Time : outcome[t][k] = "none"
  BY DEF Init
<1> QED
  BY <1>1 DEF Once, RunsOnce, ReportsOld, GateOnce, CallsOnce, NeverWrong, Kinds

\* Steps that put no tick on its way: what they send is of no tick, or a report.
NoNewTick ==
    /\ DOMAIN writes \subseteq DOMAIN writes' /\ \A i \in DOMAIN writes : writes'[i] = writes[i]
    /\ \A i \in DOMAIN writes' \ DOMAIN writes :
          \/ writes'[i].ticks = {}
          \/ writes'[i].as = "missed" /\ \A k \in writes'[i].ticks : k <= asOf
    /\ \A t \in Tasks : gate'[t] \in {gate[t], Never}
    /\ calls' \subseteq calls

LEMMA OnceKept ==
    ASSUME Shape, Once, GivenUp, UNCHANGED <<now, asOf>>, NoNewTick PROVE Once'
<1>1. \A t \in Tasks, k \in Time : Recordable(t, k) => Recordable(t, k)'
  BY DEF GivenUp, Recordable
<1>2. /\ calls \subseteq Tasks /\ now \in Time /\ writes \in Seq(RunRows)
      /\ \A t \in Tasks : gate[t] # Never => gate[t] \in Time
      /\ \A i \in DOMAIN writes : writes[i].task \in Tasks /\ writes[i].ticks \subseteq Time
  <2>1. calls \subseteq Tasks /\ now \in Time /\ writes \in Seq(RunRows)
        /\ \A t \in Tasks : gate[t] # Never => gate[t] \in Time
    BY DEF Shape, SchedType, ClockType, WriteType, GateType
  <2> QED
    BY <2>1, WritesFacts DEF Shape
<1>3. RunsOnce'
  <2>1. ASSUME NEW i \in DOMAIN writes', writes'[i].as # "missed", NEW k \in writes'[i].ticks
        PROVE  writes'[i].ticks = {k} /\ asOf' < k /\ k <= now'
               /\ outcome'[writes'[i].task][k] \in {"due", "waived"}
    <3>1. i \in DOMAIN writes /\ writes'[i] = writes[i]
      BY <2>1 DEF NoNewTick
    <3>2. writes[i].ticks = {k} /\ asOf < k /\ k <= now /\ Recordable(writes[i].task, k)
      BY <2>1, <3>1 DEF Once, RunsOnce
    <3>3. writes[i].task \in Tasks /\ k \in Time
      BY <1>2, <2>1, <3>1
    <3>4. outcome'[writes[i].task][k] \in {"due", "waived"}
      BY <1>1, <3>2, <3>3 DEF Recordable
    <3> QED
      BY <3>1, <3>2, <3>4
  <2>2. ASSUME NEW i \in DOMAIN writes', NEW j \in DOMAIN writes', i # j, writes'[i].task = writes'[j].task,
               writes'[i].as # "missed", writes'[j].as # "missed"
        PROVE  writes'[i].ticks \cap writes'[j].ticks = {}
    <3>1. CASE i \in DOMAIN writes /\ j \in DOMAIN writes
      BY <2>2, <3>1 DEF NoNewTick, Once, RunsOnce
    <3>2. CASE ~(i \in DOMAIN writes /\ j \in DOMAIN writes)
      BY <2>2, <3>2 DEF NoNewTick
    <3> QED
      BY <3>1, <3>2
  <2> QED
    BY <2>1, <2>2 DEF RunsOnce, Recordable
<1>4. ReportsOld'
  BY DEF NoNewTick, Once, ReportsOld
<1>5. \A t \in Tasks, k \in Time : InNoRun(t, k) => InNoRun(t, k)'
  BY DEF InNoRun, RunOf, NoNewTick
<1>6. GateOnce'
  <2>1. ASSUME NEW t \in Tasks, gate'[t] # Never
        PROVE  asOf' < gate'[t] /\ outcome'[t][gate'[t]] \in {"due", "waived"}
               /\ \A i \in DOMAIN writes' :
                    writes'[i].task = t /\ writes'[i].as # "missed" => gate'[t] \notin writes'[i].ticks
    <3>1. gate'[t] = gate[t] /\ gate[t] # Never
      BY <2>1 DEF NoNewTick
    <3>2. asOf < gate[t] /\ Recordable(t, gate[t]) /\ InNoRun(t, gate[t]) /\ gate[t] \in Time
      BY <3>1, <1>2 DEF Once, GateOnce
    <3> QED
      BY <1>1, <1>5, <3>1, <3>2 DEF Recordable, InNoRun, RunOf
  <2> QED
    BY <2>1 DEF GateOnce, Recordable, InNoRun, RunOf
<1>7. CallsOnce'
  <2>1. ASSUME NEW t \in calls'
        PROVE  asOf' < now' /\ Recordable(t, now)' /\ gate'[t] # now' /\ InNoRun(t, now)'
    <3>1. t \in calls /\ t \in Tasks
      BY <1>2 DEF NoNewTick
    <3>2. asOf < now /\ Recordable(t, now) /\ gate[t] # now /\ InNoRun(t, now)
      BY <3>1 DEF Once, CallsOnce
    <3>3. gate'[t] # now
      BY <3>1, <3>2, <1>2, ConstantFacts DEF NoNewTick
    <3> QED
      BY <1>1, <1>2, <1>5, <3>1, <3>2, <3>3 DEF Recordable, InNoRun, RunOf
  <2> QED
    BY <2>1 DEF CallsOnce
<1>8. NeverWrong'
  BY DEF Once, NeverWrong, GivenUp, Kinds
<1> QED
  BY <1>3, <1>4, <1>6, <1>7, <1>8 DEF Once

\* A second of the clock: the ticks of the cron entries are the ones RunWisp
\* answers for, and while it runs a callback is started for each that is due.
LEMMA TickFacts ==
    ASSUME Shape, Phases, Agree, Tick
    PROVE  /\ now \in Nat /\ now + 1 \in Time /\ now' = now + 1
           /\ \A t \in Tasks : /\ outcome'[t][now + 1] = Arisen(t, now + 1)
                               /\ Arisen(t, now + 1) \in {"none", "due", "waived"}
           /\ \A t \in Tasks, k \in Time : k # now + 1 => outcome'[t][k] = outcome[t][k]
           /\ calls' \subseteq Tasks
           /\ \A t \in calls' : Arisen(t, now + 1) \in {"due", "waived"}
           /\ \A t \in Tasks : Arisen(t, now + 1) = "due" => phase = "down" \/ t \in calls'
<1>1. now \in Nat /\ now + 1 \in Time /\ now' = now + 1
  BY ConstantFacts DEF Shape, ClockType, Tick
<1>2. /\ \A t \in Tasks : outcome'[t][now + 1] = Arisen(t, now + 1)
      /\ \A t \in Tasks, k \in Time : k # now + 1 => outcome'[t][k] = outcome[t][k]
  BY <1>1 DEF Shape, OutcomeType, Tick
<1>3. \A t \in Tasks : Arisen(t, now + 1) \in {"none", "due", "waived"}
  BY DEF Arisen
<1>4. calls' = {t \in Tasks : entry[t] # NoCron /\ now + 1 \in Ticks[entry[t]]}
  BY DEF Tick
<1>5. ASSUME NEW t \in calls' PROVE Arisen(t, now + 1) \in {"due", "waived"}
  <2>1. t \in Tasks /\ entry[t] # NoCron /\ now + 1 \in Ticks[entry[t]]
    BY <1>4, <1>5
  <2>2. Running
    BY <2>1 DEF Phases, Running, Shape, BootType
  <2>3. entry[t] = Rescheduled(live[t])
    BY <2>1, <2>2 DEF Agree, EntryMatches
  <2>4. Schedulable(live[t]) /\ entry[t] = live[t].def.sched
    BY <2>1, <2>3 DEF Rescheduled
  <2>5. row[t] # NoRow
    BY <2>1, <2>4 DEF Agree, RowThere
  <2> QED
    BY <2>1, <2>4, <2>5 DEF Arisen
<1>6. ASSUME NEW t \in Tasks, Arisen(t, now + 1) = "due" PROVE phase = "down" \/ t \in calls'
  <2>1. Schedulable(live[t]) /\ now + 1 \in Ticks[live[t].def.sched]
    BY <1>6 DEF Arisen
  <2>2. CASE Running
    <3>1. entry[t] = Rescheduled(live[t])
      BY <2>2 DEF Agree, EntryMatches
    <3> QED
      BY <1>4, <2>1, <3>1, SchedulableFacts DEF Shape, LiveType
  <2>3. CASE ~Running
    BY <2>3 DEF Running, Tick, Shape, BootType
  <2> QED
    BY <2>2, <2>3
<1> QED
  BY <1>1, <1>2, <1>3, <1>4, <1>5, <1>6

LEMMA OnceTick ==
    ASSUME Shape, Phases, Agree, Once, Tick PROVE Once'
<1>1. writes' = <<>> /\ gate' = gate /\ asOf' = asOf
  BY DEF Tick, bootVars
<1>2. /\ now \in Nat /\ now + 1 \in Time /\ now' = now + 1 /\ calls' \subseteq Tasks
      /\ \A t \in Tasks, k \in Time : k # now + 1 => outcome'[t][k] = outcome[t][k]
      /\ \A t \in calls' : outcome'[t][now + 1] \in {"due", "waived"}
  BY TickFacts
<1>3. asOf \in Nat /\ asOf < now + 1 /\ Never \notin Time
      /\ \A t \in Tasks : gate[t] \in Time \cup {Never} /\ gate[t] <= now /\ gate[t] # now + 1
  BY <1>2, ConstantFacts DEF Shape, ClockType, GateType
<1>4. RunsOnce' /\ ReportsOld'
  BY <1>1 DEF RunsOnce, ReportsOld
<1>5. GateOnce'
  BY <1>1, <1>2, <1>3 DEF Once, GateOnce, Recordable, InNoRun
<1>6. CallsOnce'
  BY <1>1, <1>2, <1>3 DEF CallsOnce, Recordable, InNoRun
<1>7. NeverWrong'
  BY <1>2, TickFacts DEF Once, NeverWrong, Kinds
<1> QED
  BY <1>4, <1>5, <1>6, <1>7 DEF Once

\* What CreateRun makes of the history, tick by tick.
LEMMA WriteRowFacts ==
    ASSUME Shape, Once, WriteRow, NEW w, w = Head(writes)
    PROVE  /\ w \in RunRows /\ 1 \in DOMAIN writes /\ w = writes[1]
           /\ writes' = Tail(writes) /\ Tail(writes) \in Seq(RunRows)
           /\ \A t \in Tasks \ {w.task} : outcome'[t] = outcome[t] /\ row'[t] = row[t]
           /\ \A k \in Time : k \notin w.ticks => outcome'[w.task][k] = outcome[w.task][k]
           /\ w.as # "missed" => \A k \in w.ticks :
                Recordable(w.task, k) /\ asOf < k /\ outcome'[w.task][k] = w.as
           /\ w.as = "missed" => \A k \in w.ticks :
                /\ k <= asOf
                /\ outcome'[w.task][k] = IF outcome[w.task][k] = "due" THEN "missed" ELSE outcome[w.task][k]
           /\ row'[w.task] = Bumped(row[w.task], w.at)
<1>1. w \in RunRows /\ 1 \in DOMAIN writes /\ w = writes[1] /\ Tail(writes) \in Seq(RunRows)
  BY TailFacts DEF WriteRow, Shape, WriteType
<1>2. /\ row' = [row EXCEPT ![w.task] = Bumped(row[w.task], w.at)]
      /\ outcome' = Settled(w.task, w.ticks, w.as)
      /\ writes' = Tail(writes)
  BY DEF WriteRow
<1>3. w.task \in Tasks /\ w.ticks \subseteq Time /\ w.as \in {"ran", "skipped", "missed"}
  BY <1>1 DEF RunRows
<1>4. \A t \in Tasks \ {w.task} : row'[t] = row[t]
  BY <1>2, <1>3 DEF Shape, RowType
<1>5. row'[w.task] = Bumped(row[w.task], w.at)
  BY <1>2, <1>3 DEF Shape, RowType
<1>6. /\ \A t \in Tasks \ {w.task} : outcome'[t] = outcome[t]
      /\ \A k \in Time : k \notin w.ticks => outcome'[w.task][k] = outcome[w.task][k]
      /\ \A k \in Time : k \in w.ticks /\ outcome[w.task][k] \in {"due", "waived"} /\ w.as # "missed"
                => outcome'[w.task][k] = w.as
      /\ \A k \in Time : k \in w.ticks /\ w.as = "missed" => outcome'[w.task][k] =
                IF outcome[w.task][k] = "due" THEN "missed" ELSE outcome[w.task][k]
  <2>1. OutcomeType
    BY DEF Shape
  <2>2. IsSettled(Settled(w.task, w.ticks, w.as), w.task, w.ticks, w.as)
    BY <1>3, <2>1, SettledFacts
  <2> QED
    BY <1>2, <2>2 DEF IsSettled
<1>7. w.as # "missed" => \A k \in w.ticks : Recordable(w.task, k) /\ asOf < k
  BY <1>1 DEF Once, RunsOnce
<1>8. w.as = "missed" => \A k \in w.ticks : k <= asOf
  BY <1>1 DEF Once, ReportsOld
<1> QED
  BY <1>1, <1>2, <1>3, <1>4, <1>5, <1>6, <1>7, <1>8 DEF Recordable

LEMMA OnceWriteRow ==
    ASSUME Shape, Once, WriteRow PROVE Once'
<1> DEFINE w == Head(writes)
<1>1. w \in RunRows /\ 1 \in DOMAIN writes /\ w = writes[1]
  BY WriteRowFacts
<1>2. /\ \A t \in Tasks \ {w.task} : outcome'[t] = outcome[t]
      /\ \A k \in Time : k \notin w.ticks => outcome'[w.task][k] = outcome[w.task][k]
      /\ w.as # "missed" => \A k \in w.ticks : outcome'[w.task][k] = w.as
      /\ w.as = "missed" => \A k \in w.ticks :
           /\ k <= asOf
           /\ outcome'[w.task][k] = IF outcome[w.task][k] = "due" THEN "missed" ELSE outcome[w.task][k]
  BY WriteRowFacts
<1>3. /\ writes' = Tail(writes) /\ UNCHANGED <<now, asOf, gate, calls>>
      /\ \A i \in DOMAIN writes' : i + 1 \in DOMAIN writes /\ i + 1 # 1 /\ writes'[i] = writes[i + 1]
      /\ \A i, j \in DOMAIN writes' : i # j => i + 1 # j + 1
  BY TailFacts DEF WriteRow, Shape, WriteType, bootVars
<1> HIDE DEF w
<1>4. w.task \in Tasks /\ w.ticks \subseteq Time /\ w.as \in {"ran", "skipped", "missed"}
  BY <1>1 DEF RunRows
<1>5. asOf \in Nat /\ now \in Nat /\ now \in Time /\ calls \subseteq Tasks
  BY ConstantFacts DEF Shape, ClockType, SchedType
<1>6. \A i \in DOMAIN writes : writes[i].task \in Tasks /\ writes[i].ticks \subseteq Time
  BY WritesFacts DEF Shape
\* What a run's record does not concern stays as it is.
<1>7. ASSUME NEW t \in Tasks, NEW k \in Time, Recordable(t, k), asOf < k, InNoRun(t, k)
      PROVE  outcome'[t][k] \in {"due", "waived"}
  <2>1. CASE t = w.task /\ k \in w.ticks
    <3>1. w.as = "missed"
      BY <1>1, <1>7, <2>1 DEF InNoRun, RunOf
    <3>2. k <= asOf /\ k \in Nat
      BY <1>2, <2>1, <3>1, ConstantFacts
    <3> QED
      BY <1>5, <1>7, <3>2
  <2>2. CASE ~(t = w.task /\ k \in w.ticks)
    BY <1>2, <1>7, <2>2 DEF Recordable
  <2> QED
    BY <2>1, <2>2
<1>8. RunsOnce'
  <2>1. ASSUME NEW i \in DOMAIN writes', writes'[i].as # "missed", NEW k \in writes'[i].ticks
        PROVE  writes'[i].ticks = {k} /\ asOf' < k /\ k <= now'
               /\ outcome'[writes'[i].task][k] \in {"due", "waived"}
    <3>1. i + 1 \in DOMAIN writes /\ i + 1 # 1 /\ writes'[i] = writes[i + 1]
      BY <1>3
    <3>2. PICK j \in DOMAIN writes : j # 1 /\ writes'[i] = writes[j]
      BY <3>1
    <3>3. writes[j].ticks = {k} /\ asOf < k /\ k <= now /\ Recordable(writes[j].task, k)
      BY <2>1, <3>2 DEF Once, RunsOnce
    <3>4. writes[j].task \in Tasks /\ k \in Time
      BY <1>6, <2>1, <3>2
    <3>5. CASE writes[j].task = w.task /\ k \in w.ticks
      <4>1. w.as = "missed"
        BY <1>1, <2>1, <3>2, <3>5 DEF Once, RunsOnce
      <4>2. k <= asOf /\ k \in Nat
        BY <1>2, <3>4, <3>5, <4>1, ConstantFacts
      <4> QED
        BY <1>5, <3>3, <4>2
    <3>6. CASE ~(writes[j].task = w.task /\ k \in w.ticks)
      <4>1. outcome'[writes[j].task][k] = outcome[writes[j].task][k]
        BY <1>2, <3>4, <3>6
      <4> QED
        BY <1>3, <3>2, <3>3, <4>1 DEF Recordable
    <3> QED
      BY <3>5, <3>6
  <2>2. ASSUME NEW i \in DOMAIN writes', NEW j \in DOMAIN writes', i # j, writes'[i].task = writes'[j].task,
               writes'[i].as # "missed", writes'[j].as # "missed"
        PROVE  writes'[i].ticks \cap writes'[j].ticks = {}
    <3>1. i + 1 \in DOMAIN writes /\ j + 1 \in DOMAIN writes /\ i + 1 # j + 1
          /\ writes'[i] = writes[i + 1] /\ writes'[j] = writes[j + 1]
      BY <1>3, <2>2
    <3> QED
      BY <2>2, <3>1 DEF Once, RunsOnce
  <2> QED
    BY <2>1, <2>2 DEF RunsOnce, Recordable
<1>9. ReportsOld'
  BY <1>3 DEF Once, ReportsOld
<1>10. \A t \in Tasks, k \in Time : InNoRun(t, k) =>
          \A i \in DOMAIN writes' : writes'[i].task = t /\ writes'[i].as # "missed" => k \notin writes'[i].ticks
  BY <1>3 DEF InNoRun, RunOf
<1>11. GateOnce'
  <2>1. ASSUME NEW t \in Tasks, gate[t] # Never
        PROVE  asOf < gate[t] /\ outcome'[t][gate[t]] \in {"due", "waived"}
               /\ \A i \in DOMAIN writes' :
                    writes'[i].task = t /\ writes'[i].as # "missed" => gate[t] \notin writes'[i].ticks
    <3>1. asOf < gate[t] /\ Recordable(t, gate[t]) /\ InNoRun(t, gate[t]) /\ gate[t] \in Time
      BY <2>1 DEF Once, GateOnce, Shape, GateType
    <3> QED
      BY <1>7, <1>10, <3>1
  <2> QED
    BY <1>3, <2>1 DEF GateOnce, Recordable, InNoRun, RunOf
<1>12. CallsOnce'
  <2>1. ASSUME NEW t \in calls
        PROVE  asOf < now /\ outcome'[t][now] \in {"due", "waived"} /\ gate[t] # now
               /\ \A i \in DOMAIN writes' :
                    writes'[i].task = t /\ writes'[i].as # "missed" => now \notin writes'[i].ticks
    <3>1. asOf < now /\ Recordable(t, now) /\ InNoRun(t, now) /\ gate[t] # now /\ t \in Tasks
      BY <1>5, <2>1 DEF Once, CallsOnce
    <3> QED
      BY <1>5, <1>7, <1>10, <3>1
  <2> QED
    BY <1>3, <2>1 DEF CallsOnce, Recordable, InNoRun, RunOf
<1>13. NeverWrong'
  <2>1. ASSUME NEW t \in Tasks, NEW k \in Time PROVE outcome'[t][k] \in Kinds
    <3>1. outcome[t][k] \in Kinds
      BY DEF Once, NeverWrong
    <3>2. CASE t = w.task /\ k \in w.ticks
      BY <1>2, <1>4, <3>1, <3>2 DEF Kinds
    <3>3. CASE ~(t = w.task /\ k \in w.ticks)
      BY <1>2, <3>1, <3>3
    <3> QED
      BY <3>2, <3>3
  <2> QED
    BY <2>1 DEF NeverWrong
<1> QED
  BY <1>8, <1>9, <1>11, <1>12, <1>13 DEF Once

\* A tick on its way, in the gate or in a callback, becomes a run's row.
LEMMA OnceSent ==
    ASSUME Shape, Once, UNCHANGED <<now, asOf, outcome>>, NEW t \in Tasks, NEW k \in Time,
           NEW as \in {"ran", "skipped"}, Persist(t, k, {k}, as),
           asOf < k, k <= now, Recordable(t, k), InNoRun(t, k),
           \A u \in Tasks : gate'[u] \in {gate[u], Never}, gate'[t] # k,
           calls' \subseteq calls, t \in calls' => k # now
    PROVE  Once'
<1> DEFINE n == Len(writes) + 1
<1>1. /\ DOMAIN writes' = DOMAIN writes \cup {n} /\ n \notin DOMAIN writes
      /\ \A i \in DOMAIN writes : writes'[i] = writes[i]
      /\ writes'[n] = NewRow(t, k, {k}, as)
  BY PersistFacts DEF Shape, ClockType
<1> HIDE DEF n
<1>2. writes'[n].task = t /\ writes'[n].ticks = {k} /\ writes'[n].as # "missed"
  <2>1. as # "missed"
    OBVIOUS
  <2>2. writes'[n].task = t /\ writes'[n].ticks = {k} /\ writes'[n].as = as
    BY <1>1 DEF NewRow
  <2> QED
    BY <2>1, <2>2
<1>3. RunsOnce'
  <2>1. ASSUME NEW i \in DOMAIN writes', writes'[i].as # "missed", NEW j \in writes'[i].ticks
        PROVE  writes'[i].ticks = {j} /\ asOf < j /\ j <= now /\ outcome[writes'[i].task][j] \in {"due", "waived"}
    <3>1. CASE i \in DOMAIN writes
      BY <1>1, <2>1, <3>1 DEF Once, RunsOnce, Recordable
    <3>2. CASE i = n
      BY <1>2, <2>1, <3>2 DEF Recordable
    <3> QED
      BY <1>1, <3>1, <3>2
  <2>2. ASSUME NEW i \in DOMAIN writes', NEW j \in DOMAIN writes', i # j, writes'[i].task = writes'[j].task,
               writes'[i].as # "missed", writes'[j].as # "missed"
        PROVE  writes'[i].ticks \cap writes'[j].ticks = {}
    <3>1. CASE i \in DOMAIN writes /\ j \in DOMAIN writes
      BY <1>1, <2>2, <3>1 DEF Once, RunsOnce
    <3>2. CASE i \in DOMAIN writes /\ j = n
      BY <1>1, <1>2, <2>2, <3>2 DEF InNoRun, RunOf
    <3>3. CASE i = n /\ j \in DOMAIN writes
      BY <1>1, <1>2, <2>2, <3>3 DEF InNoRun, RunOf
    <3> QED
      BY <1>1, <2>2, <3>1, <3>2, <3>3
  <2> QED
    BY <2>1, <2>2 DEF RunsOnce, Recordable
<1>4. ReportsOld'
  BY <1>1, <1>2 DEF Once, ReportsOld
<1>5. ASSUME NEW u \in Tasks, NEW j \in Time, InNoRun(u, j), u # t \/ j # k
      PROVE  \A i \in DOMAIN writes' : writes'[i].task = u /\ writes'[i].as # "missed" => j \notin writes'[i].ticks
  BY <1>1, <1>2, <1>5 DEF InNoRun, RunOf
<1>6. GateOnce'
  <2>1. ASSUME NEW u \in Tasks, gate'[u] # Never
        PROVE  asOf < gate'[u] /\ outcome[u][gate'[u]] \in {"due", "waived"}
               /\ \A i \in DOMAIN writes' :
                    writes'[i].task = u /\ writes'[i].as # "missed" => gate'[u] \notin writes'[i].ticks
    <3>1. gate'[u] = gate[u] /\ gate[u] \in Time
      BY <2>1 DEF Shape, GateType
    <3>2. asOf < gate[u] /\ Recordable(u, gate[u]) /\ InNoRun(u, gate[u])
      BY <2>1, <3>1 DEF Once, GateOnce
    <3>3. u # t \/ gate[u] # k
      BY <3>1
    <3> QED
      BY <1>5, <3>1, <3>2, <3>3 DEF Recordable
  <2> QED
    BY <2>1 DEF GateOnce, Recordable, InNoRun, RunOf
<1>7. CallsOnce'
  <2>1. ASSUME NEW u \in calls'
        PROVE  asOf < now /\ outcome[u][now] \in {"due", "waived"} /\ gate'[u] # now
               /\ \A i \in DOMAIN writes' :
                    writes'[i].task = u /\ writes'[i].as # "missed" => now \notin writes'[i].ticks
    <3>1. u \in calls /\ u \in Tasks /\ now \in Time /\ now # Never
      BY ConstantFacts DEF Shape, SchedType, ClockType
    <3>2. asOf < now /\ Recordable(u, now) /\ gate[u] # now /\ InNoRun(u, now)
      BY <3>1 DEF Once, CallsOnce
    <3> QED
      BY <1>5, <2>1, <3>1, <3>2 DEF Recordable
  <2> QED
    BY <2>1 DEF CallsOnce, Recordable, InNoRun, RunOf
<1>8. NeverWrong'
  BY DEF Once, NeverWrong
<1> QED
  BY <1>3, <1>4, <1>6, <1>7, <1>8 DEF Once

LEMMA OnceFire ==
    ASSUME Shape, Phases, Once, NEW t \in Tasks, Fire(t) PROVE Once'
<1>1. /\ t \in calls /\ calls' = calls \ {t} /\ UNCHANGED <<now, asOf>> /\ ~Tick /\ now \in Time
      /\ now \in Nat /\ now <= now
  BY FireFacts, ConstantFacts DEF bootVars, Tick, Shape, ClockType
<1>2. asOf < now /\ Recordable(t, now) /\ gate[t] # now /\ InNoRun(t, now)
  BY <1>1 DEF Once, CallsOnce
<1>3. CASE outcome' = [outcome EXCEPT ![t] = Waived(t)] /\ UNCHANGED <<writes, gate>>
  <2>1. GivenUp
    BY <1>3, WaivesOne DEF Shape
  <2>2. NoNewTick
    BY <1>1, <1>3 DEF NoNewTick
  <2> QED
    BY <1>1, <2>1, <2>2, OnceKept
<1>4. ASSUME NEW as \in {"ran", "skipped"}, Persist(t, now, {now}, as), UNCHANGED <<gate, outcome>>
      PROVE  Once'
  <2>1. t \notin calls' /\ calls' \subseteq calls /\ gate'[t] # now
    BY <1>1, <1>2, <1>4
  <2> QED
    BY <1>1, <1>2, <1>4, <2>1, OnceSent
<1>5. CASE gate' = [gate EXCEPT ![t] = now] /\ UNCHANGED <<writes, outcome>>
  <2>1. RunsOnce' /\ ReportsOld' /\ NeverWrong'
    BY <1>1, <1>5 DEF Once, RunsOnce, ReportsOld, NeverWrong, Recordable
  <2>2. gate'[t] = now /\ \A u \in Tasks \ {t} : gate'[u] = gate[u]
    BY <1>5 DEF Shape, GateType
  <2>3. GateOnce'
    BY <1>1, <1>2, <1>5, <2>2 DEF Once, GateOnce, Recordable, InNoRun, RunOf
  <2>4. CallsOnce'
    BY <1>1, <1>5, <2>2 DEF Once, CallsOnce, Recordable, InNoRun, RunOf, Shape, SchedType
  <2> QED
    BY <2>1, <2>3, <2>4 DEF Once
<1> QED
  BY <1>3, <1>4, <1>5, FireFacts

LEMMA OnceRelease ==
    ASSUME Shape, Phases, Once, NEW t \in Tasks, Release(t) PROVE Once'
<1>1. /\ gate[t] # Never /\ gate' = [gate EXCEPT ![t] = Never]
      /\ UNCHANGED <<now, asOf, calls>>
      /\ \/ UNCHANGED writes /\ outcome' = [outcome EXCEPT ![t] = Waived(t)]
         \/ Persist(t, gate[t], {gate[t]}, "ran") /\ UNCHANGED outcome
  BY DEF Release, ReleaseChecked, bootVars
<1>2. gate[t] \in Time /\ gate[t] <= now
  BY <1>1 DEF Shape, GateType
<1>3. asOf < gate[t] /\ Recordable(t, gate[t]) /\ InNoRun(t, gate[t])
  BY <1>1 DEF Once, GateOnce
<1>4. gate'[t] = Never /\ \A u \in Tasks : gate'[u] \in {gate[u], Never}
  BY <1>1 DEF Shape, GateType
<1>5. CASE UNCHANGED writes /\ outcome' = [outcome EXCEPT ![t] = Waived(t)]
  <2>1. GivenUp
    BY <1>5, WaivesOne DEF Shape
  <2>2. NoNewTick
    BY <1>1, <1>4, <1>5 DEF NoNewTick
  <2> QED
    BY <1>1, <2>1, <2>2, OnceKept
<1>6. CASE Persist(t, gate[t], {gate[t]}, "ran") /\ UNCHANGED outcome
  <2>1. t \in calls' => gate[t] # now
    BY <1>1 DEF Once, CallsOnce
  <2>2. gate'[t] # gate[t] /\ calls' \subseteq calls
    BY <1>1, <1>4
  <2> DEFINE k == gate[t]
  <2> HIDE DEF k
  <2>3. k \in Time /\ Persist(t, k, {k}, "ran") /\ asOf < k /\ k <= now /\ Recordable(t, k) /\ InNoRun(t, k)
        /\ gate'[t] # k /\ (t \in calls' => k # now)
    BY <1>2, <1>3, <1>6, <2>1, <2>2 DEF k
  <2> QED
    BY <1>1, <1>4, <1>6, <2>2, <2>3, OnceSent
<1> QED
  BY <1>1, <1>5, <1>6

\* A row that records no tick, or none at all.
LEMMA NoTickSent ==
    ASSUME Shape, NEW t \in Tasks, UNCHANGED now, Persist(t, now, {}, "ran") \/ UNCHANGED writes
    PROVE  /\ DOMAIN writes \subseteq DOMAIN writes' /\ \A i \in DOMAIN writes : writes'[i] = writes[i]
           /\ \A i \in DOMAIN writes' \ DOMAIN writes : writes'[i].ticks = {} /\ writes'[i].as = "ran"
<1>1. CASE Persist(t, now, {}, "ran")
  <2>1. now \in Time /\ now \in Nat /\ now <= now /\ {} \in SUBSET Time
    BY ConstantFacts DEF Shape, ClockType
  <2>2. /\ DOMAIN writes' = DOMAIN writes \cup {Len(writes) + 1}
        /\ \A i \in DOMAIN writes : writes'[i] = writes[i]
        /\ writes'[Len(writes) + 1] = NewRow(t, now, {}, "ran")
    BY <1>1, <2>1, PersistFacts DEF Shape
  <2> QED
    BY <2>2 DEF NewRow
<1> QED
  BY <1>1

LEMMA OnceCatchUpTask ==
    ASSUME Shape, Phases, Once, NEW t \in Tasks, CatchUpTask(t) PROVE Once'
<1>1. UNCHANGED <<now, asOf, gate, calls, outcome>>
  BY DEF CatchUpTask
<1>2. NoNewTick
  <2>1. /\ DOMAIN writes \subseteq DOMAIN writes' /\ \A i \in DOMAIN writes : writes'[i] = writes[i]
        /\ \A i \in DOMAIN writes' \ DOMAIN writes :
             \/ \E at : writes'[i] = NewRow(t, at, Missable(t), "missed")
             \/ writes'[i] = NewRow(t, now, {}, "ran")
    BY CatchUpRows
  <2>2. \A k \in Missable(t) : k <= asOf
    BY DEF Missable
  <2>3. \A i \in DOMAIN writes' \ DOMAIN writes :
          \/ writes'[i].ticks = {}
          \/ writes'[i].as = "missed" /\ \A k \in writes'[i].ticks : k <= asOf
    BY <2>1, <2>2 DEF NewRow
  <2> QED
    BY <1>1, <2>1, <2>3 DEF NoNewTick
<1>3. GivenUp
  BY <1>1 DEF GivenUp
<1> QED
  BY <1>1, <1>2, <1>3, OnceKept

LEMMA OnceQuiet ==
    ASSUME Shape, Phases, Once,
           \/ CronFlips \/ StartScheduler \/ StartCatchUp \/ FinishBoot \/ Probe \/ Reload \/ Remove
           \/ SwapTasks \/ PrunePauses \/ UNCHANGED vars
           \/ \E t \in Tasks : Edit(t) \/ RunStartupTask(t) \/ ManualRun(t) \/ Pause(t) \/ Resume(t) \/ Update(t)
           \/ \E answer \in BOOLEAN : RefreshCronHolds(answer)
    PROVE  Once'
<1>1. UNCHANGED <<now, asOf, gate, calls>>
  BY DEF CronFlips, StartScheduler, StartCatchUp, FinishBoot, Probe, Reload, Remove, SwapTasks, PrunePauses,
     Edit, RunStartupTask, ManualRun, Pause, Resume, Update, RefreshCronHolds, bootVars, vars
<1>2. UNCHANGED writes \/ \E t \in Tasks : Persist(t, now, {}, "ran")
  BY DEF CronFlips, StartScheduler, StartCatchUp, FinishBoot, Probe, Reload, Remove, SwapTasks, PrunePauses,
     Edit, RunStartupTask, ManualRun, Pause, Resume, Update, RefreshCronHolds, vars
<1>3. NoNewTick
  <2>1. ASSUME UNCHANGED writes PROVE NoNewTick
    BY <1>1, <2>1 DEF NoNewTick
  <2>2. ASSUME NEW t \in Tasks, Persist(t, now, {}, "ran") PROVE NoNewTick
    BY <1>1, <2>2, NoTickSent DEF NoNewTick
  <2> QED
    BY <1>2, <2>1, <2>2
<1>4. ~Tick /\ ~WriteRow
  <2>1. now \in Nat /\ now' = now
    BY <1>1, ConstantFacts DEF Shape, ClockType
  <2>2. ASSUME WriteRow PROVE FALSE
    <3>1. writes \in Seq(RunRows) /\ writes # <<>> /\ writes' = Tail(writes)
      BY <2>2 DEF WriteRow, Shape, WriteType
    <3>2. Len(writes) \in DOMAIN writes /\ Len(writes) \notin DOMAIN Tail(writes)
      BY <3>1
    <3> QED
      BY <1>3, <3>1, <3>2 DEF NoNewTick
  <2> QED
    BY <2>1, <2>2 DEF Tick
<1> QED
  BY <1>1, <1>3, <1>4, OnceKept, StepGivesUp DEF Next, BootStep, ReloadStep

\* A boot or an end of the daemon, with nothing on its way.
LEMMA OnceEmpty ==
    ASSUME Shape, Phases, Once, Load \/ Stop \/ Crash PROVE Once'
<1>1. writes' = <<>> /\ calls' = {} /\ \A t \in Tasks : gate'[t] = Never
  BY DEF Load, Stop, Crash, Gone, Phases, sched
<1>2. RunsOnce' /\ ReportsOld' /\ GateOnce' /\ CallsOnce'
  BY <1>1 DEF RunsOnce, ReportsOld, GateOnce, CallsOnce
<1>3. GivenUp
  <2>1. CASE Load
    BY <2>1, WaivesSome DEF Load, Shape
  <2>2. CASE Stop \/ Crash
    BY <2>2 DEF Stop, Crash, Gone, GivenUp
  <2> QED
    BY <2>1, <2>2
<1>4. NeverWrong'
  BY <1>3 DEF Once, NeverWrong, GivenUp, Kinds
<1> QED
  BY <1>2, <1>4 DEF Once

LEMMA OnceStep ==
    ASSUME Shape, Phases, Agree, Once, [Next]_vars PROVE Once'
  BY OnceTick, OnceWriteRow, OnceFire, OnceRelease, OnceCatchUpTask, OnceQuiet, OnceEmpty
     DEF Next, BootStep, ReloadStep

-----------------------------------------------------------------------------
(* What holds whatever a daemon that ends leaves behind *)

Inv == Shape /\ Phases /\ Agree /\ Once

THEOREM InvHolds == Spec => []Inv
<1>1. Init => Inv
  BY ShapeInit, AgreeInit, OnceInit DEF Inv
<1>2. Inv /\ [Next]_vars => Inv'
  BY ShapeStep, AgreeStep, OnceStep DEF Inv
<1> QED
  BY <1>1, <1>2, PTL DEF Spec

\* The state keeps its shape; in particular no record is ever made of a tick
\* that is not RunWisp's to fire, or that something was recorded of before
\* (what Settled calls "wrong").
THEOREM TypeCorrect == Spec => []TypeOK
<1>1. ASSUME Inv PROVE TypeOK
  <2>1. Shape /\ NeverWrong
    BY <1>1 DEF Inv, Once
  <2>2. outcome \in [Tasks -> [Time -> Kinds]]
    <3>1. ASSUME NEW t \in Tasks PROVE outcome[t] \in [Time -> Kinds]
      BY <2>1 DEF Shape, OutcomeType, NeverWrong
    <3> QED
      BY <2>1, <3>1 DEF Shape, OutcomeType
  <2> QED
    BY <2>1, <2>2 DEF TypeOK, Shape, ClockType, EnvType, BootType, RowType, Rows, WriteType, LiveType,
       KnownType, SchedType, GateType, AnchorType, ReloadType, WatchType, Kinds
<1> QED
  BY <1>1, InvHolds, PTL

\* Between reloads the scheduler holds back exactly the tasks whose row says
\* paused (Scheduler.paused and task_registrations), for any number of tasks.
THEOREM PausesAgree == Spec => []PausedMatchesRow
<1>1. ASSUME Inv PROVE PausedMatchesRow
  BY <1>1 DEF Inv, Agree, PauseMatches, PausedMatchesRow, AtRest
<1> QED
  BY <1>1, InvHolds, PTL

\* Between reloads every cron entry is the live definition's, and no pause
\* outlives the config that allowed it (rescheduleChanged, prunePausesLocked).
THEOREM ScheduleAgrees == Spec => []ScheduleMatchesConfig
<1>1. ASSUME Inv PROVE ScheduleMatchesConfig
  BY <1>1 DEF Inv, Agree, EntryMatches, PauseMatches, ScheduleMatchesConfig, AtRest
<1> QED
  BY <1>1, InvHolds, PTL

-----------------------------------------------------------------------------
(***************************************************************************)
(* What is open is owed. The rest is proved for a daemon that does not end *)
(* while a tick is outrun (OutrunEnds = FALSE): one that does may forget   *)
(* it, as the run CronGate shows.                                          *)
(*                                                                         *)
(* A tick nothing is recorded of belongs to a task whose schedule is       *)
(* RunWisp's, and is one of its ticks. While the daemon runs, it is on its *)
(* way or its task is paused; while it is down, the row looks far enough   *)
(* back. A report covers all that is open up to the load of the config.    *)
(***************************************************************************)
Booting == phase \in {"loaded", "startup", "catchup"}

Sending(t, k) == \E i \in DOMAIN writes : writes[i].task = t /\ k \in writes[i].ticks
Reporting(t, k) ==
    /\ anchor[t] # Never
    /\ phase \in {"loaded", "startup"} \/ (phase = "catchup" /\ t \in todo)
    /\ k \in Missable(t)
OnItsWay(t, k) == Sending(t, k) \/ Reporting(t, k) \/ gate[t] = k \/ (t \in calls /\ k = now)

OpenOwned == \A t \in Tasks, k \in Time : Open(t, k) =>
    k <= now /\ Schedulable(live[t]) /\ k \in Ticks[live[t].def.sched]
OpenCovered == \A t \in Tasks, k \in Time : Open(t, k) =>
    row[t].paused \/ IF phase = "down" THEN k > row[t].since ELSE OnItsWay(t, k)
AnchorsOpen == Booting => \A t \in Tasks : anchor[t] # Never => ~row[t].paused
ReportsWhole == \A i \in DOMAIN writes : writes[i].as = "missed" =>
    /\ phase = "up" \/ (phase = "catchup" /\ writes[i].task \notin todo)
    /\ \A k \in Time : k <= asOf /\ Open(writes[i].task, k) => k \in writes[i].ticks
CallsFree == \A t \in calls : gate[t] = Never

Owed == OpenOwned /\ OpenCovered /\ AnchorsOpen /\ ReportsWhole /\ CallsFree

LEMMA UnderwayFacts ==
    ASSUME NEW t \in Tasks, NEW k \in Time
    PROVE  /\ k \in InWrites(t) <=> Sending(t, k)
           /\ k \in Unreported(t) <=> Reporting(t, k)
           /\ Underway(t, k) <=> OnItsWay(t, k)
<1>1. k \in InWrites(t) <=> Sending(t, k)
  BY DEF InWrites, Sending
<1>2. k \in Unreported(t) <=> Reporting(t, k)
  BY DEF Unreported, Reporting, Missable
<1> QED
  BY <1>1, <1>2 DEF Underway, OnItsWay

LEMMA OwedInit ==
    ASSUME Init PROVE Owed
<1>1. /\ DOMAIN writes = {} /\ calls = {} /\ phase = "down"
      /\ \A t \in Tasks, k \in Time : ~Open(t, k)
  BY DEF Init, Open
<1> QED
  BY <1>1 DEF Owed, OpenOwned, OpenCovered, AnchorsOpen, Booting, ReportsWhole, CallsFree

\* Steps that leave everything it speaks of alone.
LEMMA OwedSame ==
    ASSUME Owed,
           UNCHANGED <<now, outcome, live, row, phase, writes, anchor, todo, asOf, gate, calls>>
    PROVE  Owed'
<1>1. OpenOwned' /\ AnchorsOpen' /\ ReportsWhole' /\ CallsFree'
  BY DEF Owed, OpenOwned, AnchorsOpen, ReportsWhole, CallsFree, Open, Booting, Schedulable
<1>2. OpenCovered'
  <2>1. \A t \in Tasks, k \in Time : OnItsWay(t, k) => OnItsWay(t, k)'
    BY DEF OnItsWay, Sending, Reporting, Missable
  <2>2. \A t \in Tasks, k \in Time : Open(t, k)' => Open(t, k)
    BY DEF Open
  <2> QED
    BY <2>1, <2>2 DEF Owed, OpenCovered
<1> QED
  BY <1>1, <1>2 DEF Owed

\* Steps of an operator or a reload, when the daemon is up and nothing starts
\* on its way: what they leave open, they leave with its schedule and its pause.
LEMMA OwedUp ==
    ASSUME Shape, Owed, GivenUp, phase = "up",
           UNCHANGED <<now, phase, asOf, writes, gate, calls>>,
           \A t \in Tasks, k \in Time : outcome'[t][k] = "due" =>
              /\ Schedulable(live'[t]) /\ live'[t].def.sched = live[t].def.sched
              /\ row[t].paused => row'[t].paused
    PROVE  Owed'
<1>1. \A t \in Tasks, k \in Time : Open(t, k)' => Open(t, k) /\ outcome'[t][k] = "due"
  BY DEF Open, GivenUp
<1>2. OpenOwned'
  BY <1>1 DEF Owed, OpenOwned, Schedulable
<1>3. OpenCovered'
  <2>1. \A t \in Tasks, k \in Time : OnItsWay(t, k) => OnItsWay(t, k)'
    BY DEF OnItsWay, Sending, Reporting
  <2> QED
    BY <1>1, <2>1 DEF Owed, OpenCovered
<1>4. AnchorsOpen' /\ CallsFree'
  BY DEF Owed, AnchorsOpen, CallsFree, Booting
<1>5. ReportsWhole'
  <2>1. \A i \in DOMAIN writes : writes[i].task \in Tasks
    BY WritesFacts DEF Shape
  <2> QED
    BY <1>1, <2>1 DEF Owed, ReportsWhole, Open
<1> QED
  BY <1>2, <1>3, <1>4, <1>5 DEF Owed

LEMMA OwedOperator ==
    ASSUME Shape, Phases, Agree, Owed, NEW t \in Tasks, Pause(t) \/ Resume(t) PROVE Owed'
<1>1. UNCHANGED <<now, phase, asOf, writes, gate, calls, live>> /\ phase = "up"
  BY DEF Pause, Resume, bootVars
<1>2. OutcomeType /\ RowType
  BY DEF Shape
<1>3. GivenUp
  BY <1>2, WaivesOne DEF Pause, Resume, GivenUp
<1>4. ASSUME NEW u \in Tasks, NEW k \in Time, outcome'[u][k] = "due"
      PROVE  Schedulable(live'[u]) /\ live'[u].def.sched = live[u].def.sched
             /\ (row[u].paused => row'[u].paused)
  <2>1. outcome[u][k] = "due"
    BY <1>3, <1>4 DEF GivenUp
  <2>2. Schedulable(live[u])
    BY <2>1 DEF Owed, OpenOwned, Open
  <2>3. row[u].paused => row'[u].paused
    <3>1. CASE Pause(t)
      BY <1>2, <3>1 DEF Pause, RowType
    <3>2. CASE Resume(t)
      <4>1. outcome'[t] = Waived(t)
        BY <1>2, <3>2 DEF Resume, OutcomeType
      <4>2. u # t
        BY <1>2, <1>4, <4>1, WaivedFacts
      <4> QED
        BY <1>2, <3>2, <4>2 DEF Resume, RowType
    <3> QED
      BY <3>1, <3>2
  <2> QED
    BY <1>1, <2>2, <2>3 DEF Schedulable
<1> QED
  BY <1>1, <1>3, <1>4, OwedUp

LEMMA OwedRemove ==
    ASSUME Shape, Phases, Agree, Owed, Remove PROVE Owed'
<1>1. UNCHANGED <<now, phase, asOf, writes, gate, calls>> /\ phase = "up"
  BY DEF Remove, bootVars, Phases
<1>2. OutcomeType
  BY DEF Shape
<1>3. GivenUp
  BY <1>2, WaivesSome DEF Remove
<1>4. ASSUME NEW t \in Tasks, NEW k \in Time, outcome'[t][k] = "due"
      PROVE  Schedulable(live'[t]) /\ live'[t].def.sched = live[t].def.sched
             /\ (row[t].paused => row'[t].paused)
  <2>1. Schedulable(live[t])
    BY <1>3, <1>4 DEF GivenUp, Owed, OpenOwned, Open
  <2>2. t \notin Removed
    BY <1>2, <1>4, WaivedFacts DEF Remove
  <2>3. live'[t] = live[t] /\ reload.target[t] # Absent
    BY <2>1, <2>2 DEF Remove, Removed, Schedulable
  <2>4. row'[t] = row[t]
    BY <2>3 DEF Remove
  <2> QED
    BY <2>1, <2>3, <2>4
<1> QED
  BY <1>1, <1>3, <1>4, OwedUp

LEMMA OwedUpdate ==
    ASSUME Shape, Phases, Agree, Owed, NEW t \in Tasks, Update(t) PROVE Owed'
<1> DEFINE x == reload.target[t]
<1>1. UNCHANGED <<now, phase, asOf, writes, gate, calls>> /\ phase = "up"
  BY DEF Update, bootVars, Phases
<1>2. OutcomeType /\ RowType /\ LiveType /\ now \in Time
  BY DEF Shape, ClockType
<1>3. GivenUp
  BY <1>2, WaivesOne DEF Update, GivenUp
<1>4. ASSUME NEW u \in Tasks, NEW k \in Time, outcome'[u][k] = "due"
      PROVE  Schedulable(live'[u]) /\ live'[u].def.sched = live[u].def.sched
             /\ (row[u].paused => row'[u].paused)
  <2>1. Schedulable(live[u])
    BY <1>3, <1>4 DEF GivenUp, Owed, OpenOwned, Open
  <2>2. CASE u # t
    <3>1. live'[u] = live[u] /\ row'[u] = row[u]
      BY <1>2, <2>2 DEF Update, LiveType, RowType
    <3> QED
      BY <2>1, <3>1
  <2>3. CASE u = t
    <3>1. live'[t] = x /\ row'[t] = UpdatedRow(t, x)
      BY <1>2 DEF Update, LiveType, RowType
    <3>2. ~(row[t] = NoRow \/ ~Kept(t, x))
      <4>1. ASSUME outcome' = [outcome EXCEPT ![t] = Waived(t)] PROVE FALSE
        <5>1. outcome'[t] = Waived(t)
          BY <1>2, <4>1 DEF OutcomeType
        <5> QED
          BY <1>2, <1>4, <2>3, <5>1, WaivedFacts
      <4> QED
        BY <4>1 DEF Update
    <3>3. UpdatedRow(t, x) = row[t]
      BY <1>2, <3>2, RegisteredFacts DEF UpdatedRow, RowType
    <3>4. Schedulable(x) /\ live[t].def.sched = x.def.sched
      BY <2>1, <2>3, <3>2 DEF Kept, Schedulable
    <3> QED
      BY <2>3, <3>1, <3>3, <3>4
  <2> QED
    BY <2>2, <2>3
<1> QED
  BY <1>1, <1>3, <1>4, OwedUp

LEMMA OwedPrunePauses ==
    ASSUME Shape, Phases, Agree, Owed, PrunePauses PROVE Owed'
<1>1. UNCHANGED <<now, phase, asOf, writes, gate, calls, live>> /\ phase = "up"
  BY DEF PrunePauses, bootVars, Phases
<1>2. OutcomeType
  BY DEF Shape
<1>3. GivenUp
  BY <1>2, WaivesSome DEF PrunePauses, PrunePaused
<1>4. ASSUME NEW t \in Tasks, NEW k \in Time, outcome'[t][k] = "due"
      PROVE  Schedulable(live'[t]) /\ live'[t].def.sched = live[t].def.sched
             /\ (row[t].paused => row'[t].paused)
  <2>1. Schedulable(live[t])
    BY <1>3, <1>4 DEF GivenUp, Owed, OpenOwned, Open
  <2>2. ~(t \in paused /\ ~Pausable(reload.target[t]))
    BY <1>2, <1>4, WaivedFacts DEF PrunePauses, PrunePaused
  <2>3. row'[t] = row[t]
    BY <2>2 DEF PrunePauses, PrunePaused
  <2> QED
    BY <1>1, <2>1, <2>3 DEF Schedulable
<1> QED
  BY <1>1, <1>3, <1>4, OwedUp

LEMMA OwedTick ==
    ASSUME Shape, Phases, Agree, Owed, Tick PROVE Owed'
<1>1. /\ UNCHANGED <<row, live, phase, anchor, todo, asOf, gate>> /\ writes' = <<>>
      /\ calls = {} /\ writes = <<>> /\ phase # "loaded"
  BY DEF Tick, bootVars
<1>2. /\ now \in Nat /\ now' = now + 1 /\ now + 1 \in Time
      /\ \A t \in Tasks : outcome'[t][now + 1] = Arisen(t, now + 1)
      /\ \A t \in Tasks, k \in Time : k # now + 1 => outcome'[t][k] = outcome[t][k]
      /\ \A t \in Tasks : Arisen(t, now + 1) = "due" => phase = "down" \/ t \in calls'
  BY TickFacts
<1>3. ASSUME NEW t \in Tasks, NEW k \in Time, outcome'[t][k] = "due", k # now + 1
      PROVE  /\ k <= now /\ Schedulable(live[t]) /\ k \in Ticks[live[t].def.sched]
             /\ row[t].paused \/ IF phase = "down" THEN k > row[t].since ELSE Reporting(t, k) \/ gate[t] = k
  <2>1. Open(t, k)
    BY <1>2, <1>3 DEF Open
  <2>2. ~Sending(t, k) /\ t \notin calls
    BY <1>1 DEF Sending
  <2> QED
    BY <2>1, <2>2 DEF Owed, OpenOwned, OpenCovered, OnItsWay
<1>4. ASSUME NEW t \in Tasks, outcome'[t][now + 1] = "due"
      PROVE  /\ Schedulable(live[t]) /\ now + 1 \in Ticks[live[t].def.sched]
             /\ IF phase = "down" THEN now + 1 > row[t].since ELSE t \in calls'
  <2>1. Arisen(t, now + 1) = "due"
    BY <1>2, <1>4
  <2>2. row[t].since \in Never .. now
    BY DEF Shape, RowType, Rows
  <2>3. now + 1 > row[t].since
    BY <1>2, <2>2, ConstantFacts
  <2> QED
    BY <1>2, <2>1, <2>3 DEF Arisen
<1>5. OpenOwned'
  <2>1. ASSUME NEW t \in Tasks, NEW k \in Time, outcome'[t][k] = "due"
        PROVE  k <= now + 1 /\ Schedulable(live[t]) /\ k \in Ticks[live[t].def.sched]
    <3>1. CASE k = now + 1
      BY <1>2, <1>4, <2>1, <3>1
    <3>2. CASE k # now + 1
      BY <1>2, <1>3, <2>1, <3>2, ConstantFacts
    <3> QED
      BY <3>1, <3>2
  <2> QED
    BY <1>1, <1>2, <2>1 DEF OpenOwned, Open, Schedulable
<1>6. OpenCovered'
  <2>1. ASSUME NEW t \in Tasks, NEW k \in Time, outcome'[t][k] = "due"
        PROVE  row[t].paused \/ IF phase = "down" THEN k > row[t].since
               ELSE Reporting(t, k) \/ gate[t] = k \/ (t \in calls' /\ k = now + 1)
    <3>1. CASE k = now + 1
      BY <1>4, <2>1, <3>1
    <3>2. CASE k # now + 1
      BY <1>3, <2>1, <3>2
    <3> QED
      BY <3>1, <3>2
  <2>2. \A t \in Tasks, k \in Time : Reporting(t, k) => Reporting(t, k)'
    BY <1>1 DEF Reporting, Missable
  <2> QED
    BY <1>1, <1>2, <2>1, <2>2 DEF OpenCovered, Open, OnItsWay
<1>7. AnchorsOpen' /\ ReportsWhole'
  BY <1>1 DEF Owed, AnchorsOpen, ReportsWhole, Booting
<1>8. CallsFree'
  <2>1. ASSUME NEW t \in calls' PROVE gate[t] = Never
    BY <2>1 DEF Tick
  <2> QED
    BY <1>1, <2>1 DEF CallsFree
<1> QED
  BY <1>5, <1>6, <1>7, <1>8 DEF Owed

LEMMA OwedWriteRow ==
    ASSUME Shape, Phases, Once, Owed, WriteRow PROVE Owed'
<1> DEFINE w == Head(writes)
<1>1. w \in RunRows /\ 1 \in DOMAIN writes /\ w = writes[1] /\ writes' = Tail(writes)
  BY WriteRowFacts
<1>2. /\ \A t \in Tasks \ {w.task} : outcome'[t] = outcome[t] /\ row'[t] = row[t]
      /\ \A k \in Time : k \notin w.ticks => outcome'[w.task][k] = outcome[w.task][k]
      /\ w.as # "missed" => \A k \in w.ticks : outcome'[w.task][k] = w.as
      /\ w.as = "missed" => \A k \in w.ticks :
           outcome'[w.task][k] = IF outcome[w.task][k] = "due" THEN "missed" ELSE outcome[w.task][k]
      /\ row'[w.task] = Bumped(row[w.task], w.at)
  BY WriteRowFacts
<1>3. /\ UNCHANGED <<now, live, phase, anchor, todo, asOf, gate, calls>> /\ phase # "down"
      /\ \A i \in DOMAIN writes' : i + 1 \in DOMAIN writes /\ writes'[i] = writes[i + 1]
      /\ \A j \in DOMAIN writes : j # 1 => j - 1 \in DOMAIN writes' /\ writes'[j - 1] = writes[j]
  BY TailFacts DEF WriteRow, Shape, WriteType, bootVars
<1>4. w.at <= now
  BY <1>1 DEF Shape, WriteType
<1> HIDE DEF w
<1>5. w.task \in Tasks /\ w.at \in Time /\ w.as \in {"ran", "skipped", "missed"}
  BY <1>1 DEF RunRows
<1>6. \A t \in Tasks : row'[t].paused = row[t].paused
  <2>1. Bumped(row[w.task], w.at).paused = row[w.task].paused
    BY <1>4, <1>5, BumpedFacts DEF Shape, RowType, ClockType
  <2> QED
    BY <1>2, <2>1
\* What the record covers is open no more.
<1>7. ASSUME NEW t \in Tasks, NEW k \in Time, outcome'[t][k] = "due"
      PROVE  outcome[t][k] = "due" /\ ~(t = w.task /\ k \in w.ticks)
  <2>1. CASE t = w.task /\ k \in w.ticks
    BY <1>2, <1>5, <1>7, <2>1
  <2>2. CASE ~(t = w.task /\ k \in w.ticks)
    BY <1>2, <1>7, <2>2
  <2> QED
    BY <2>1, <2>2
<1>8. OpenOwned'
  BY <1>3, <1>7 DEF Owed, OpenOwned, Open, Schedulable
<1>9. OpenCovered'
  <2>1. ASSUME NEW t \in Tasks, NEW k \in Time, outcome'[t][k] = "due", ~row'[t].paused
        PROVE  OnItsWay(t, k)'
    <3>1. Open(t, k) /\ ~row[t].paused /\ ~(t = w.task /\ k \in w.ticks)
      BY <1>6, <1>7, <2>1 DEF Open
    <3>2. OnItsWay(t, k)
      BY <1>3, <3>1 DEF Owed, OpenCovered
    <3>3. ASSUME Sending(t, k) PROVE Sending(t, k)'
      <4>1. PICK i \in DOMAIN writes : writes[i].task = t /\ k \in writes[i].ticks
        BY <3>3 DEF Sending
      <4>2. i # 1
        BY <1>1, <3>1, <4>1
      <4>3. i - 1 \in DOMAIN writes' /\ writes'[i - 1] = writes[i]
        BY <1>3, <4>2
      <4> QED
        BY <4>1, <4>3 DEF Sending
    <3>4. Reporting(t, k) => Reporting(t, k)'
      BY <1>3 DEF Reporting, Missable
    <3> QED
      BY <1>3, <3>2, <3>3, <3>4 DEF OnItsWay
  <2> QED
    BY <1>3, <2>1 DEF OpenCovered, Open
<1>10. AnchorsOpen' /\ CallsFree'
  BY <1>3, <1>6 DEF Owed, AnchorsOpen, CallsFree, Booting
<1>11. ReportsWhole'
  <2>1. ASSUME NEW i \in DOMAIN writes', writes'[i].as = "missed"
        PROVE  /\ phase = "up" \/ (phase = "catchup" /\ writes'[i].task \notin todo)
               /\ \A k \in Time : k <= asOf /\ outcome'[writes'[i].task][k] = "due" => k \in writes'[i].ticks
    <3>1. PICK j \in DOMAIN writes : writes'[i] = writes[j]
      BY <1>3
    <3>2. writes[j].task \in Tasks
      BY WritesFacts DEF Shape
    <3>3. /\ phase = "up" \/ (phase = "catchup" /\ writes[j].task \notin todo)
          /\ \A k \in Time : k <= asOf /\ Open(writes[j].task, k) => k \in writes[j].ticks
      BY <2>1, <3>1 DEF Owed, ReportsWhole
    <3>4. \A k \in Time : outcome'[writes[j].task][k] = "due" => Open(writes[j].task, k)
      BY <1>7, <3>2 DEF Open
    <3> QED
      BY <3>1, <3>3, <3>4
  <2> QED
    BY <1>3, <2>1 DEF ReportsWhole, Open
<1> QED
  BY <1>8, <1>9, <1>10, <1>11 DEF Owed

\* A row whose task is not paused says since when: it is not NoRow.
LEMMA SinceFacts ==
    ASSUME NEW r \in Rows(now), r # NoRow, ~r.paused PROVE r.since # Never
<1>1. r = [since |-> r.since, paused |-> r.paused] /\ r.paused \in BOOLEAN
  BY DEF Rows
<1> QED
  BY <1>1 DEF NoRow

LEMMA OwedLoad ==
    ASSUME Shape, Phases, Agree, Owed, Load PROVE Owed'
<1>1. /\ UNCHANGED <<now, writes, gate, calls>> /\ writes = <<>> /\ calls = {}
      /\ phase = "down" /\ phase' = "loaded" /\ asOf' = now
      /\ \A t \in Tasks : live'[t] = Loaded[t] /\ row'[t] = BootRow(t)
      /\ \A t \in Tasks : anchor'[t] = IF Schedulable(Loaded[t]) THEN AnchorOf(BootRow(t)) ELSE Never
  BY DEF Load, Phases, sched
<1>2. GivenUp
  BY WaivesSome DEF Load, Shape
<1>3. ASSUME NEW t \in Tasks, NEW k \in Time, outcome'[t][k] = "due"
      PROVE  /\ k <= now /\ Schedulable(Loaded[t]) /\ k \in Ticks[Loaded[t].def.sched]
             /\ BootRow(t).paused \/ (anchor'[t] # Never /\ anchor'[t] < k)
  <2>1. Open(t, k)
    BY <1>2, <1>3 DEF GivenUp, Open
  <2>2. k <= now /\ Schedulable(live[t]) /\ k \in Ticks[live[t].def.sched]
        /\ (row[t].paused \/ k > row[t].since)
    BY <1>1, <2>1 DEF Owed, OpenOwned, OpenCovered
  <2>3. ~(row[t] = NoRow \/ ~Kept(t, Loaded[t]))
    BY <1>3, WaivedFacts DEF Load, Shape
  <2>4. Schedulable(Loaded[t]) /\ live[t].def.sched = Loaded[t].def.sched
    BY <2>2, <2>3 DEF Kept, Schedulable
  <2>5. BootRow(t) = row[t]
    BY <2>3, <2>4 DEF BootRow, Registered, Schedulable
  <2>6. ASSUME ~row[t].paused PROVE anchor'[t] # Never /\ anchor'[t] < k
    <3>1. anchor'[t] = row[t].since
      BY <1>1, <2>3, <2>4, <2>5, <2>6 DEF AnchorOf
    <3>2. row[t].since # Never
      BY <2>3, <2>6, SinceFacts DEF Shape, RowType
    <3>3. row[t].since \in Int /\ k \in Int
      BY ConstantFacts DEF Shape, RowType, Rows, ClockType
    <3> QED
      BY <2>2, <2>6, <3>1, <3>2, <3>3
  <2> QED
    BY <2>2, <2>4, <2>5, <2>6
<1>4. OpenOwned'
  BY <1>1, <1>3 DEF OpenOwned, Open, Schedulable
<1>5. OpenCovered'
  <2>1. ASSUME NEW t \in Tasks, NEW k \in Time, outcome'[t][k] = "due", ~row'[t].paused
        PROVE  Reporting(t, k)'
    BY <1>1, <1>3, <2>1 DEF Reporting, Missable
  <2> QED
    BY <1>1, <2>1 DEF OpenCovered, Open, OnItsWay
<1>6. AnchorsOpen'
  BY <1>1 DEF AnchorsOpen, AnchorOf
<1>7. ReportsWhole' /\ CallsFree'
  BY <1>1 DEF ReportsWhole, CallsFree
<1> QED
  BY <1>4, <1>5, <1>6, <1>7 DEF Owed

LEMMA OwedStartScheduler ==
    ASSUME Shape, Phases, Agree, Owed, StartScheduler PROVE Owed'
<1>1. /\ UNCHANGED <<now, writes, live, anchor, asOf, gate, calls>> /\ writes = <<>> /\ calls = {}
      /\ phase = "loaded" /\ phase' = "startup"
      /\ \A t \in Tasks : row'[t] = IF Pausable(live[t]) THEN row[t] ELSE Resumed(row[t])
  BY DEF StartScheduler, Phases
<1>2. GivenUp
  BY WaivesSome DEF StartScheduler, Shape
<1>3. \A t \in Tasks, k \in Time : outcome'[t][k] = "due" => Open(t, k)
  BY <1>2 DEF GivenUp, Open
<1>4. \A t \in Tasks : row'[t].paused => row[t].paused
  BY <1>1, ResumedFacts DEF Shape, RowType, ClockType
<1>5. ASSUME NEW t \in Tasks, NEW k \in Time, outcome'[t][k] = "due" PROVE row[t].paused => row'[t].paused
  <2>1. ~(row[t].paused /\ ~Pausable(live[t]))
    BY <1>5, WaivedFacts DEF StartScheduler, Shape
  <2> QED
    BY <1>1, <2>1
<1>6. OpenOwned'
  BY <1>1, <1>3 DEF Owed, OpenOwned, Open, Schedulable
<1>7. OpenCovered'
  <2>1. \A t \in Tasks, k \in Time : OnItsWay(t, k) => OnItsWay(t, k)'
    BY <1>1 DEF OnItsWay, Sending, Reporting, Missable
  <2>2. ASSUME NEW t \in Tasks, NEW k \in Time, outcome'[t][k] = "due"
        PROVE  row'[t].paused \/ OnItsWay(t, k)'
    BY <1>1, <1>3, <1>5, <2>1, <2>2 DEF Owed, OpenCovered
  <2> QED
    BY <1>1, <2>2 DEF OpenCovered, Open
<1>8. AnchorsOpen'
  BY <1>1, <1>4 DEF Owed, AnchorsOpen, Booting
<1>9. ReportsWhole' /\ CallsFree'
  BY <1>1 DEF ReportsWhole, CallsFree
<1> QED
  BY <1>6, <1>7, <1>8, <1>9 DEF Owed

\* Steps that change nothing but the rows on their way and the place of a boot:
\* what was on its way still is, and the reports sent are whole.
LEMMA OwedSent ==
    ASSUME Owed, UNCHANGED <<now, outcome, live, row, calls>>, phase # "down", phase' # "down",
           \A t \in Tasks, k \in Time : Open(t, k) /\ OnItsWay(t, k) => OnItsWay(t, k)',
           Booting' => Booting /\ UNCHANGED anchor, ReportsWhole', CallsFree'
    PROVE  Owed'
<1>1. OpenOwned' /\ AnchorsOpen'
  BY DEF Owed, OpenOwned, AnchorsOpen, Open, Schedulable
<1>2. OpenCovered'
  <2>1. ASSUME NEW t \in Tasks, NEW k \in Time, Open(t, k) PROVE row'[t].paused \/ OnItsWay(t, k)'
    BY <2>1 DEF Owed, OpenCovered
  <2> QED
    BY <2>1 DEF OpenCovered, Open
<1> QED
  BY <1>1, <1>2 DEF Owed

LEMMA OwedSilent ==
    ASSUME Shape, Phases, Owed,
           \/ StartCatchUp \/ \E t \in Tasks : RunStartupTask(t) \/ ManualRun(t)
    PROVE  Owed'
<1>1. /\ UNCHANGED <<now, outcome, live, row, calls, anchor, asOf, gate>>
      /\ \/ phase = "up" /\ phase' = "up"
         \/ phase = "startup" /\ phase' = "startup"
         \/ phase = "startup" /\ phase' = "catchup" /\ todo' = Tasks /\ UNCHANGED writes
  BY DEF StartCatchUp, RunStartupTask, ManualRun, bootVars
<1>2. /\ DOMAIN writes \subseteq DOMAIN writes' /\ \A i \in DOMAIN writes : writes'[i] = writes[i]
      /\ \A i \in DOMAIN writes' \ DOMAIN writes : writes'[i].ticks = {} /\ writes'[i].as = "ran"
  <2>1. CASE StartCatchUp
    BY <2>1 DEF StartCatchUp
  <2>2. ASSUME NEW t \in Tasks, RunStartupTask(t) \/ ManualRun(t)
        PROVE  Persist(t, now, {}, "ran") \/ UNCHANGED writes
    BY <2>2 DEF RunStartupTask, ManualRun
  <2> QED
    BY <1>1, <2>1, <2>2, NoTickSent
<1>3. ASSUME NEW t \in Tasks, NEW k \in Time, OnItsWay(t, k) PROVE OnItsWay(t, k)'
  <2>1. Sending(t, k) => Sending(t, k)'
    BY <1>2 DEF Sending
  <2>2. Reporting(t, k) => Reporting(t, k)'
    BY <1>1 DEF Reporting, Missable
  <2> QED
    BY <1>1, <1>3, <2>1, <2>2 DEF OnItsWay
<1>4. ReportsWhole'
  <2>1. ASSUME NEW i \in DOMAIN writes', writes'[i].as = "missed"
        PROVE  /\ phase' = "up" \/ (phase' = "catchup" /\ writes'[i].task \notin todo')
               /\ \A k \in Time : k <= asOf /\ Open(writes'[i].task, k) => k \in writes'[i].ticks
    <3>1. i \in DOMAIN writes /\ writes'[i] = writes[i]
      BY <1>2, <2>1
    <3>2. /\ phase = "up" \/ (phase = "catchup" /\ writes[i].task \notin todo)
          /\ \A k \in Time : k <= asOf /\ Open(writes[i].task, k) => k \in writes[i].ticks
      BY <2>1, <3>1 DEF Owed, ReportsWhole
    <3> QED
      BY <1>1, <3>1, <3>2
  <2> QED
    BY <1>1, <2>1 DEF ReportsWhole, Open
<1>5. CallsFree'
  BY <1>1 DEF Owed, CallsFree
<1> QED
  BY <1>1, <1>3, <1>4, <1>5, OwedSent DEF Booting

LEMMA OwedFinishBoot ==
    ASSUME Shape, Phases, Owed, FinishBoot PROVE Owed'
<1>1. /\ UNCHANGED <<now, outcome, live, row, calls, asOf, gate, writes>>
      /\ phase = "catchup" /\ todo = {} /\ phase' = "up"
  BY DEF FinishBoot
<1>2. ASSUME NEW t \in Tasks, NEW k \in Time, OnItsWay(t, k) PROVE OnItsWay(t, k)'
  <2>1. ~Reporting(t, k)
    BY <1>1 DEF Reporting
  <2> QED
    BY <1>1, <1>2, <2>1 DEF OnItsWay, Sending
<1>3. ReportsWhole' /\ CallsFree'
  BY <1>1 DEF Owed, ReportsWhole, CallsFree, Open
<1> QED
  BY <1>1, <1>2, <1>3, OwedSent DEF Booting

\* What is open of a task the catch-up has still to visit is what it reports.
LEMMA OpenIsMissable ==
    ASSUME Shape, Once, Owed, phase = "catchup", NEW t \in todo, t \in Tasks, anchor[t] # Never,
           NEW k \in Time, k <= asOf, Open(t, k)
    PROVE  k \in Missable(t)
<1>1. ~row[t].paused
  BY DEF Owed, AnchorsOpen, Booting
<1>2. OnItsWay(t, k)
  BY <1>1 DEF Owed, OpenCovered
<1>3. asOf \in Nat /\ now \in Nat /\ k \in Nat /\ k # Never /\ gate[t] \in Time \cup {Never}
  BY ConstantFacts DEF Shape, ClockType, GateType
<1>4. ~Sending(t, k)
  <2>1. ASSUME NEW i \in DOMAIN writes, writes[i].task = t, k \in writes[i].ticks PROVE FALSE
    <3>1. writes[i].as # "missed"
      BY <2>1 DEF Owed, ReportsWhole
    <3>2. asOf < k
      BY <2>1, <3>1 DEF Once, RunsOnce
    <3> QED
      BY <1>3, <3>2
  <2> QED
    BY <2>1 DEF Sending
<1>5. gate[t] # k
  BY <1>3 DEF Once, GateOnce
<1>6. ~(t \in calls /\ k = now)
  BY <1>3 DEF Once, CallsOnce
<1> QED
  BY <1>2, <1>4, <1>5, <1>6 DEF OnItsWay, Reporting

LEMMA OwedCatchUpTask ==
    ASSUME Shape, Phases, Once, Owed, NEW t \in Tasks, CatchUpTask(t) PROVE Owed'
<1>1. /\ UNCHANGED <<now, outcome, live, row, calls, asOf, gate, anchor, phase>>
      /\ phase = "catchup" /\ t \in todo /\ todo' = todo \ {t}
  BY DEF CatchUpTask
<1>2. /\ DOMAIN writes \subseteq DOMAIN writes' /\ \A i \in DOMAIN writes : writes'[i] = writes[i]
      /\ \A i \in DOMAIN writes' \ DOMAIN writes :
           \/ /\ anchor[t] # Never
              /\ writes'[i].task = t /\ writes'[i].as = "missed" /\ writes'[i].ticks = Missable(t)
           \/ writes'[i].ticks = {} /\ writes'[i].as = "ran"
      /\ anchor[t] # Never /\ Missable(t) # {} =>
           \E i \in DOMAIN writes' : writes'[i].task = t /\ writes'[i].ticks = Missable(t)
  <2>1. /\ DOMAIN writes \subseteq DOMAIN writes' /\ \A i \in DOMAIN writes : writes'[i] = writes[i]
        /\ \A i \in DOMAIN writes' \ DOMAIN writes :
             \/ anchor[t] # Never /\ \E at : writes'[i] = NewRow(t, at, Missable(t), "missed")
             \/ writes'[i] = NewRow(t, now, {}, "ran")
        /\ anchor[t] # Never /\ Missable(t) # {} =>
             \E i \in DOMAIN writes' : \E at : writes'[i] = NewRow(t, at, Missable(t), "missed")
    BY CatchUpRows
  <2> QED
    BY <2>1 DEF NewRow
<1>3. ASSUME NEW u \in Tasks, NEW k \in Time, OnItsWay(u, k) PROVE OnItsWay(u, k)'
  <2>1. Sending(u, k) => Sending(u, k)'
    BY <1>2 DEF Sending
  <2>2. CASE Reporting(u, k) /\ u = t
    <3>1. anchor[t] # Never /\ k \in Missable(t)
      BY <2>2 DEF Reporting
    <3>2. Sending(t, k)'
      BY <1>2, <3>1 DEF Sending
    <3> QED
      BY <2>2, <3>2 DEF OnItsWay
  <2>3. CASE Reporting(u, k) /\ u # t
    <3>1. Reporting(u, k)'
      BY <1>1, <2>3 DEF Reporting, Missable
    <3> QED
      BY <3>1 DEF OnItsWay
  <2> QED
    BY <1>1, <1>3, <2>1, <2>2, <2>3 DEF OnItsWay
<1>4. ReportsWhole'
  <2>1. ASSUME NEW i \in DOMAIN writes', writes'[i].as = "missed"
        PROVE  /\ writes'[i].task \notin todo'
               /\ \A k \in Time : k <= asOf /\ Open(writes'[i].task, k) => k \in writes'[i].ticks
    <3>1. CASE i \in DOMAIN writes
      BY <1>1, <1>2, <2>1, <3>1 DEF Owed, ReportsWhole
    <3>2. CASE i \notin DOMAIN writes
      <4>1. /\ anchor[t] # Never
            /\ writes'[i].task = t /\ writes'[i].as = "missed" /\ writes'[i].ticks = Missable(t)
        BY <1>2, <2>1, <3>2
      <4>2. \A k \in Time : k <= asOf /\ Open(t, k) => k \in Missable(t)
        BY <1>1, <4>1, OpenIsMissable
      <4> QED
        BY <1>1, <4>1, <4>2
    <3> QED
      BY <3>1, <3>2
  <2> QED
    BY <1>1, <2>1 DEF ReportsWhole, Open
<1>5. CallsFree'
  BY <1>1 DEF Owed, CallsFree
<1> QED
  BY <1>1, <1>3, <1>4, <1>5, OwedSent DEF Booting

\* A fire, from a callback or from the gate, that is refused: its task owes
\* nothing any more. Otherwise it is in the gate now, or among the rows.
LEMMA OwedFired ==
    ASSUME Shape, Phases, Once, Owed, NEW t \in Tasks, Fire(t) \/ Release(t) PROVE Owed'
<1>1. /\ UNCHANGED <<now, live, row, phase, anchor, todo, asOf>> /\ phase \notin {"down", "loaded"}
      /\ calls' \subseteq calls
  BY FireFacts DEF Release, bootVars, Phases
<1>2. GivenUp
  <2>1. outcome' = outcome \/ outcome' = [outcome EXCEPT ![t] = Waived(t)]
    BY FireFacts DEF Release, ReleaseChecked
  <2> QED
    BY <2>1, WaivesOne DEF Shape, GivenUp
<1>3. \A u \in Tasks, k \in Time : outcome'[u][k] = "due" => Open(u, k)
  BY <1>2 DEF GivenUp, Open
<1>4. /\ DOMAIN writes \subseteq DOMAIN writes' /\ \A i \in DOMAIN writes : writes'[i] = writes[i]
      /\ \A i \in DOMAIN writes' \ DOMAIN writes : writes'[i].as # "missed"
      /\ \A k \in Time, as \in {"ran", "skipped"} :
           k <= now /\ Persist(t, k, {k}, as) => \E i \in DOMAIN writes' : writes'[i] = NewRow(t, k, {k}, as)
  <2>1. ASSUME NEW k \in Time, NEW as \in {"ran", "skipped"}, k <= now, Persist(t, k, {k}, as)
        PROVE  /\ DOMAIN writes' = DOMAIN writes \cup {Len(writes) + 1}
               /\ \A i \in DOMAIN writes : writes'[i] = writes[i]
               /\ writes'[Len(writes) + 1] = NewRow(t, k, {k}, as)
    BY <1>1, <2>1, PersistFacts DEF Shape, ClockType
  <2>2. \/ UNCHANGED writes
        \/ \E k \in Time, as \in {"ran", "skipped"} : k <= now /\ Persist(t, k, {k}, as)
    <3>1. CASE Fire(t)
      <4>1. now \in Time /\ now <= now
        BY ConstantFacts DEF Shape, ClockType
      <4> QED
        BY <3>1, <4>1, FireFacts
    <3>2. CASE Release(t)
      <4>1. gate[t] \in Time /\ gate[t] <= now
        BY <3>2 DEF Release, Shape, GateType
      <4> QED
        BY <3>2, <4>1 DEF Release, ReleaseChecked
    <3> QED
      BY <3>1, <3>2
  <2>3. ASSUME NEW k \in Time, NEW as \in {"ran", "skipped"}, k <= now, Persist(t, k, {k}, as)
        PROVE  /\ DOMAIN writes \subseteq DOMAIN writes' /\ \A i \in DOMAIN writes : writes'[i] = writes[i]
               /\ \A i \in DOMAIN writes' \ DOMAIN writes : writes'[i].as # "missed"
               /\ \E i \in DOMAIN writes' : writes'[i] = NewRow(t, k, {k}, as)
    <3>1. NewRow(t, k, {k}, as).as # "missed"
      BY DEF NewRow
    <3> QED
      BY <2>1, <2>3, <3>1
  <2>4. CASE UNCHANGED writes
    BY <2>3, <2>4
  <2> QED
    BY <2>2, <2>3, <2>4
<1>5. \A u \in Tasks, k \in Time : Sending(u, k) => Sending(u, k)'
  BY <1>4 DEF Sending
<1>6. \A u \in Tasks, k \in Time : Reporting(u, k) => Reporting(u, k)'
  BY <1>1 DEF Reporting, Missable
<1>7. \A k \in Time, as \in {"ran", "skipped"} : k <= now /\ Persist(t, k, {k}, as) =>
          \E i \in DOMAIN writes' : writes'[i].task = t /\ k \in writes'[i].ticks
  <2>1. \A k, as : NewRow(t, k, {k}, as).task = t /\ k \in NewRow(t, k, {k}, as).ticks
    BY DEF NewRow
  <2>2. ASSUME NEW k \in Time, NEW as \in {"ran", "skipped"}, k <= now, Persist(t, k, {k}, as)
        PROVE  \E i \in DOMAIN writes' : writes'[i].task = t /\ k \in writes'[i].ticks
    <3>1. PICK i \in DOMAIN writes' : writes'[i] = NewRow(t, k, {k}, as)
      BY <1>4, <2>2
    <3> QED
      BY <2>1, <3>1
  <2> QED
    BY <2>2
<1>8. ASSUME NEW u \in Tasks, NEW k \in Time, outcome'[u][k] = "due", OnItsWay(u, k) PROVE OnItsWay(u, k)'
  <2>1. k # Never /\ now \in Time /\ now <= now
    BY ConstantFacts DEF Shape, ClockType
  <2>2. outcome' # [outcome EXCEPT ![t] = Waived(t)] \/ u # t
    <3>1. ASSUME outcome' = [outcome EXCEPT ![t] = Waived(t)] PROVE outcome'[t] = Waived(t)
      BY <3>1 DEF Shape, OutcomeType
    <3> QED
      BY <1>8, <3>1, WaivedFacts DEF Shape
  <2>3. CASE Fire(t) /\ u = t
    <3>1. t \in calls /\ gate[t] = Never
      BY <2>3, FireFacts DEF Owed, CallsFree
    <3>2. \/ \E as \in {"ran", "skipped"} : Persist(t, now, {now}, as)
          \/ gate' = [gate EXCEPT ![t] = now]
      BY <2>2, <2>3, FireFacts
    <3>3. (\E i \in DOMAIN writes' : writes'[i].task = t /\ now \in writes'[i].ticks) \/ gate'[t] = now
      <4>1. (\E as \in {"ran", "skipped"} : Persist(t, now, {now}, as)) =>
               \E i \in DOMAIN writes' : writes'[i].task = t /\ now \in writes'[i].ticks
        BY <1>7, <2>1
      <4>2. gate' = [gate EXCEPT ![t] = now] => gate'[t] = now
        BY DEF Shape, GateType
      <4> QED
        BY <3>2, <4>1, <4>2
    <3> QED
      BY <1>1, <1>5, <1>6, <1>8, <2>1, <2>3, <3>1, <3>3 DEF OnItsWay, Sending
  <2>4. CASE Fire(t) /\ u # t
    <3>1. gate'[u] = gate[u] /\ (u \in calls => u \in calls')
      BY <2>4, FireFacts DEF Shape, GateType
    <3> QED
      BY <1>1, <1>5, <1>6, <1>8, <3>1 DEF OnItsWay
  <2>5. CASE Release(t)
    <3>1. calls' = calls /\ (u # t => gate'[u] = gate[u])
      BY <2>5 DEF Release, Shape, GateType
    <3>2. u = t /\ gate[t] = k => \E i \in DOMAIN writes' : writes'[i].task = t /\ k \in writes'[i].ticks
      <4>1. u = t => Persist(t, gate[t], {gate[t]}, "ran")
        BY <2>2, <2>5 DEF Release, ReleaseChecked
      <4>2. gate[t] <= now
        BY DEF Shape, GateType
      <4> QED
        BY <1>7, <4>1, <4>2
    <3> QED
      BY <1>1, <1>5, <1>6, <1>8, <3>1, <3>2 DEF OnItsWay, Sending
  <2> QED
    BY <2>3, <2>4, <2>5
<1>9. OpenOwned'
  BY <1>1, <1>3 DEF Owed, OpenOwned, Open, Schedulable
<1>10. OpenCovered'
  <2>1. ASSUME NEW u \in Tasks, NEW k \in Time, outcome'[u][k] = "due" PROVE row'[u].paused \/ OnItsWay(u, k)'
    BY <1>1, <1>3, <1>8, <2>1 DEF Owed, OpenCovered
  <2> QED
    BY <1>1, <2>1 DEF OpenCovered, Open
<1>11. AnchorsOpen'
  BY <1>1 DEF Owed, AnchorsOpen, Booting
<1>12. ReportsWhole'
  <2>1. ASSUME NEW i \in DOMAIN writes', writes'[i].as = "missed"
        PROVE  /\ phase = "up" \/ (phase = "catchup" /\ writes'[i].task \notin todo)
               /\ \A k \in Time : k <= asOf /\ outcome'[writes'[i].task][k] = "due" => k \in writes'[i].ticks
    <3>1. i \in DOMAIN writes /\ writes'[i] = writes[i]
      BY <1>4, <2>1
    <3>2. writes[i].task \in Tasks
      BY <3>1, WritesFacts DEF Shape
    <3> QED
      BY <1>3, <2>1, <3>1, <3>2 DEF Owed, ReportsWhole
  <2> QED
    BY <1>1, <2>1 DEF ReportsWhole, Open
<1>13. CallsFree'
  <2>1. ASSUME NEW u \in calls' PROVE gate'[u] = Never
    <3>1. u \in calls /\ gate[u] = Never /\ u \in Tasks
      BY <1>1, <2>1 DEF Owed, CallsFree, Shape, SchedType
    <3>2. CASE Fire(t)
      <4>1. u # t
        BY <2>1, <3>2, FireFacts
      <4> QED
        BY <3>1, <3>2, <4>1, FireFacts DEF Shape, GateType
    <3>3. CASE Release(t)
      BY <3>1, <3>3 DEF Release, Shape, GateType
    <3> QED
      BY <3>2, <3>3
  <2> QED
    BY <2>1 DEF CallsFree
<1> QED
  BY <1>9, <1>10, <1>11, <1>12, <1>13 DEF Owed

LEMMA OwedGone ==
    ASSUME OutrunEnds = FALSE, Shape, Phases, Owed, Stop \/ Crash PROVE Owed'
<1>1. /\ UNCHANGED <<now, live, row, outcome>> /\ writes' = <<>> /\ calls' = {}
      /\ phase # "down" /\ phase' = "down" /\ \A t \in Tasks : ~Outrun(t)
  BY DEF Stop, Crash, Gone
<1>2. ASSUME NEW t \in Tasks, NEW k \in Time, Open(t, k), ~row[t].paused PROVE k > row[t].since
  <2>1. k \in Int /\ row[t].since \in Int /\ k # Never
    BY ConstantFacts DEF Shape, RowType, Rows, ClockType
  <2>2. OnItsWay(t, k)
    BY <1>1, <1>2 DEF Owed, OpenCovered
  <2>3. ~(k <= row[t].since)
    BY <1>1, <2>1, <2>2, UnderwayFacts DEF OnItsWay, Outrun
  <2> QED
    BY <2>1, <2>3
<1>3. OpenOwned' /\ OpenCovered'
  BY <1>1, <1>2 DEF Owed, OpenOwned, OpenCovered, Open, Schedulable
<1>4. AnchorsOpen' /\ ReportsWhole' /\ CallsFree'
  BY <1>1 DEF AnchorsOpen, ReportsWhole, CallsFree, Booting
<1> QED
  BY <1>3, <1>4 DEF Owed

LEMMA OwedStep ==
    ASSUME OutrunEnds = FALSE, Shape, Phases, Agree, Once, Owed, [Next]_vars PROVE Owed'
<1>1. CASE \/ UNCHANGED vars \/ CronFlips \/ Reload \/ SwapTasks \/ Probe
           \/ (\E t \in Tasks : Edit(t)) \/ (\E answer \in BOOLEAN : RefreshCronHolds(answer))
  <2>1. UNCHANGED <<now, outcome, live, row, phase, writes, anchor, todo, asOf, gate, calls>>
    BY <1>1 DEF vars, CronFlips, Reload, SwapTasks, Probe, Edit, RefreshCronHolds, bootVars
  <2> QED
    BY <2>1, OwedSame
<1> QED
  BY <1>1, OwedTick, OwedWriteRow, OwedLoad, OwedStartScheduler, OwedSilent, OwedFinishBoot, OwedCatchUpTask,
     OwedFired, OwedGone, OwedOperator, OwedRemove, OwedUpdate, OwedPrunePauses DEF Next, BootStep, ReloadStep

LEMMA OwedHolds ==
    ASSUME OutrunEnds = FALSE PROVE Spec => [](Inv /\ Owed)
<1>1. Init => Inv /\ Owed
  BY ShapeInit, AgreeInit, OnceInit, OwedInit DEF Inv
<1>2. Inv /\ Owed /\ [Next]_vars => Inv' /\ Owed'
  BY ShapeStep, AgreeStep, OnceStep, OwedStep DEF Inv
<1> QED
  BY <1>1, <1>2, PTL DEF Spec

\* Unless the daemon ends while a tick is outrun, a tick nothing is recorded of
\* is on its way to a record, or the next boot's catch-up looks back far enough.
THEOREM NoneForgotten ==
    ASSUME OutrunEnds = FALSE PROVE Spec => []NoTickForgotten
<1>1. ASSUME Inv, Owed PROVE NoTickForgotten
  <2>1. ASSUME NEW t \in Tasks, NEW k \in Time, Open(t, k) PROVE Covered(t, k) \/ Underway(t, k)
    <3>1. row[t] # NoRow
      BY <1>1, <2>1 DEF Inv, Agree, RowThere, Owed, OpenOwned
    <3>2. row[t].paused \/ k > row[t].since \/ OnItsWay(t, k)
      BY <1>1, <2>1 DEF Owed, OpenCovered
    <3> QED
      BY <3>1, <3>2, UnderwayFacts DEF Covered
  <2> QED
    BY <2>1 DEF NoTickForgotten
<1> QED
  BY <1>1, OwedHolds, PTL

\* When nothing is under way, every tick of a schedule that is not paused was
\* recorded or given up: the last boot's catch-up (catchupOneTask) has reported
\* whatever the processes before it left open.
THEOREM QuietAnswered ==
    ASSUME OutrunEnds = FALSE PROVE Spec => []QuietMeansAnswered
<1>1. ASSUME Inv, Owed PROVE QuietMeansAnswered
  <2>1. ASSUME phase = "up", writes = <<>>, calls = {}, NEW t \in Tasks, NEW k \in Time, Open(t, k), gate[t] # k
        PROVE  row[t].paused
    <3>1. ~OnItsWay(t, k)
      BY <2>1 DEF OnItsWay, Sending, Reporting
    <3> QED
      BY <1>1, <2>1, <3>1 DEF Owed, OpenCovered
  <2> QED
    BY <2>1 DEF QuietMeansAnswered
<1> QED
  BY <1>1, OwedHolds, PTL

-----------------------------------------------------------------------------
(***************************************************************************)
(* The schedule implements TickLedger: the clock is Pass, a row of a run   *)
(* is Record, a row of missed ticks is Report, whatever gives up what is   *)
(* due is Waive, and the rest is invisible.                                *)
(***************************************************************************)
Histories == [Tasks -> [Time -> Kinds \cup {"wrong"}]]

LEMMA SameHistory ==
    ASSUME NEW f \in Histories, NEW g \in Histories, \A t \in Tasks, k \in Time : f[t][k] = g[t][k]
    PROVE  f = g
<1>1. ASSUME NEW t \in Tasks PROVE f[t] = g[t]
  BY DEF Histories
<1> QED
  BY <1>1 DEF Histories

LEMMA TickPasses ==
    ASSUME Shape, Phases, Agree, Tick PROVE Ledger!Pass
<1> DEFINE new == [t \in Tasks |-> Arisen(t, now + 1)]
<1>1. new \in [Tasks -> {"none", "due", "waived"}]
  BY TickFacts
<1>2. outcome' = [t \in Tasks |-> [outcome[t] EXCEPT ![now + 1] = new[t]]]
  BY DEF Tick
<1>3. now < MaxTime /\ now' = now + 1
  BY DEF Tick
<1> HIDE DEF new
<1> QED
  BY <1>1, <1>2, <1>3 DEF Ledger!Pass

LEMMA RowRecords ==
    ASSUME Shape, Phases, Once, Owed, OutcomeType', WriteRow
    PROVE  \/ UNCHANGED <<now, outcome>>
           \/ \E t \in Tasks : Ledger!Report(t) \/ \E k \in Time : Ledger!Record(t, k)
<1> DEFINE w == Head(writes)
<1>1. w \in RunRows /\ 1 \in DOMAIN writes /\ w = writes[1]
  BY WriteRowFacts
<1>2. /\ \A t \in Tasks \ {w.task} : outcome'[t] = outcome[t]
      /\ \A k \in Time : k \notin w.ticks => outcome'[w.task][k] = outcome[w.task][k]
      /\ w.as # "missed" => \A k \in w.ticks : Recordable(w.task, k) /\ outcome'[w.task][k] = w.as
      /\ w.as = "missed" => \A k \in w.ticks :
           /\ k <= asOf
           /\ outcome'[w.task][k] = IF outcome[w.task][k] = "due" THEN "missed" ELSE outcome[w.task][k]
  BY WriteRowFacts
<1>3. now' = now /\ outcome \in Histories /\ outcome' \in Histories /\ Ledger!Time = Time
  BY DEF WriteRow, Shape, OutcomeType, Histories, Time, Ledger!Time
<1>4. asOf \in 0 .. now
  BY ConstantFacts DEF Shape, ClockType
<1>5. w.as # "missed" => \A k \in w.ticks : w.ticks = {k} /\ k <= now
  BY <1>1 DEF Once, RunsOnce
<1>6. w.as = "missed" => \A k \in Time : k <= asOf /\ outcome[w.task][k] = "due" => k \in w.ticks
  BY <1>1 DEF Owed, ReportsWhole, Open
<1> HIDE DEF w
<1>7. w.task \in Tasks /\ w.ticks \subseteq Time /\ w.as \in {"ran", "skipped", "missed"}
  BY <1>1 DEF RunRows
<1>8. CASE w.as = "missed"
  <2> DEFINE new == [outcome EXCEPT ![w.task] = [k \in Time |->
                       IF k <= asOf /\ outcome[w.task][k] = "due" THEN "missed" ELSE outcome[w.task][k]]]
  <2>1. new \in Histories
    BY <1>3, <1>7 DEF Histories, Kinds
  <2>2. \A k \in Time : new[w.task][k] =
            IF k <= asOf /\ outcome[w.task][k] = "due" THEN "missed" ELSE outcome[w.task][k]
    BY <1>3, <1>7 DEF Histories
  <2>3. \A t \in Tasks \ {w.task} : new[t] = outcome[t]
    BY <1>3 DEF Histories
  <2>4. new = [outcome EXCEPT ![w.task] = [k \in Ledger!Time |->
                 IF k <= asOf /\ @[k] = "due" THEN "missed" ELSE @[k]]]
    BY <1>3, <1>7 DEF Histories
  <2> HIDE DEF new
  <2>5. ASSUME NEW k \in Time PROVE outcome'[w.task][k] = new[w.task][k]
    <3>1. CASE k \in w.ticks
      BY <1>2, <1>8, <2>2, <3>1
    <3>2. CASE k \notin w.ticks
      BY <1>2, <1>6, <1>8, <2>2, <3>2
    <3> QED
      BY <3>1, <3>2
  <2>6. \A t \in Tasks, k \in Time : outcome'[t][k] = new[t][k]
    BY <1>2, <2>3, <2>5
  <2>7. outcome' = new
    BY <1>3, <2>1, <2>6, SameHistory
  <2>8. Ledger!Report(w.task)
    BY <1>3, <1>4, <2>4, <2>7 DEF Ledger!Report
  <2> QED
    BY <1>7, <2>8
<1>9. CASE w.as # "missed" /\ w.ticks = {}
  <2>1. \A t \in Tasks, k \in Time : outcome'[t][k] = outcome[t][k]
    BY <1>2, <1>9
  <2>2. outcome' = outcome
    BY <1>3, <2>1, SameHistory
  <2> QED
    BY <1>3, <2>2
<1>10. CASE w.as # "missed" /\ w.ticks # {}
  <2>1. PICK k \in w.ticks : TRUE
    BY <1>10
  <2>2. k \in Time /\ w.ticks = {k} /\ k <= now /\ Recordable(w.task, k)
    BY <1>2, <1>5, <1>7, <1>10, <2>1
  <2> DEFINE new == [outcome EXCEPT ![w.task][k] = w.as]
  <2>3. new \in Histories
    BY <1>3, <1>7, <2>2 DEF Histories, Kinds
  <2>4. new[w.task][k] = w.as /\ \A j \in Time \ {k} : new[w.task][j] = outcome[w.task][j]
    BY <1>3, <1>7, <2>2 DEF Histories
  <2>5. \A t \in Tasks \ {w.task} : new[t] = outcome[t]
    BY <1>3 DEF Histories
  <2>6. w.as \in {"ran", "skipped"} /\ new = [outcome EXCEPT ![w.task][k] = w.as]
    BY <1>7, <1>10
  <2> HIDE DEF new
  <2>7. \A t \in Tasks, j \in Time : outcome'[t][j] = new[t][j]
    BY <1>2, <1>10, <2>2, <2>4, <2>5
  <2>8. outcome' = new
    BY <1>3, <2>3, <2>7, SameHistory
  <2>9. Ledger!Record(w.task, k)
    BY <1>3, <2>2, <2>6, <2>8 DEF Ledger!Record, Recordable
  <2> QED
    BY <1>7, <2>2, <2>9
<1> QED
  BY <1>8, <1>9, <1>10

LEMMA GivingUpWaives ==
    ASSUME OutcomeType, OutcomeType', GivenUp, UNCHANGED now PROVE Ledger!Waive
<1> DEFINE W == {p \in Ledger!Open : outcome'[p[1]][p[2]] = "waived"}
           new == [t \in Tasks |-> [k \in Time |-> IF <<t, k>> \in W THEN "waived" ELSE outcome[t][k]]]
<1>1. outcome \in Histories /\ outcome' \in Histories /\ Ledger!Time = Time /\ W \in SUBSET Ledger!Open
  BY DEF OutcomeType, Histories, Time, Ledger!Time
<1>2. \A t \in Tasks, k \in Time :
        <<t, k>> \in W <=> outcome[t][k] = "due" /\ outcome'[t][k] = "waived"
  BY <1>1 DEF Ledger!Open
<1>3. new = [t \in Tasks |-> [k \in Ledger!Time |-> IF <<t, k>> \in W THEN "waived" ELSE outcome[t][k]]]
  BY <1>1
<1> HIDE DEF W
<1>4. new \in Histories
  BY <1>1 DEF Histories, Kinds
<1>5. \A t \in Tasks, k \in Time : outcome'[t][k] = new[t][k]
  BY <1>2 DEF GivenUp
<1>6. outcome' = new
  BY <1>1, <1>4, <1>5, SameHistory
<1> QED
  BY <1>1, <1>3, <1>6 DEF Ledger!Waive

LEMMA StepSettles ==
    ASSUME Inv, Owed, [Next]_vars PROVE [Ledger!Next]_(Ledger!vars)
<1>1. Shape /\ Phases /\ Agree /\ Once /\ OutcomeType /\ OutcomeType'
  BY ShapeStep DEF Inv, Shape
<1>2. CASE Tick
  BY <1>1, <1>2, TickPasses DEF Ledger!Next
<1>3. CASE WriteRow
  <2>1. \/ UNCHANGED <<now, outcome>>
        \/ \E t \in Tasks : Ledger!Report(t) \/ \E k \in Time : Ledger!Record(t, k)
    BY <1>1, <1>3, RowRecords
  <2>2. Ledger!Time = Time
    BY DEF Time, Ledger!Time
  <2> QED
    BY <2>1, <2>2 DEF Ledger!Next, Ledger!vars
<1>4. CASE ~Tick /\ ~WriteRow
  BY <1>1, <1>4, StepGivesUp, GivingUpWaives DEF Ledger!Next
<1> QED
  BY <1>2, <1>3, <1>4

\* Unless the daemon ends while a tick is outrun, the schedule keeps
\* TickLedger's promise: whatever the order of ticks, reloads, pauses, restarts
\* and catch-ups, a tick is recorded at most once and only if it was RunWisp's,
\* and a report of missed ticks leaves no older tick of its task open.
THEOREM ImplementsLedger ==
    ASSUME OutrunEnds = FALSE PROVE Spec => TicksSettledOnce
<1>1. Init => Ledger!Init
  BY DEF Init, Ledger!Init, Time, Ledger!Time
<1>2. Inv /\ Owed /\ [Next]_vars => [Ledger!Next]_(Ledger!vars)
  BY StepSettles
<1> QED
  BY <1>1, <1>2, OwedHolds, PTL DEF Spec, Ledger!Spec, TicksSettledOnce
=============================================================================
