---------------------- MODULE ServiceSupervisor_proofs ----------------------
(***************************************************************************)
(* The safety invariants of ServiceSupervisor hold for every number of     *)
(* slots, definitions, start retries, instances and callers.               *)
(***************************************************************************)
EXTENDS ServiceSupervisor, TLAPS

LEMMA ConstantFacts ==
    /\ MaxInstances \in Nat \ {0} /\ StartRetries \in Nat /\ MaxRuns \in Nat
    /\ 0 \in Slots
    /\ \A s \in Slots : s \in Nat
    /\ Defs \subseteq DefType
    /\ \A n \in Overrides : n \in 1 .. MaxInstances
    /\ \A n \in 0 .. MaxRuns : n < MaxRuns => n + 1 \in RunIds /\ n + 1 \in 0 .. MaxRuns
  BY ServiceSupervisorAssumption DEF Slots, RunIds

-----------------------------------------------------------------------------
(* Types *)

LEMMA TypeInit == Init => TypeOK
<1>. SUFFICES ASSUME Init PROVE TypeOK
  OBVIOUS
<1>1. def \in DefType /\ created \in 0 .. MaxRuns /\ slot \in [RunIds -> Slots]
  BY ConstantFacts DEF Init
<1>2. /\ startFails \in [Slots -> Nat]
      /\ stage \in [RunIds -> {"new", "waiting", "checked", "done"} \cup ActiveStages]
      /\ policy \in [RunIds -> Restarts]
  BY DEF Init, Restarts
<1>3. caller \in [Callers -> {"idle", "reloaded", "asked", "filling"}] /\ todo \in [Callers -> SUBSET Slots]
  BY DEF Init
<1>. QED BY <1>1, <1>2, <1>3 DEF Init, TypeOK

StageType == {"new", "waiting", "checked", "done"} \cup ActiveStages

\* A spawned instance: st and sl are what the caller makes of the maps.
LEMMA SpawnType ==
    ASSUME TypeOK, NEW s \in Slots, NEW st \in [RunIds -> StageType],
           NEW sl \in [RunIds -> Slots], Spawn(s, st, sl)
    PROVE  /\ created' \in 0 .. MaxRuns
           /\ live' \subseteq Slots /\ exited' \subseteq Slots
           /\ stage' \in [RunIds -> StageType]
           /\ slot' \in [RunIds -> Slots]
           /\ policy' \in [RunIds -> Restarts]
  BY ConstantFacts DEF Spawn, Occupy, TypeOK, StageType, ActiveStages, DefType

LEMMA ClearFatalType ==
    ASSUME TypeOK, ClearFatal
    PROVE  fatal' \subseteq Slots /\ startFails' \in [Slots -> Nat]
  BY DEF ClearFatal, TypeOK

LEMMA NewSupervisorType ==
    ASSUME NEW stop \in BOOLEAN, NewSupervisor(stop)
    PROVE  /\ stopped' \in BOOLEAN /\ bookkeepingStop' \in BOOLEAN
           /\ live' \subseteq Slots /\ up' \subseteq Slots /\ fatal' \subseteq Slots
           /\ exited' \subseteq Slots /\ startFails' \in [Slots -> Nat]
  BY DEF NewSupervisor

LEMMA RecordExitType ==
    ASSUME TypeOK, NEW r \in RunIds, NEW healthy \in BOOLEAN, RecordExit(r, healthy)
    PROVE  /\ stopped' \in BOOLEAN /\ bookkeepingStop' \in BOOLEAN
           /\ live' \subseteq Slots /\ up' \subseteq Slots /\ fatal' \subseteq Slots
           /\ exited' \subseteq Slots /\ startFails' \in [Slots -> Nat]
<1>1. slot[r] \in Slots
  BY DEF TypeOK
<1>2. fatal' \subseteq Slots
  BY <1>1 DEF RecordExit, TypeOK
<1>. QED BY <1>1, <1>2 DEF RecordExit, TypeOK

LEMMA TypeStep == TypeOK /\ [Next]_vars => TypeOK'
<1>. SUFFICES ASSUME TypeOK, [Next]_vars PROVE TypeOK'
  OBVIOUS
<1>. USE DEF supervisor, runVars, callers
<1>1. ASSUME NEW r \in RunIds, Instance(r) PROVE TypeOK'
  <2>0. slot[r] \in Slots
    BY DEF TypeOK
  <2>1. CASE Execute(r)   BY <2>0, <2>1 DEF Execute, TypeOK, ActiveStages
  <2>2. CASE Exit(r)   BY <2>2 DEF Exit, TypeOK, ActiveStages, Answers
  <2>3. CASE Retire(r)
    <3>1. PICK healthy \in BOOLEAN :
            /\ IF place = "draining" /\ Active = {r}
               THEN place' = "absent" /\ NewSupervisor(FALSE)
               ELSE RecordExit(r, healthy) /\ UNCHANGED place
            /\ IF ShouldRestart(r) /\ ~GivenUp(r, healthy)
               THEN stage' = [stage EXCEPT ![r] = "waiting"] /\ UNCHANGED slot
               ELSE stage' = [stage EXCEPT ![r] = "done"] /\ Over(r)
      BY <2>3 DEF Retire
    <3>2. /\ place' \in {"absent", "live", "draining"}
          /\ stopped' \in BOOLEAN /\ bookkeepingStop' \in BOOLEAN
          /\ live' \subseteq Slots /\ up' \subseteq Slots /\ fatal' \subseteq Slots
          /\ exited' \subseteq Slots /\ startFails' \in [Slots -> Nat]
      <4>1. CASE NewSupervisor(FALSE) /\ place' = "absent"
        BY <4>1, NewSupervisorType
      <4>2. CASE RecordExit(r, healthy) /\ place' = place
        BY <4>2, RecordExitType DEF TypeOK
      <4>. QED BY <3>1, <4>1, <4>2
    <3>3. stage' \in [RunIds -> StageType] /\ slot' \in [RunIds -> Slots]
      BY <3>1, ConstantFacts DEF TypeOK, StageType, Over
    <3>. QED BY <2>3, <3>2, <3>3 DEF Retire, TypeOK, StageType, Restarts
  <2>4. CASE RestartCheck(r)   BY <2>4, ConstantFacts DEF RestartCheck, Over, TypeOK
  <2>5. CASE RestartFire(r)
    <3>1. CASE Spawn(slot[r], [stage EXCEPT ![r] = "done"], [slot EXCEPT ![r] = 0])
      <4>1. [stage EXCEPT ![r] = "done"] \in [RunIds -> StageType]
            /\ [slot EXCEPT ![r] = 0] \in [RunIds -> Slots]
        BY ConstantFacts DEF TypeOK, StageType
      <4>. QED BY <2>0, <2>5, <3>1, <4>1, SpawnType DEF RestartFire, Spawn, TypeOK, StageType
    <3>2. CASE ~Spawn(slot[r], [stage EXCEPT ![r] = "done"], [slot EXCEPT ![r] = 0])
      BY <2>5, <3>2, ConstantFacts DEF RestartFire, Over, TypeOK
    <3>. QED BY <3>1, <3>2
  <2>. QED BY <1>1, <2>1, <2>2, <2>3, <2>4, <2>5 DEF Instance
<1>2. ASSUME NEW k \in Callers, Call(k) PROVE TypeOK'
  <2>1. CASE Compute(k)   BY <2>1 DEF Compute, Goes, MissingSlots, TypeOK
  <2>2. CASE Fill(k)
    <3>1. PICK s \in Slots :
            /\ Leftover(k, s)
            /\ IF Triggerable(s)
               THEN Spawn(s, stage, slot)
               ELSE UNCHANGED <<place, def, supervisor, runVars, isShutdown>>
      BY <2>2 DEF Fill
    <3>2. todo' \in [Callers -> SUBSET Slots]
          /\ caller' \in [Callers -> {"idle", "reloaded", "asked", "filling"}]
      BY <3>1 DEF Leftover, Goes, TypeOK
    <3>3. CASE Spawn(s, stage, slot)
      BY <3>2, <3>3, SpawnType DEF Spawn, TypeOK, StageType
    <3>4. CASE UNCHANGED <<place, def, supervisor, runVars, isShutdown>>
      BY <3>2, <3>4 DEF TypeOK
    <3>. QED BY <3>1, <3>3, <3>4
  <2>3. CASE RecycleServiceInstances(k)
    BY <2>3 DEF RecycleServiceInstances, Goes, Active, TypeOK
  <2>. QED BY <1>2, <2>1, <2>2, <2>3 DEF Call
<1>3. ASSUME NEW k \in Callers, StartService(k) PROVE TypeOK'
  BY <1>3, ClearFatalType DEF StartService, MarkRunning, Goes, TypeOK
<1>4. ASSUME NEW k \in Callers, RestartServiceInstances(k) PROVE TypeOK'
  BY <1>4, ClearFatalType DEF RestartServiceInstances, MarkRunning, Goes, Active, TypeOK
<1>5. ASSUME NEW k \in Callers, NEW d \in Defs, Upsert(k, d) PROVE TypeOK'
  <2>0. d \in DefType /\ (~d.autostart) \in BOOLEAN
    BY ConstantFacts
  <2>1. caller' \in [Callers -> {"idle", "reloaded", "asked", "filling"}]
    BY <1>5 DEF Upsert, Goes, TypeOK
  <2>2. CASE NewSupervisor(~d.autostart)
    BY <1>5, <2>0, <2>1, <2>2, NewSupervisorType DEF Upsert, TypeOK
  <2>3. CASE MarkRunning /\ bookkeepingStop' = FALSE /\ UNCHANGED <<live, up, exited>>
    BY <1>5, <2>0, <2>1, <2>3, ClearFatalType DEF Upsert, MarkRunning, TypeOK
  <2>4. CASE bookkeepingStop' = FALSE /\ UNCHANGED <<stopped, live, up, startFails, fatal, exited>>
    BY <1>5, <2>0, <2>1, <2>4 DEF Upsert, TypeOK
  <2>. QED BY <1>5, <2>2, <2>3, <2>4 DEF Upsert
<1>6. ASSUME NEW n \in Overrides, HandleServiceApply(n) PROVE TypeOK'
  BY <1>6, ConstantFacts DEF HandleServiceApply, TypeOK, DefType
<1>7. ASSUME NEW r \in RunIds, TerminateRun(r) PROVE TypeOK'
  BY <1>7 DEF TerminateRun, TypeOK
<1>8. CASE StopService   BY <1>8 DEF StopService, Active, TypeOK
<1>9. CASE RemoveTask   BY <1>9, NewSupervisorType DEF RemoveTask, Active, TypeOK
<1>10. CASE BeginShutdown \/ CancelPass
  BY <1>10 DEF BeginShutdown, CancelPass, Active, TypeOK
<1>11. CASE UNCHANGED vars   BY <1>11 DEF vars, TypeOK
<1>. QED BY <1>1, <1>2, <1>3, <1>4, <1>5, <1>6, <1>7, <1>8, <1>9, <1>10, <1>11 DEF Next, Operator

\* Every variable keeps its type, for any service and any number of instances.
THEOREM TypeCorrect == Spec => []TypeOK
  BY TypeInit, TypeStep, PTL DEF Spec

-----------------------------------------------------------------------------
(* One run per slot *)

\* The slots L are exactly those of the runs A, one run each; sl is the slot map.
Paired(L, A, sl) ==
    /\ L = {sl[r] : r \in A}
    /\ \A q, r \in A : sl[q] = sl[r] => q = r

LEMMA PairedSame ==
    ASSUME NEW L, NEW A, NEW sl, NEW sm, Paired(L, A, sl), \A r \in A : sm[r] = sl[r]
    PROVE  Paired(L, A, sm)
  BY DEF Paired

\* A run that takes a slot nobody has.
LEMMA PairedAdd ==
    ASSUME NEW L, NEW A, NEW sl, NEW sm, NEW n, NEW s, Paired(L, A, sl),
           n \notin A, s \notin L, sm[n] = s, \A r \in A : sm[r] = sl[r]
    PROVE  Paired(L \cup {s}, A \cup {n}, sm)
<1>1. \A r \in A : sm[r] \in L
  BY DEF Paired
<1>2. L \cup {s} = {sm[r] : r \in A \cup {n}}
  BY DEF Paired
<1>3. \A q, r \in A \cup {n} : sm[q] = sm[r] => q = r
  BY <1>1 DEF Paired
<1>. QED BY <1>2, <1>3 DEF Paired

\* A run that leaves, and its slot with it.
LEMMA PairedRemove ==
    ASSUME NEW L, NEW A, NEW sl, NEW sm, NEW n \in A, Paired(L, A, sl),
           \A r \in A \ {n} : sm[r] = sl[r]
    PROVE  Paired(L \ {sl[n]}, A \ {n}, sm)
<1>1. L \ {sl[n]} = {sm[r] : r \in A \ {n}}
  BY DEF Paired
<1>2. \A q, r \in A \ {n} : sm[q] = sm[r] => q = r
  BY DEF Paired
<1>. QED BY <1>1, <1>2 DEF Paired

\* Runs are created in the order of their numbers, and a taskState that is gone
\* has no run: what makes OneRunPerSlot inductive.
Numbered == \A r \in RunIds : r > created => stage[r] = "new"
Gone == place = "absent" => Active = {}
Occupancy == Numbered /\ Gone /\ OneRunPerSlot

LEMMA OccupancyInit == Init => Occupancy
  BY DEF Init, Occupancy, Numbered, Gone, OneRunPerSlot, Active, ActiveStages, Answers

\* A spawned instance; the runs st and sl differ in are not active.
LEMMA SpawnOccupancy ==
    ASSUME TypeOK, Occupancy, NEW s \in Slots, NEW st \in [RunIds -> StageType],
           NEW sl \in [RunIds -> Slots],
           \A r \in RunIds : st[r] \in ActiveStages <=> stage[r] \in ActiveStages,
           \A r \in RunIds : stage[r] = "new" => st[r] = "new",
           \A r \in Active : sl[r] = slot[r],
           Triggerable(s), Spawn(s, st, sl)
    PROVE  Occupancy'
<1> DEFINE n == created + 1
<1>1. n \in RunIds /\ created' = n /\ n > created /\ created \in Int
  BY ConstantFacts DEF Spawn, TypeOK
<1>2. stage' = [st EXCEPT ![n] = "started"] /\ slot' = [sl EXCEPT ![n] = s]
  BY DEF Spawn
<1>3. n \notin Active /\ s \notin live /\ live' = live \cup {s} /\ up' = up
  BY <1>1 DEF Occupancy, Numbered, Active, ActiveStages, Answers, Triggerable, Reservable, Spawn, Occupy
<1>. HIDE DEF n
<1>4. Active' = Active \cup {n}
  BY <1>1, <1>2 DEF Active, ActiveStages, StageType
<1>5. Paired(live, Active, slot)
  BY DEF Occupancy, OneRunPerSlot, Paired
<1>6. slot'[n] = s /\ \A r \in Active : slot'[r] = slot[r]
  BY <1>1, <1>2, <1>3 DEF Active
<1>7. Paired(live', Active', slot')
  BY <1>3, <1>4, <1>5, <1>6, PairedAdd
<1>8. Numbered'
  BY <1>1, <1>2 DEF Occupancy, Numbered, RunIds
<1>9. Gone'
  BY DEF Gone, Spawn, Triggerable
<1>. QED BY <1>3, <1>7, <1>8, <1>9 DEF Occupancy, OneRunPerSlot, Paired

\* A step that neither creates, ends nor moves a run, nor frees a slot.
LEMMA StillOccupancy ==
    ASSUME TypeOK, Occupancy, Active' = Active, \A r \in Active : slot'[r] = slot[r],
           created' = created, \A r \in RunIds : stage[r] = "new" => stage'[r] = "new",
           live' = live, up' \subseteq live,
           place' = "absent" => Active = {}
    PROVE  Occupancy'
<1>1. Paired(live, Active, slot)
  BY DEF Occupancy, OneRunPerSlot, Paired
<1>2. Paired(live', Active', slot')
  BY <1>1, PairedSame
<1>. QED BY <1>2 DEF Occupancy, Numbered, Gone, OneRunPerSlot, Paired

LEMMA OccupancyStep == TypeOK /\ Occupancy /\ [Next]_vars => Occupancy'
<1>. SUFFICES ASSUME TypeOK, Occupancy, [Next]_vars PROVE Occupancy'
  OBVIOUS
<1>. USE DEF supervisor, runVars, callers
<1>u. up \subseteq live /\ (place = "absent" => Active = {})
  BY DEF Occupancy, OneRunPerSlot, Gone
<1>s. ASSUME UNCHANGED <<stage, slot, created, live, up>>, place' = "absent" => Active = {}
      PROVE  Occupancy'
  BY <1>s, <1>u, StillOccupancy DEF Active
<1>n. ASSUME NEW stop, NewSupervisor(stop), UNCHANGED <<stage, slot, created>>, Active = {}
      PROVE  Occupancy'
  <2>1. live = {}
    BY <1>n DEF Occupancy, OneRunPerSlot
  <2>. QED BY <1>n, <1>u, <2>1, StillOccupancy DEF NewSupervisor, Active
<1>1. ASSUME NEW r \in RunIds, Instance(r) PROVE Occupancy'
  <2>1. CASE Execute(r)
    <3>1. Active' = Active /\ r \in Active
      BY <2>1 DEF Execute, Active, ActiveStages, TypeOK
    <3>2. slot[r] \in live
      BY <3>1 DEF Occupancy, OneRunPerSlot
    <3>3. \A q \in RunIds : stage[q] = "new" => stage'[q] = "new"
      BY <2>1 DEF Execute, TypeOK
    <3>. QED BY <1>u, <2>1, <3>1, <3>2, <3>3, StillOccupancy DEF Execute
  <2>2. CASE Exit(r)
    <3>1. Active' = Active
      BY <2>2 DEF Exit, Active, ActiveStages, Answers, TypeOK
    <3>2. \A q \in RunIds : stage[q] = "new" => stage'[q] = "new"
      BY <2>2 DEF Exit, TypeOK
    <3>. QED BY <1>u, <2>2, <3>1, <3>2, StillOccupancy DEF Exit
  <2>3. CASE Retire(r)
    <3>1. PICK healthy \in BOOLEAN :
            /\ IF place = "draining" /\ Active = {r}
               THEN place' = "absent" /\ NewSupervisor(FALSE)
               ELSE RecordExit(r, healthy) /\ UNCHANGED place
            /\ IF ShouldRestart(r) /\ ~GivenUp(r, healthy)
               THEN stage' = [stage EXCEPT ![r] = "waiting"] /\ UNCHANGED slot
               ELSE stage' = [stage EXCEPT ![r] = "done"] /\ Over(r)
      BY <2>3 DEF Retire
    <3>2. r \in Active /\ created' = created
      BY <2>3 DEF Retire, Active, ActiveStages
    <3>3. Active' = Active \ {r} /\ \A q \in Active \ {r} : slot'[q] = slot[q]
      BY <3>1 DEF Active, ActiveStages, Answers, Over, TypeOK
    <3>4. Paired(live, Active, slot)
      BY DEF Occupancy, OneRunPerSlot, Paired
    <3>5. Paired(live \ {slot[r]}, Active', slot')
      BY <3>2, <3>3, <3>4, PairedRemove
    <3>6. live' = live \ {slot[r]} /\ up' \subseteq live'
      <4>1. CASE place = "draining" /\ Active = {r}
        BY <3>1, <3>4, <4>1 DEF NewSupervisor, Paired
      <4>2. CASE ~(place = "draining" /\ Active = {r})
        BY <1>u, <3>1, <4>2 DEF RecordExit
      <4>. QED BY <4>1, <4>2
    <3>7. Numbered'
      BY <3>1, <3>2 DEF Occupancy, Numbered, Active, ActiveStages, Answers, TypeOK
    <3>8. Gone'
      BY <3>1, <3>2, <3>3, <1>u DEF Gone
    <3>. QED BY <3>5, <3>6, <3>7, <3>8 DEF Occupancy, OneRunPerSlot, Paired
  <2>4. CASE RestartCheck(r)
    <3>1. Active' = Active /\ \A q \in Active : slot'[q] = slot[q]
      BY <2>4 DEF RestartCheck, Over, Active, ActiveStages, Answers, TypeOK
    <3>2. \A q \in RunIds : stage[q] = "new" => stage'[q] = "new"
      BY <2>4 DEF RestartCheck, TypeOK
    <3>. QED BY <1>u, <2>4, <3>1, <3>2, StillOccupancy DEF RestartCheck
  <2>5. CASE RestartFire(r)
    <3> DEFINE st == [stage EXCEPT ![r] = "done"]
               sl == [slot EXCEPT ![r] = 0]
    <3>1. /\ st \in [RunIds -> StageType] /\ sl \in [RunIds -> Slots] /\ slot[r] \in Slots
          /\ \A q \in RunIds : st[q] \in ActiveStages <=> stage[q] \in ActiveStages
          /\ \A q \in RunIds : stage[q] = "new" => st[q] = "new"
          /\ \A q \in Active : sl[q] = slot[q]
      BY <2>5, ConstantFacts DEF RestartFire, StageType, Active, ActiveStages, Answers, TypeOK
    <3>2. CASE Triggerable(slot[r])
      <4>1. Spawn(slot[r], st, sl)
        BY <2>5, <3>2 DEF RestartFire
      <4>. HIDE DEF st, sl
      <4>. QED BY <3>1, <3>2, <4>1, SpawnOccupancy
    <3>3. CASE ~Triggerable(slot[r])
      <4>1. stage' = st /\ slot' = sl /\ UNCHANGED <<place, created, live, up>>
        BY <2>5, <3>3 DEF RestartFire, Over
      <4>. HIDE DEF st, sl
      <4>2. Active' = Active
        BY <3>1, <4>1 DEF Active
      <4>. QED BY <1>u, <3>1, <4>1, <4>2, StillOccupancy
    <3>. QED BY <3>2, <3>3
  <2>. QED BY <1>1, <2>1, <2>2, <2>3, <2>4, <2>5 DEF Instance
<1>2. ASSUME NEW k \in Callers, Call(k) PROVE Occupancy'
  <2>1. CASE Compute(k)   BY <1>s, <1>u, <2>1 DEF Compute
  <2>2. CASE Fill(k)
    <3>1. PICK s \in Slots :
            IF Triggerable(s)
            THEN Spawn(s, stage, slot)
            ELSE UNCHANGED <<place, def, supervisor, runVars, isShutdown>>
      BY <2>2 DEF Fill
    <3>2. CASE Triggerable(s)
      BY <3>1, <3>2, SpawnOccupancy DEF TypeOK, StageType
    <3>. QED BY <1>s, <1>u, <3>1, <3>2
  <2>3. CASE RecycleServiceInstances(k)   BY <1>s, <1>u, <2>3 DEF RecycleServiceInstances
  <2>. QED BY <1>2, <2>1, <2>2, <2>3 DEF Call
<1>3. ASSUME NEW k \in Callers, StartService(k) PROVE Occupancy'
  BY <1>3, <1>s, <1>u DEF StartService
<1>4. ASSUME NEW k \in Callers, RestartServiceInstances(k) PROVE Occupancy'
  BY <1>4, <1>s, <1>u DEF RestartServiceInstances
<1>5. ASSUME NEW k \in Callers, NEW d \in Defs, Upsert(k, d) PROVE Occupancy'
  <2>1. CASE place = "absent"
    BY <1>5, <1>n, <1>u, <2>1 DEF Upsert
  <2>2. CASE place # "absent"
    BY <1>5, <1>s, <1>u, <2>2 DEF Upsert
  <2>. QED BY <2>1, <2>2
<1>6. ASSUME NEW n \in Overrides, HandleServiceApply(n) PROVE Occupancy'
  BY <1>6, <1>s, <1>u DEF HandleServiceApply
<1>7. ASSUME NEW r \in RunIds, TerminateRun(r) PROVE Occupancy'
  BY <1>7, <1>s, <1>u DEF TerminateRun
<1>8. CASE StopService   BY <1>8, <1>s, <1>u DEF StopService
<1>9. CASE RemoveTask
  <2>1. CASE Active = {}   BY <1>9, <1>n, <2>1 DEF RemoveTask
  <2>2. CASE Active # {}   BY <1>9, <1>s, <2>2 DEF RemoveTask
  <2>. QED BY <2>1, <2>2
<1>10. CASE BeginShutdown \/ CancelPass
  BY <1>10, <1>s, <1>u DEF BeginShutdown, CancelPass
<1>11. CASE UNCHANGED vars   BY <1>11, <1>s, <1>u DEF vars
<1>. QED BY <1>1, <1>2, <1>3, <1>4, <1>5, <1>6, <1>7, <1>8, <1>9, <1>10, <1>11 DEF Next, Operator

\* A slot is never occupied by two runs, nor by none, whoever races for it.
THEOREM NoDoubleInstance == Spec => []OneRunPerSlot
<1>1. TypeOK /\ Occupancy /\ [Next]_vars => (TypeOK /\ Occupancy)'
  BY TypeStep, OccupancyStep
<1>2. Init => TypeOK /\ Occupancy
  BY TypeInit, OccupancyInit
<1>3. Occupancy => OneRunPerSlot
  BY DEF Occupancy
<1>. QED BY <1>1, <1>2, <1>3, PTL DEF Spec

-----------------------------------------------------------------------------
(* The flags of a slot *)

\* Flags: a slot that reads as exited is down, a FATAL one has spent its budget.
Flags == ExitedIsDown /\ FatalIffExhausted

LEMMA FlagsInit == Init => Flags
  BY ConstantFacts DEF Init, Flags, ExitedIsDown, FatalIffExhausted

\* MarkRunning gives a slot whose flag it clears a fresh budget.
LEMMA ClearFatalFlags ==
    ASSUME TypeOK, FatalIffExhausted, ClearFatal
    PROVE  FatalIffExhausted'
  BY ConstantFacts DEF ClearFatal, FatalIffExhausted, TypeOK

LEMMA RecordExitFlags ==
    ASSUME TypeOK, Flags, NEW r \in RunIds, NEW healthy \in BOOLEAN, RecordExit(r, healthy)
    PROVE  Flags'
<1>1. slot[r] \in Slots /\ startFails \in [Slots -> Nat] /\ StartRetries \in Nat
  BY ConstantFacts DEF TypeOK
<1>2. ExitedIsDown'
  BY DEF RecordExit, Flags, ExitedIsDown
<1>3. ASSUME NEW s \in Slots PROVE s \in fatal' <=> startFails'[s] > StartRetries
  <2>1. s \in fatal <=> startFails[s] > StartRetries
    BY DEF Flags, FatalIffExhausted
  <2>2. CASE s # slot[r]
    BY <1>1, <2>1, <2>2 DEF RecordExit
  <2>3. CASE s = slot[r]
    <3>1. CASE ~FailedStart(r, healthy)
      BY <1>1, <2>3, <3>1 DEF RecordExit, GivenUp
    <3>2. CASE FailedStart(r, healthy)
      <4>1. startFails'[s] = startFails[s] + 1 /\ startFails[s] \in Nat
        BY <1>1, <2>3, <3>2 DEF RecordExit
      <4>2. GivenUp(r, healthy) <=> startFails'[s] > StartRetries
        BY <2>3, <3>2, <4>1 DEF GivenUp
      <4>3. fatal' = IF GivenUp(r, healthy) THEN fatal \cup {s} ELSE fatal
        BY <2>3, <3>2 DEF RecordExit
      <4>. QED BY <1>1, <2>1, <4>1, <4>2, <4>3
    <3>. QED BY <3>1, <3>2
  <2>. QED BY <2>2, <2>3
<1>. QED BY <1>2, <1>3 DEF Flags, FatalIffExhausted

LEMMA FlagsStep == TypeOK /\ Flags /\ [Next]_vars => Flags'
<1>. SUFFICES ASSUME TypeOK, Flags, [Next]_vars PROVE Flags'
  OBVIOUS
<1>. USE DEF supervisor, runVars, callers
<1>s. ASSUME UNCHANGED <<live, exited, fatal, startFails>> PROVE Flags'
  BY <1>s DEF Flags, ExitedIsDown, FatalIffExhausted
<1>n. ASSUME NEW stop, NewSupervisor(stop) PROVE Flags'
  BY <1>n, ConstantFacts DEF NewSupervisor, Flags, ExitedIsDown, FatalIffExhausted
<1>p. ASSUME NEW s, NEW st, NEW sl, Spawn(s, st, sl) PROVE Flags'
  BY <1>p DEF Spawn, Occupy, Flags, ExitedIsDown, FatalIffExhausted
<1>c. ASSUME ClearFatal, UNCHANGED <<live, exited>> PROVE Flags'
  BY <1>c, ClearFatalFlags DEF Flags, ExitedIsDown
<1>1. ASSUME NEW r \in RunIds, Instance(r) PROVE Flags'
  <2>1. CASE Execute(r) \/ Exit(r) \/ RestartCheck(r)
    BY <1>s, <2>1 DEF Execute, Exit, RestartCheck
  <2>2. CASE Retire(r)
    <3>1. PICK healthy \in BOOLEAN : NewSupervisor(FALSE) \/ RecordExit(r, healthy)
      BY <2>2 DEF Retire
    <3>. QED BY <1>n, <3>1, RecordExitFlags
  <2>3. CASE RestartFire(r)   BY <1>s, <1>p, <2>3 DEF RestartFire
  <2>. QED BY <1>1, <2>1, <2>2, <2>3 DEF Instance
<1>2. ASSUME NEW k \in Callers, Call(k) PROVE Flags'
  <2>1. CASE Fill(k)   BY <1>s, <1>p, <2>1 DEF Fill
  <2>. QED BY <1>2, <1>s, <2>1 DEF Call, Compute, RecycleServiceInstances
<1>3. ASSUME NEW k \in Callers, StartService(k) \/ RestartServiceInstances(k) PROVE Flags'
  BY <1>3, <1>c DEF StartService, RestartServiceInstances, MarkRunning
<1>4. ASSUME NEW k \in Callers, NEW d \in Defs, Upsert(k, d) PROVE Flags'
  BY <1>4, <1>n, <1>c, <1>s DEF Upsert, MarkRunning
<1>5. ASSUME NEW n \in Overrides, HandleServiceApply(n) PROVE Flags'
  BY <1>5, <1>s DEF HandleServiceApply
<1>6. ASSUME NEW r \in RunIds, TerminateRun(r) PROVE Flags'
  BY <1>6, <1>s DEF TerminateRun
<1>7. CASE RemoveTask   BY <1>7, <1>n, <1>s DEF RemoveTask
<1>8. CASE StopService \/ BeginShutdown \/ CancelPass
  BY <1>8, <1>s DEF StopService, BeginShutdown, CancelPass
<1>9. CASE UNCHANGED vars   BY <1>9, <1>s DEF vars
<1>. QED BY <1>1, <1>2, <1>3, <1>4, <1>5, <1>6, <1>7, <1>8, <1>9 DEF Next, Operator

LEMMA FlagsAlways == Spec => []Flags
<1>1. TypeOK /\ Flags /\ [Next]_vars => (TypeOK /\ Flags)'
  BY TypeStep, FlagsStep
<1>. QED BY <1>1, TypeInit, FlagsInit, PTL DEF Spec

\* A slot that reads as exited has no instance.
THEOREM ExitedSlotsAreDown == Spec => []ExitedIsDown
  BY FlagsAlways, PTL DEF Flags

\* A slot is FATAL exactly when its budget of failed starts is spent.
THEOREM FatalExactlyWhenExhausted == Spec => []FatalIffExhausted
  BY FlagsAlways, PTL DEF Flags

-----------------------------------------------------------------------------
(* No slot is forgotten *)

Served(s) == Wanted(s) => s \in live \/ Coming(s)

\* What makes a slot wanted, and who comes for it, as far as a step leaves it be.
LEMMA StillServed ==
    ASSUME NEW s \in Slots, Served(s), Wanted(s)' => Wanted(s),
           s \in live => s \in live',
           \A r \in RunIds : stage[r] \in {"waiting", "checked"} /\ slot[r] = s
                             => stage'[r] \in {"waiting", "checked"} /\ slot'[r] = s,
           \A k \in Callers : caller[k] \in {"reloaded", "asked"} \/ s \in todo[k]
                              => caller'[k] \in {"reloaded", "asked"} \/ s \in todo'[k]
    PROVE  Served(s)'
  BY DEF Served, Coming

\* A caller in the middle of a reload or a start comes for every slot.
LEMMA CallerComes ==
    ASSUME NEW k \in Callers, caller'[k] \in {"reloaded", "asked"}
    PROVE  NoSlotForgotten'
  BY DEF NoSlotForgotten, Coming

\* A spawned instance; r is the run whose restart this is, or none.
LEMMA SpawnServed ==
    ASSUME TypeOK, Numbered, NEW s \in Slots, NEW st \in [RunIds -> StageType],
           NEW sl \in [RunIds -> Slots], Spawn(s, st, sl),
           NEW u \in Slots, Served(u),
           \A r \in RunIds : stage[r] \in {"waiting", "checked"} /\ slot[r] = u /\ u # s
                             => st[r] = stage[r] /\ sl[r] = u,
           \A k \in Callers : caller[k] \in {"reloaded", "asked"} \/ (u \in todo[k] /\ u # s)
                              => caller'[k] \in {"reloaded", "asked"} \/ u \in todo'[k]
    PROVE  Served(u)'
<1> DEFINE n == created + 1
<1>1. n \in RunIds /\ stage[n] = "new"
  BY ConstantFacts DEF Spawn, TypeOK, Numbered
<1>2. stage' = [st EXCEPT ![n] = "started"] /\ slot' = [sl EXCEPT ![n] = s]
      /\ live' = live \cup {s}
  BY DEF Spawn, Occupy
<1>. HIDE DEF n
<1>3. CASE u = s
  BY <1>2, <1>3 DEF Served
<1>4. CASE u # s
  <2>1. Wanted(u)' => Wanted(u)
    BY <1>4 DEF Wanted, InRange, Spawn, Occupy
  <2>2. \A r \in RunIds : stage[r] \in {"waiting", "checked"} /\ slot[r] = u
                          => stage'[r] \in {"waiting", "checked"} /\ slot'[r] = u
    BY <1>1, <1>2, <1>4
  <2>. QED BY <1>2, <1>4, <2>1, <2>2, StillServed
<1>. QED BY <1>3, <1>4

LEMMA ServedInit == Init => NoSlotForgotten
  BY DEF Init, NoSlotForgotten, Wanted

\* A station override that raises the instance count adds slots nobody fills:
\* it is excluded here.
LEMMA ServedStep ==
    ASSUME Overrides \subseteq {1}
    PROVE  TypeOK /\ Numbered /\ NoSlotForgotten /\ [Next]_vars => NoSlotForgotten'
<1>. SUFFICES ASSUME TypeOK, Numbered, NoSlotForgotten, [Next]_vars PROVE NoSlotForgotten'
  OBVIOUS
<1>. USE DEF supervisor, runVars, callers
<1>a. \A s \in Slots : Served(s)
  BY DEF NoSlotForgotten, Served
<1>z. (\A s \in Slots : Served(s)') => NoSlotForgotten'
  BY DEF NoSlotForgotten, Served
<1>s. ASSUME UNCHANGED <<live, stage, slot, caller, todo>>, \A s \in Slots : Wanted(s)' => Wanted(s)
      PROVE  NoSlotForgotten'
  <2>1. ASSUME NEW s \in Slots PROVE Served(s)'
    BY <1>a, <1>s, <2>1, StillServed
  <2>. QED BY <1>z, <2>1
<1>o. ASSUME ~(place' = "live" /\ ~stopped' /\ ~isShutdown') PROVE NoSlotForgotten'
  BY <1>o DEF NoSlotForgotten, Wanted
<1>1. ASSUME NEW r \in RunIds, Instance(r) PROVE NoSlotForgotten'
  <2>0. slot[r] \in Slots
    BY DEF TypeOK
  <2>1. CASE Execute(r)
    <3>1. ASSUME NEW s \in Slots PROVE Served(s)'
      BY <1>a, <2>1, <3>1, StillServed DEF Execute, Wanted, InRange, TypeOK
    <3>. QED BY <1>z, <3>1
  <2>2. CASE Exit(r)
    <3>1. ASSUME NEW s \in Slots PROVE Served(s)'
      BY <1>a, <2>2, <3>1, StillServed DEF Exit, Wanted, InRange, TypeOK
    <3>. QED BY <1>z, <3>1
  <2>3. CASE Retire(r)
    <3>1. PICK healthy \in BOOLEAN :
            /\ IF place = "draining" /\ Active = {r}
               THEN place' = "absent" /\ NewSupervisor(FALSE)
               ELSE RecordExit(r, healthy) /\ UNCHANGED place
            /\ IF ShouldRestart(r) /\ ~GivenUp(r, healthy)
               THEN stage' = [stage EXCEPT ![r] = "waiting"] /\ UNCHANGED slot
               ELSE stage' = [stage EXCEPT ![r] = "done"] /\ Over(r)
      BY <2>3 DEF Retire
    <3>2. stage[r] \in Answers /\ UNCHANGED <<def, caller, todo, isShutdown>>
      BY <2>3 DEF Retire
    <3>3. CASE place' = "absent"
      BY <1>o, <3>3
    <3>4. ASSUME RecordExit(r, healthy), UNCHANGED place, NEW s \in Slots PROVE Served(s)'
      <4>1. CASE s # slot[r]
        <5>1. s \in live => s \in live'
          BY <3>4, <4>1 DEF RecordExit
        <5>2. Wanted(s)' => Wanted(s)
          BY <3>2, <3>4, <4>1 DEF RecordExit, Wanted, InRange
        <5>3. \A q \in RunIds : stage[q] \in {"waiting", "checked"} /\ slot[q] = s
                                => stage'[q] \in {"waiting", "checked"} /\ slot'[q] = s
          BY <3>1, <4>1 DEF Over, TypeOK
        <5>. QED BY <1>a, <3>2, <5>1, <5>2, <5>3, StillServed
      <4>2. CASE s = slot[r] /\ ShouldRestart(r) /\ ~GivenUp(r, healthy)
        <5>1. stage'[r] = "waiting" /\ slot'[r] = s
          BY <3>1, <4>2 DEF TypeOK
        <5>. QED BY <5>1 DEF Served, Coming
      <4>3. CASE s = slot[r] /\ GivenUp(r, healthy)
        <5>1. s \in fatal'
          <6>1. fatal' = CASE GivenUp(r, healthy) -> fatal \cup {s}
                           [] ~FailedStart(r, healthy) -> fatal \ {s}
                           [] OTHER -> fatal
            BY <3>4, <4>3 DEF RecordExit
          <6>2. FailedStart(r, healthy)
            BY <4>3 DEF GivenUp
          <6>. QED BY <4>3, <6>1, <6>2
        <5>. QED BY <5>1 DEF Served, Wanted
      <4>4. CASE s = slot[r] /\ ~ShouldRestart(r) /\ ~GivenUp(r, healthy)
        BY <3>4, <4>4 DEF RecordExit, Served, Wanted
      <4>. QED BY <4>1, <4>2, <4>3, <4>4
    <3>. QED BY <1>z, <3>1, <3>3, <3>4
  <2>4. CASE RestartCheck(r)
    <3>1. CASE isShutdown \/ (place = "live" /\ stopped)
      BY <1>o, <2>4, <3>1 DEF RestartCheck
    <3>2. CASE ~(isShutdown \/ (place = "live" /\ stopped))
      <4>1. stage' = [stage EXCEPT ![r] = "checked"] /\ UNCHANGED <<place, def, supervisor, slot, callers, isShutdown>>
        BY <2>4, <3>2 DEF RestartCheck
      <4>2. ASSUME NEW s \in Slots PROVE Served(s)'
        BY <1>a, <4>1, <4>2, StillServed DEF Wanted, InRange, TypeOK
      <4>. QED BY <1>z, <4>2
    <3>. QED BY <3>1, <3>2
  <2>5. CASE RestartFire(r)
    <3> DEFINE st == [stage EXCEPT ![r] = "done"]
               sl == [slot EXCEPT ![r] = 0]
    <3>1. st \in [RunIds -> StageType] /\ sl \in [RunIds -> Slots]
          /\ \A q \in RunIds \ {r} : st[q] = stage[q] /\ sl[q] = slot[q]
      BY ConstantFacts DEF TypeOK, StageType
    <3>2. stage[r] = "checked" /\ UNCHANGED callers
      BY <2>5 DEF RestartFire
    <3>3. CASE Triggerable(slot[r])
      <4>1. Spawn(slot[r], st, sl)
        BY <2>5, <3>3 DEF RestartFire
      <4>. HIDE DEF st, sl
      <4>2. ASSUME NEW u \in Slots PROVE Served(u)'
        <5>1. \A q \in RunIds : stage[q] \in {"waiting", "checked"} /\ slot[q] = u /\ u # slot[r]
                                => st[q] = stage[q] /\ sl[q] = u
          BY <3>1
        <5>. QED BY <1>a, <2>0, <3>1, <3>2, <4>1, <5>1, SpawnServed
      <4>. QED BY <1>z, <4>2
    <3>4. CASE ~Triggerable(slot[r])
      <4>1. stage' = st /\ slot' = sl /\ UNCHANGED <<place, def, supervisor, isShutdown>>
        BY <2>5, <3>4 DEF RestartFire, Over
      <4>2. ASSUME NEW s \in Slots PROVE Served(s)'
        <5>1. Wanted(s)' <=> Wanted(s)
          BY <4>1 DEF Wanted, InRange
        <5>2. CASE s # slot[r]
          <6>1. \A q \in RunIds : stage[q] \in {"waiting", "checked"} /\ slot[q] = s
                                  => stage'[q] \in {"waiting", "checked"} /\ slot'[q] = s
            BY <3>1, <4>1, <5>2
          <6>. QED BY <1>a, <3>2, <4>1, <5>1, <6>1, StillServed
        <5>3. CASE s = slot[r]
          <6>1. Wanted(s) => s \in live
            BY <3>4, <5>3 DEF Triggerable, Reservable, Wanted
          <6>. QED BY <4>1, <5>1, <6>1 DEF Served
        <5>. QED BY <5>2, <5>3
      <4>. QED BY <1>z, <4>2
    <3>. QED BY <3>3, <3>4
  <2>. QED BY <1>1, <2>1, <2>2, <2>3, <2>4, <2>5 DEF Instance
<1>2. ASSUME NEW k \in Callers, Call(k) PROVE NoSlotForgotten'
  <2>1. CASE Compute(k)
    <3>1. UNCHANGED <<place, def, supervisor, runVars, isShutdown>>
      BY <2>1 DEF Compute
    <3>2. CASE place # "live" \/ stopped
      BY <1>o, <3>1, <3>2
    <3>3. CASE place = "live" /\ ~stopped
      <4>1. ASSUME NEW s \in Slots, Wanted(s)', s \notin live' PROVE Coming(s)'
        <5>1. s \in MissingSlots
          BY <3>1, <4>1 DEF Wanted, InRange, MissingSlots
        <5>2. todo' = [todo EXCEPT ![k] = MissingSlots]
          BY <2>1, <3>3, <5>1 DEF Compute
        <5>. QED BY <5>1, <5>2 DEF Coming, TypeOK
      <4>. QED BY <4>1 DEF NoSlotForgotten
    <3>. QED BY <3>2, <3>3
  <2>2. CASE Fill(k)
    <3>1. PICK s \in Slots :
            /\ Leftover(k, s)
            /\ IF Triggerable(s)
               THEN Spawn(s, stage, slot)
               ELSE UNCHANGED <<place, def, supervisor, runVars, isShutdown>>
      BY <2>2 DEF Fill
    <3>2. ASSUME NEW u \in Slots, NEW j \in Callers,
                 caller[j] \in {"reloaded", "asked"} \/ (u \in todo[j] /\ u # s)
          PROVE  caller'[j] \in {"reloaded", "asked"} \/ u \in todo'[j]
      BY <2>2, <3>1, <3>2 DEF Fill, Leftover, Goes, TypeOK
    <3>3. CASE Triggerable(s)
      <4>1. ASSUME NEW u \in Slots PROVE Served(u)'
        BY <1>a, <3>1, <3>2, <3>3, SpawnServed DEF TypeOK, StageType
      <4>. QED BY <1>z, <4>1
    <3>4. CASE ~Triggerable(s)
      <4>1. ASSUME NEW u \in Slots PROVE Served(u)'
        <5>1. Wanted(u)' <=> Wanted(u)
          BY <3>1, <3>4 DEF Wanted, InRange
        <5>2. CASE u # s
          BY <1>a, <3>1, <3>2, <3>4, <5>1, <5>2, StillServed
        <5>3. CASE u = s
          <6>1. Wanted(u) => u \in live
            BY <3>4, <5>3 DEF Triggerable, Reservable, Wanted
          <6>. QED BY <3>1, <3>4, <5>1, <6>1 DEF Served
        <5>. QED BY <5>2, <5>3
      <4>. QED BY <1>z, <4>1
    <3>. QED BY <3>3, <3>4
  <2>3. CASE RecycleServiceInstances(k)
    <3>1. CASE place # "live" \/ stopped
      BY <1>o, <2>3, <3>1 DEF RecycleServiceInstances
    <3>2. CASE ~(place # "live" \/ stopped)
      BY <2>3, <3>2, CallerComes DEF RecycleServiceInstances, Goes, TypeOK
    <3>. QED BY <3>1, <3>2
  <2>. QED BY <1>2, <2>1, <2>2, <2>3 DEF Call
<1>3. ASSUME NEW k \in Callers, StartService(k) PROVE NoSlotForgotten'
  BY <1>3, CallerComes DEF StartService, Goes, TypeOK
<1>4. ASSUME NEW k \in Callers, RestartServiceInstances(k) PROVE NoSlotForgotten'
  <2>1. CASE NeedsFill
    BY <1>4, <2>1, CallerComes DEF RestartServiceInstances, Goes, TypeOK
  <2>2. CASE ~NeedsFill
    <3>1. ~stopped /\ fatal = {}
      BY <2>2 DEF NeedsFill, DeadSlots
    <3>2. \A s \in Slots : Wanted(s)' => Wanted(s)
      BY <1>4, <3>1 DEF RestartServiceInstances, Wanted, InRange
    <3>3. caller' = caller
      BY <1>4, <2>2 DEF RestartServiceInstances, Goes, TypeOK
    <3>. QED BY <1>4, <1>s, <3>2, <3>3 DEF RestartServiceInstances
  <2>. QED BY <2>1, <2>2
<1>5. ASSUME NEW k \in Callers, NEW d \in Defs, Upsert(k, d) PROVE NoSlotForgotten'
  BY <1>5, CallerComes DEF Upsert, Goes, TypeOK
<1>6. ASSUME NEW n \in Overrides, HandleServiceApply(n) PROVE NoSlotForgotten'
  <2>1. n = 1 /\ def \in DefType
    BY DEF TypeOK
  <2>2. def'.instances = 1 /\ def.instances \in Int /\ def.instances >= 1
    BY <1>6, <2>1, ServiceSupervisorAssumption DEF HandleServiceApply, DefType
  <2>3. \A s \in Slots : Wanted(s)' => Wanted(s)
    BY <1>6, <2>2, ConstantFacts DEF HandleServiceApply, Wanted, InRange
  <2>. QED BY <1>6, <1>s, <2>3 DEF HandleServiceApply
<1>7. ASSUME NEW r \in RunIds, TerminateRun(r) PROVE NoSlotForgotten'
  BY <1>7, <1>s DEF TerminateRun, Wanted, InRange
<1>8. CASE RemoveTask   BY <1>8, <1>o DEF RemoveTask
<1>9. CASE StopService \/ BeginShutdown   BY <1>9, <1>o DEF StopService, BeginShutdown
<1>10. CASE CancelPass   BY <1>10, <1>o DEF CancelPass
<1>11. CASE UNCHANGED vars   BY <1>11, <1>s DEF vars, Wanted, InRange
<1>. QED BY <1>1, <1>2, <1>3, <1>4, <1>5, <1>6, <1>7, <1>8, <1>9, <1>10, <1>11 DEF Next, Operator

\* Every slot a running service should have filled is filled, or someone is about
\* to fill it, unless the station raises the instance count.
THEOREM NoSlotLeftBehind ==
    ASSUME Overrides \subseteq {1}
    PROVE  Spec => []NoSlotForgotten
<1>1. TypeOK /\ Occupancy /\ NoSlotForgotten /\ [Next]_vars => (TypeOK /\ Occupancy /\ NoSlotForgotten)'
  BY TypeStep, OccupancyStep, ServedStep DEF Occupancy
<1>2. Init => TypeOK /\ Occupancy /\ NoSlotForgotten
  BY TypeInit, OccupancyInit, ServedInit
<1>. QED BY <1>1, <1>2, PTL DEF Spec
=============================================================================
