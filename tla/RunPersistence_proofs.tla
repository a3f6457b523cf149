------------------------ MODULE RunPersistence_proofs ------------------------
(***************************************************************************)
(* Proofs about RunPersistence for any runs, any capacity of the channel   *)
(* and any number of boots: as long as the database accepts what is        *)
(* written to it, the runs table is a RunRecord.                           *)
(*                                                                         *)
(* What the worker holds and the channel are one queue of writes, Pipe.    *)
(* The invariant says of each run which writes may still be in the pipe at *)
(* its stage, and what its row is then; Ordered, that the writes of one    *)
(* run stay in the order of its life.                                      *)
(***************************************************************************)
EXTENDS RunPersistence, TLAPS

Pipe == busy \o ch

Kinds == {"create", "running", "ended", "flush"}
Has(p, r, k) == \E i \in 1 .. Len(p) : p[i].run = r /\ p[i].kind = k
In(r, k) == Has(Pipe, r, k)

\* Of two writes of one run, the later one is not its creation, the earlier one
\* not a flush, and only a flush follows its end.
MayFollow(earlier, later) ==
    earlier.run = later.run =>
        /\ later.kind # "create"
        /\ earlier.kind # "flush"
        /\ earlier.kind = "ended" => later.kind = "flush"
Orderly(p) == \A i, j \in 1 .. Len(p) : i < j => MayFollow(p[i], p[j])
Ordered == Orderly(Pipe)

\* Nothing survives in memory; runs that end without executing.
Memory(r) ==
    /\ ~Alive => life[r] = "none" /\ r \notin turned
    /\ daemon = "recovering" => row[r] # "running"
    /\ r \in turned => life[r] \in {"returned", "closed", "settling", "over"}
    /\ ctxDone /\ r \notin turned => life[r] \in {"none", "waiting", "over"}

\* Which writes of a run may be under way at which stage.
Writing(r) ==
    /\ In(r, "create") => life[r] \in {"waiting", "started", "marked", "flushing"} \/ r \in turned
    /\ In(r, "running") => /\ life[r] \in {"marked", "flushing", "spawned", "returned", "closed", "settling"}
                           /\ r \notin turned
    /\ In(r, "ended") => life[r] \in {"closed", "settling"} \/ (life[r] = "over" /\ ctxDone /\ r \in turned)
    /\ In(r, "flush") => life[r] \in {"flushing", "settling"} \/ (life[r] = "over" /\ ctxDone /\ r \in turned)
    /\ In(r, "create") /\ ~ctxDone => life[r] # "over"

\* What the row of a run is at which stage, given what is still under way.
Rows(r) ==
    /\ In(r, "create") => row[r] = "none"
    /\ In(r, "running") => row[r] # "ended"
    /\ Alive /\ life[r] = "none" => row[r] \in {"none", "ended"}
    /\ life[r] \in {"waiting", "started"} => row[r] \in {"none", "pending"}
    /\ life[r] \in {"marked", "flushing"} =>
          /\ row[r] # "ended"
          /\ row[r] = "none" => In(r, "create")
          /\ row[r] # "running" => In(r, "running")
    /\ life[r] \in {"cleared", "spawned"} => row[r] = "running"
    /\ r \notin turned =>
          /\ life[r] = "returned" => row[r] = "running"
          /\ life[r] \in {"closed", "settling"} => row[r] \in {"running", "ended"}
          /\ life[r] \in {"closed", "settling"} /\ row[r] # "ended" => In(r, "ended")
          /\ life[r] = "over" => row[r] = "ended"
    /\ r \in turned =>
          /\ row[r] # "running"
          /\ life[r] = "returned" => row[r] # "ended"
    /\ ~ctxDone =>
          /\ row[r] = "none" /\ life[r] \notin {"none", "over"} => In(r, "create")
          /\ r \in turned /\ life[r] \in {"closed", "settling"} /\ row[r] # "ended" => In(r, "ended")
          /\ life[r] = "over" => row[r] = "ended"

\* A process was started at most once, and only after its row was "running".
Launched(r) ==
    /\ launches[r] <= 1
    /\ launches[r] # 0 =>
          /\ row[r] \in {"running", "ended"}
          /\ life[r] \notin {"waiting", "started", "marked", "flushing", "cleared"}

RunInv(r) == Memory(r) /\ Writing(r) /\ Rows(r) /\ Launched(r)

IInv ==
    /\ TypeOK
    /\ ~Alive => Pipe = <<>>
    /\ Ordered
    /\ \A r \in Runs : RunInv(r)

(***************************************************************************)
(* Queues of writes                                                        *)
(***************************************************************************)
LEMMA HasAppend ==
    ASSUME NEW p \in Seq(Writes), NEW w \in Writes, NEW r, NEW k
    PROVE  Has(Append(p, w), r, k) <=> Has(p, r, k) \/ (w.run = r /\ w.kind = k)
<1> DEFINE q == Append(p, w)
<1>1. /\ Len(q) = Len(p) + 1 /\ Len(p) \in Nat
      /\ q[Len(p) + 1] = w
      /\ \A i \in 1 .. Len(p) : q[i] = p[i]
  OBVIOUS
<1>2. ASSUME Has(q, r, k) PROVE Has(p, r, k) \/ (w.run = r /\ w.kind = k)
  <2>1. PICK i \in 1 .. Len(q) : q[i].run = r /\ q[i].kind = k
    BY <1>2 DEF Has
  <2>2. i \in 1 .. Len(p) \/ i = Len(p) + 1
    BY <1>1
  <2> QED
    BY <2>1, <2>2, <1>1 DEF Has
<1>3. ASSUME Has(p, r, k) PROVE Has(q, r, k)
  <2>1. PICK i \in 1 .. Len(p) : p[i].run = r /\ p[i].kind = k
    BY <1>3 DEF Has
  <2>2. i \in 1 .. Len(q) /\ q[i] = p[i]
    BY <1>1
  <2> QED
    BY <2>1, <2>2 DEF Has
<1>4. ASSUME w.run = r, w.kind = k PROVE Has(q, r, k)
  BY <1>1, <1>4 DEF Has
<1> QED
  BY <1>2, <1>3, <1>4

LEMMA OrderlyAppend ==
    ASSUME NEW p \in Seq(Writes), Orderly(p), NEW w \in Writes,
           \A k \in Kinds : Has(p, w.run, k) => MayFollow([run |-> w.run, kind |-> k], w)
    PROVE  Orderly(Append(p, w))
<1> DEFINE q == Append(p, w)
<1>1. /\ Len(q) = Len(p) + 1 /\ Len(p) \in Nat
      /\ q[Len(p) + 1] = w
      /\ \A i \in 1 .. Len(p) : q[i] = p[i] /\ p[i] \in Writes
  OBVIOUS
<1>2. ASSUME NEW i \in 1 .. Len(q), NEW j \in 1 .. Len(q), i < j PROVE MayFollow(q[i], q[j])
  <2>1. CASE j \in 1 .. Len(p)
    BY <2>1, <1>1, <1>2 DEF Orderly
  <2>2. CASE j = Len(p) + 1 /\ p[i].run = w.run
    <3>1. i \in 1 .. Len(p) /\ p[i].kind \in Kinds /\ q[i] = p[i] /\ q[j] = w
      BY <2>2, <1>1, <1>2 DEF Writes, Kinds
    <3>2. MayFollow([run |-> w.run, kind |-> p[i].kind], w)
      BY <3>1, <2>2 DEF Has
    <3> QED
      BY <3>1, <3>2, <2>2 DEF MayFollow
  <2>3. CASE j = Len(p) + 1 /\ p[i].run # w.run
    BY <2>3, <1>1, <1>2 DEF MayFollow
  <2> QED
    BY <1>1, <1>2, <2>1, <2>2, <2>3
<1> QED
  BY <1>2 DEF Orderly

LEMMA TailFacts ==
    ASSUME NEW p \in Seq(Writes), p # <<>>
    PROVE  /\ Head(p) \in Writes /\ Tail(p) \in Seq(Writes)
           /\ Head(p) = p[1] /\ Len(p) \in Nat /\ Len(p) # 0
           /\ Len(Tail(p)) = Len(p) - 1
           /\ \A i \in 1 .. Len(p) - 1 : Tail(p)[i] = p[i + 1]
  OBVIOUS

LEMMA HasTail ==
    ASSUME NEW p \in Seq(Writes), p # <<>>, NEW r, NEW k
    PROVE  Has(p, r, k) <=> Has(Tail(p), r, k) \/ (Head(p).run = r /\ Head(p).kind = k)
<1>1. ASSUME Has(p, r, k) PROVE Has(Tail(p), r, k) \/ (Head(p).run = r /\ Head(p).kind = k)
  <2>1. PICK i \in 1 .. Len(p) : p[i].run = r /\ p[i].kind = k
    BY <1>1 DEF Has
  <2>2. CASE i = 1
    BY <2>1, <2>2, TailFacts
  <2>3. CASE i # 1
    <3>1. i - 1 \in 1 .. Len(p) - 1 /\ i = (i - 1) + 1
      BY <2>3, TailFacts
    <3>2. Tail(p)[i - 1] = p[i] /\ i - 1 \in 1 .. Len(Tail(p))
      BY <3>1, TailFacts
    <3> QED
      BY <2>1, <3>2 DEF Has
  <2> QED
    BY <2>2, <2>3
<1>2. ASSUME Has(Tail(p), r, k) PROVE Has(p, r, k)
  <2>1. PICK i \in 1 .. Len(Tail(p)) : Tail(p)[i].run = r /\ Tail(p)[i].kind = k
    BY <1>2 DEF Has
  <2>2. i + 1 \in 1 .. Len(p) /\ Tail(p)[i] = p[i + 1]
    BY TailFacts
  <2> QED
    BY <2>1, <2>2 DEF Has
<1>3. ASSUME Head(p).run = r, Head(p).kind = k PROVE Has(p, r, k)
  <2>1. 1 \in 1 .. Len(p) /\ p[1] = Head(p)
    BY TailFacts
  <2> QED
    BY <1>3, <2>1 DEF Has
<1> QED
  BY <1>1, <1>2, <1>3

\* What is behind the head of an orderly queue.
LEMMA OrderlyTail ==
    ASSUME NEW p \in Seq(Writes), p # <<>>, Orderly(p)
    PROVE  /\ Orderly(Tail(p))
           /\ \A k \in Kinds : Has(Tail(p), Head(p).run, k) =>
                  MayFollow(Head(p), [run |-> Head(p).run, kind |-> k])
<1>1. ASSUME NEW i \in 1 .. Len(Tail(p)), NEW j \in 1 .. Len(Tail(p)), i < j
      PROVE  MayFollow(Tail(p)[i], Tail(p)[j])
  <2>1. /\ i + 1 \in 1 .. Len(p) /\ j + 1 \in 1 .. Len(p) /\ i + 1 < j + 1
        /\ Tail(p)[i] = p[i + 1] /\ Tail(p)[j] = p[j + 1]
    BY <1>1, TailFacts
  <2> QED
    BY <2>1 DEF Orderly
<1>2. ASSUME NEW k \in Kinds, Has(Tail(p), Head(p).run, k)
      PROVE  MayFollow(Head(p), [run |-> Head(p).run, kind |-> k])
  <2>1. PICK i \in 1 .. Len(Tail(p)) : Tail(p)[i].run = Head(p).run /\ Tail(p)[i].kind = k
    BY <1>2 DEF Has
  <2>2. 1 \in 1 .. Len(p) /\ i + 1 \in 1 .. Len(p) /\ 1 < i + 1
        /\ Tail(p)[i] = p[i + 1] /\ Head(p) = p[1]
    BY TailFacts
  <2>3. MayFollow(Head(p), p[i + 1])
    BY <2>2 DEF Orderly
  <2> QED
    BY <2>1, <2>2, <2>3 DEF MayFollow
<1> QED
  BY <1>1, <1>2 DEF Orderly

(***************************************************************************)
(* Types                                                                   *)
(***************************************************************************)
LEMMA EnqueueType ==
    ASSUME TypeOK, NEW r \in Runs, NEW k \in Kinds, Enqueue(r, k)
    PROVE  ch' \in Seq(Writes) /\ Len(ch') <= Capacity
<1>1. [run |-> r, kind |-> k] \in Writes
  BY DEF Writes, Kinds
<1>2. CASE Len(ch) < Capacity /\ ch' = Append(ch, [run |-> r, kind |-> k])
  BY <1>1, <1>2, RunPersistenceAssumption DEF TypeOK
<1>3. CASE ctxDone /\ ch' = ch
  BY <1>3 DEF TypeOK
<1> QED
  BY <1>2, <1>3 DEF Enqueue

LEMMA FlushType ==
    ASSUME TypeOK, NEW r \in Runs, NEW to \in Lives, NEW after \in Lives, Flush(r, to, after)
    PROVE  ch' \in Seq(Writes) /\ Len(ch') <= Capacity /\ life' \in [Runs -> Lives]
<1>1. life' \in [Runs -> Lives]
  BY DEF Flush, Advance, TypeOK
<1>2. ch' \in Seq(Writes) /\ Len(ch') <= Capacity
  BY EnqueueType DEF Flush, Kinds, TypeOK
<1> QED
  BY <1>1, <1>2

LEMMA TypeInit == Init => TypeOK
<1> SUFFICES ASSUME Init PROVE TypeOK
  OBVIOUS
<1>1. <<>> \in Seq(Writes) /\ Len(<<>>) = 0
  OBVIOUS
<1>2. ch \in Seq(Writes) /\ Len(ch) <= Capacity /\ busy \in Seq(Writes) /\ Len(busy) <= 1
  BY <1>1, RunPersistenceAssumption DEF Init
<1>3. boots \in 0 .. MaxBoots
  BY RunPersistenceAssumption DEF Init
<1>4. row \in [Runs -> {"none", "pending", "running", "ended"}] /\ launches \in [Runs -> Nat]
      /\ life \in [Runs -> Lives] /\ turned \subseteq Runs
  BY DEF Init, Lives
<1> QED
  BY <1>2, <1>3, <1>4 DEF Init, TypeOK

LEMMA TypeStep == TypeOK /\ [Next]_vars => TypeOK'
<1> SUFFICES ASSUME TypeOK, [Next]_vars PROVE TypeOK'
  OBVIOUS
<1>1. CASE Take
  <2>1. ch \in Seq(Writes) /\ ch # <<>>
    BY <1>1 DEF Take, TypeOK
  <2>2. Head(ch) \in Writes /\ Tail(ch) \in Seq(Writes) /\ Len(Tail(ch)) = Len(ch) - 1 /\ Len(ch) \in Nat
    BY <2>1, TailFacts
  <2>3. <<Head(ch)>> \in Seq(Writes) /\ Len(<<Head(ch)>>) = 1
    BY <2>2
  <2>4. inFlight' \in BOOLEAN
    BY <1>1 DEF Take
  <2> QED
    BY <1>1, <2>2, <2>3, <2>4, RunPersistenceAssumption DEF Take, TypeOK
<1>2. CASE Apply
  <2>1. busy[1] \in Writes
    BY <1>2 DEF Apply, TypeOK
  <2>2. row' \in [Runs -> {"none", "pending", "running", "ended"}]
    BY <1>2, <2>1 DEF Apply, TypeOK, Written, Writes
  <2>3. life' \in [Runs -> Lives]
    BY <1>2, <2>1 DEF Apply, Advance, Released, TypeOK, Lives, Writes
  <2> QED
    BY <1>2, <2>2, <2>3 DEF Apply, TypeOK
<1>3. CASE WorkerExit
  BY <1>3 DEF WorkerExit, TypeOK
<1>4. ASSUME NEW r \in Runs, Trigger(r) PROVE TypeOK'
  <2>1. life' \in [Runs -> Lives] /\ turned' \subseteq Runs
    BY <1>4 DEF Trigger, TypeOK, Lives
  <2>2. ch' \in Seq(Writes) /\ Len(ch') <= Capacity
    BY <1>4, EnqueueType DEF Trigger, Kinds
  <2> QED
    BY <1>4, <2>1, <2>2 DEF Trigger, UnchangedStore, TypeOK
<1>5. ASSUME NEW r \in Runs, Start(r) \/ Orphan(r) \/ Return(r) PROVE TypeOK'
  BY <1>5 DEF Start, Orphan, Return, Advance, UnchangedStore, TypeOK, Lives
<1>6. ASSUME NEW r \in Runs, MarkRunning(r) \/ MarkEnded(r) PROVE TypeOK'
  <2>1. life' \in [Runs -> Lives]
    BY <1>6 DEF MarkRunning, MarkEnded, Advance, TypeOK, Lives
  <2>2. ch' \in Seq(Writes) /\ Len(ch') <= Capacity
    BY <1>6, EnqueueType DEF MarkRunning, MarkEnded, Kinds
  <2> QED
    BY <1>6, <2>1, <2>2 DEF MarkRunning, MarkEnded, UnchangedStore, TypeOK
<1>7. ASSUME NEW r \in Runs, AwaitRunning(r) \/ AwaitEnded(r) PROVE TypeOK'
  <2>1. ch' \in Seq(Writes) /\ Len(ch') <= Capacity /\ life' \in [Runs -> Lives]
    BY <1>7, FlushType DEF AwaitRunning, AwaitEnded, Lives
  <2> QED
    BY <1>7, <2>1 DEF AwaitRunning, AwaitEnded, UnchangedStore, TypeOK
<1>8. ASSUME NEW r \in Runs, Launch(r) PROVE TypeOK'
  <2>1. life' \in [Runs -> Lives] /\ launches' \in [Runs -> Nat]
    BY <1>8 DEF Launch, Advance, TypeOK, Lives
  <2>2. ch' \in Seq(Writes) /\ Len(ch') <= Capacity
    BY <1>8, EnqueueType DEF Launch, Kinds
  <2> QED
    BY <1>8, <2>1, <2>2 DEF Launch, UnchangedStore, TypeOK
<1>9. ASSUME NEW r \in Runs, FlushAbandoned(r) PROVE TypeOK'
  BY <1>9 DEF FlushAbandoned, Advance, Released, TypeOK, Lives
<1>10. CASE BeginShutdown \/ Close
  BY <1>10 DEF BeginShutdown, Close, TypeOK
<1>11. CASE Crash
  <2>1. <<>> \in Seq(Writes) /\ Len(<<>>) = 0
    OBVIOUS
  <2>2. /\ ch' \in Seq(Writes) /\ Len(ch') <= Capacity
        /\ busy' \in Seq(Writes) /\ Len(busy') <= 1
    BY <1>11, <2>1, RunPersistenceAssumption DEF Crash
  <2>3. life' \in [Runs -> Lives] /\ turned' \subseteq Runs
    BY <1>11 DEF Crash, Lives
  <2> QED
    BY <1>11, <2>2, <2>3 DEF Crash, TypeOK
<1>12. CASE MarkCrashedRuns
  BY <1>12, RunPersistenceAssumption DEF MarkCrashedRuns, TypeOK
<1>13. CASE ResumePendingRuns
  <2>1. life' \in [Runs -> Lives] /\ turned' \subseteq Runs
    <3>1. life \in [Runs -> Lives] /\ turned \subseteq Runs /\ Pending \subseteq Runs
      BY DEF TypeOK, Pending
    <3>2. CASE UNCHANGED <<life, turned>>
      BY <3>1, <3>2
    <3>3. CASE ~ UNCHANGED <<life, turned>>
      <4>1. PICK fate \in [Pending -> {"waiting", "started", "returned"}] :
              /\ life' = [r \in Runs |-> IF r \in Pending THEN fate[r] ELSE life[r]]
              /\ turned' = {r \in Pending : fate[r] = "returned"}
        BY <1>13, <3>3 DEF ResumePendingRuns
      <4>2. \A r \in Runs : (IF r \in Pending THEN fate[r] ELSE life[r]) \in Lives
        BY <3>1 DEF Lives
      <4>3. life' \in [Runs -> Lives]
        BY <4>1, <4>2
      <4> QED
        BY <3>1, <4>1, <4>3
    <3> QED
      BY <3>2, <3>3
  <2> QED
    BY <1>13, <2>1 DEF ResumePendingRuns, TypeOK
<1>14. CASE UNCHANGED vars
  BY <1>14 DEF vars, TypeOK
<1> QED
  BY <1>1, <1>2, <1>3, <1>4, <1>5, <1>6, <1>7, <1>8, <1>9, <1>10, <1>11, <1>12, <1>13, <1>14
     DEF Next, Worker, RunStep, Boot

\* Every variable keeps its type, whatever the writes of the database do.
THEOREM TypeCorrect == Spec => []TypeOK
<1> QED
  BY TypeInit, TypeStep, PTL DEF Spec

(***************************************************************************)
(* What the steps make of the pipe                                         *)
(***************************************************************************)
LEMMA PipeFacts ==
    ASSUME TypeOK
    PROVE  /\ Pipe \in Seq(Writes)
           /\ busy # <<>> => /\ Pipe # <<>> /\ Head(Pipe) = busy[1] /\ Tail(Pipe) = ch
                             /\ busy[1] \in Writes
           /\ busy = <<>> => Pipe = ch
<1>1. busy \in Seq(Writes) /\ ch \in Seq(Writes) /\ Len(busy) <= 1 /\ Len(busy) \in Nat
  BY DEF TypeOK
<1>2. Pipe \in Seq(Writes)
  BY <1>1 DEF Pipe
<1>3. ASSUME busy = <<>> PROVE Pipe = ch
  BY <1>1, <1>3 DEF Pipe
<1>4. ASSUME busy # <<>>
      PROVE  Pipe # <<>> /\ Head(Pipe) = busy[1] /\ Tail(Pipe) = ch /\ busy[1] \in Writes
  <2>1. Len(busy) = 1 /\ busy[1] \in Writes
    <3>1. Len(busy) # 0
      BY <1>1, <1>4
    <3>2. \A n \in Nat : n <= 1 /\ n # 0 => n = 1
      OBVIOUS
    <3>3. Len(busy) = 1
      BY <1>1, <3>1, <3>2
    <3> QED
      BY <1>1, <3>3
  <2>2. Len(Pipe) = 1 + Len(ch) /\ Pipe[1] = busy[1] /\ Len(ch) \in Nat
        /\ \A i \in 1 .. Len(ch) : Pipe[i + 1] = ch[i]
    <3>1. Len(Pipe) = Len(busy) + Len(ch) /\ Len(ch) \in Nat
          /\ \A i \in 1 .. Len(busy) + Len(ch) :
                Pipe[i] = IF i <= Len(busy) THEN busy[i] ELSE ch[i - Len(busy)]
      BY <1>1 DEF Pipe
    <3>2. Len(Pipe) = 1 + Len(ch) /\ 1 \in 1 .. Len(busy) + Len(ch) /\ 1 <= Len(busy)
      BY <3>1, <2>1
    <3>3. Pipe[1] = busy[1]
      BY <3>1, <3>2
    <3>4. ASSUME NEW i \in 1 .. Len(ch) PROVE Pipe[i + 1] = ch[i]
      <4>1. /\ i + 1 \in 1 .. Len(busy) + Len(ch) /\ ~(i + 1 <= Len(busy))
            /\ (i + 1) - Len(busy) = i
        BY <3>1, <2>1
      <4> QED
        BY <3>1, <4>1
    <3> QED
      BY <3>1, <3>2, <3>3, <3>4
  <2>3. Pipe # <<>>
    BY <1>2, <2>2
  <2>4. Tail(Pipe) \in Seq(Writes) /\ Len(Tail(Pipe)) = Len(ch)
        /\ \A i \in 1 .. Len(ch) : Tail(Pipe)[i] = ch[i]
    BY <1>2, <2>2, <2>3, TailFacts
  <2>5. Tail(Pipe) = ch
    BY <1>1, <2>4
  <2> QED
    BY <1>2, <2>1, <2>2, <2>3, <2>5, TailFacts
<1> QED
  BY <1>2, <1>3, <1>4

\* The worker takes a write: the pipe is the same.
LEMMA PipeTake == TypeOK /\ Take => Pipe' = Pipe
<1> SUFFICES ASSUME TypeOK, Take PROVE Pipe' = Pipe
  OBVIOUS
<1>1. ch \in Seq(Writes) /\ ch # <<>> /\ busy = <<>>
  BY DEF Take, TypeOK
<1>2. Pipe' = <<Head(ch)>> \o Tail(ch)
  BY DEF Pipe, Take
<1>3. <<Head(ch)>> \o Tail(ch) = ch
  BY <1>1
<1> QED
  BY <1>1, <1>2, <1>3, PipeFacts

\* The worker applies a write: it leaves the pipe.
LEMMA PipeApply ==
    ASSUME TypeOK, Apply
    PROVE  Pipe # <<>> /\ Pipe' = Tail(Pipe) /\ Head(Pipe) = busy[1] /\ busy[1] \in Writes
<1>1. busy # <<>> /\ busy' = <<>> /\ ch' = ch /\ ch \in Seq(Writes)
  BY DEF Apply, TypeOK
<1>2. Pipe' = ch
  BY <1>1 DEF Pipe
<1> QED
  BY <1>1, <1>2, PipeFacts

\* A write of run r is sent, or lost on the way to a worker that is going.
LEMMA Queued ==
    ASSUME TypeOK, Ordered, NEW r \in Runs, NEW k \in Kinds, Enqueue(r, k), busy' = busy,
           \A l \in Kinds : In(r, l) => MayFollow([run |-> r, kind |-> l], [run |-> r, kind |-> k])
    PROVE  /\ Ordered'
           /\ \A s \in Runs, l \in Kinds : s # r \/ l # k => (In(s, l)' <=> In(s, l))
           /\ In(r, k) => In(r, k)'
           /\ ~ctxDone => In(r, k)'
<1> DEFINE w == [run |-> r, kind |-> k]
<1>1. Pipe \in Seq(Writes) /\ w \in Writes /\ w.run = r /\ w.kind = k
  BY PipeFacts DEF Writes, Kinds
<1>2. CASE ch' = Append(ch, w)
  <2>1. Pipe' = Append(Pipe, w)
    BY <1>1, <1>2 DEF Pipe, TypeOK
  <2>2. Orderly(Append(Pipe, w))
    BY <1>1, OrderlyAppend DEF Ordered, In
  <2>3. \A s, l : Has(Append(Pipe, w), s, l) <=> Has(Pipe, s, l) \/ (r = s /\ k = l)
    BY <1>1, HasAppend
  <2>4. Ordered'
    BY <2>1, <2>2 DEF Ordered
  <2>5. \A s, l : In(s, l)' <=> In(s, l) \/ (r = s /\ k = l)
    BY <2>1, <2>3 DEF In
  <2> QED
    BY <2>4, <2>5
<1>3. CASE ctxDone /\ ch' = ch
  <2>1. Pipe' = Pipe
    BY <1>3 DEF Pipe
  <2> QED
    BY <2>1, <1>3 DEF Ordered, In
<1> QED
  BY <1>2, <1>3 DEF Enqueue

\* A step that leaves a run and its writes alone keeps what is known of it.
LEMMA Frame ==
    ASSUME NEW s \in Runs, RunInv(s), daemon' = daemon,
           life'[s] = life[s], s \in turned' <=> s \in turned, row'[s] = row[s],
           launches'[s] = launches[s], \A l \in Kinds : In(s, l)' <=> In(s, l)
    PROVE  RunInv(s)'
<1>1. /\ In(s, "create")' <=> In(s, "create")
      /\ In(s, "running")' <=> In(s, "running")
      /\ In(s, "ended")' <=> In(s, "ended")
      /\ In(s, "flush")' <=> In(s, "flush")
  BY DEF Kinds
<1>2. (Alive' <=> Alive) /\ (ctxDone' <=> ctxDone)
  BY DEF Alive, ctxDone
<1>3. Memory(s)'
  BY <1>2 DEF RunInv, Memory
<1>4. Writing(s)'
  BY <1>1, <1>2 DEF RunInv, Writing
<1>5. Rows(s)'
  BY <1>1, <1>2 DEF RunInv, Rows
<1>6. Launched(s)'
  BY DEF RunInv, Launched
<1> QED
  BY <1>3, <1>4, <1>5, <1>6 DEF RunInv

\* A step of run r alone, while the daemon is alive.
LEMMA OneRun ==
    ASSUME IInv, TypeOK', Ordered', NEW r \in Runs, Alive, daemon' = daemon,
           \A s \in Runs : s # r =>
              /\ life'[s] = life[s] /\ row'[s] = row[s] /\ launches'[s] = launches[s]
              /\ s \in turned' <=> s \in turned
              /\ \A l \in Kinds : In(s, l)' <=> In(s, l),
           RunInv(r)'
    PROVE  IInv'
<1>1. ASSUME NEW s \in Runs, s # r PROVE RunInv(s)'
  <2>1. RunInv(s)
    BY DEF IInv
  <2> QED
    BY <1>1, <2>1, Frame
<1>2. Alive'
  BY DEF Alive
<1> QED
  BY <1>1, <1>2 DEF IInv

\* Four kinds of writes, spelled out.
LEMMA KindFacts ==
    ASSUME NEW r \in Runs, NEW k \in Kinds, In(r, k) => In(r, k)',
           \A s \in Runs, l \in Kinds : s # r \/ l # k => (In(s, l)' <=> In(s, l))
    PROVE  /\ \A s \in Runs : s # r => \A l \in Kinds : In(s, l)' <=> In(s, l)
           /\ k # "create" => (In(r, "create")' <=> In(r, "create"))
           /\ k # "running" => (In(r, "running")' <=> In(r, "running"))
           /\ k # "ended" => (In(r, "ended")' <=> In(r, "ended"))
           /\ k # "flush" => (In(r, "flush")' <=> In(r, "flush"))
  BY DEF Kinds

\* A step that touches neither the pipe nor its worker's write.
LEMMA SamePipe ==
    ASSUME Pipe' = Pipe
    PROVE  /\ Ordered' <=> Ordered
           /\ \A s, l : In(s, l)' <=> In(s, l)
  BY DEF Ordered, In

LEMMA SameQueue == ch' = ch /\ busy' = busy => Pipe' = Pipe
  BY DEF Pipe


LEMMA StepTrigger ==
    ASSUME IInv, TypeOK', NEW r \in Runs, Trigger(r)
    PROVE  IInv'
<1>1. /\ TypeOK /\ Ordered /\ RunInv(r) /\ Alive
      /\ daemon' = daemon /\ row' = row /\ busy' = busy /\ Enqueue(r, "create")
  BY DEF IInv, Trigger, UnchangedStore, Alive
<1>2. /\ (Alive' <=> Alive) /\ (ctxDone' <=> ctxDone)
  BY <1>1 DEF Alive, ctxDone
<1>3. \A l \in Kinds : In(r, l) => MayFollow([run |-> r, kind |-> l], [run |-> r, kind |-> "create"])
  BY <1>1 DEF Trigger, RunInv, Memory, Writing, Rows, MayFollow, Kinds
<1>4. /\ Ordered'
      /\ \A s \in Runs, l \in Kinds : s # r \/ l # "create" => (In(s, l)' <=> In(s, l))
      /\ In(r, "create") => In(r, "create")'
      /\ ~ctxDone => In(r, "create")'
  BY <1>1, <1>3, Queued DEF Kinds
<1>5. /\ \A s \in Runs : s # r => \A l \in Kinds : In(s, l)' <=> In(s, l)
      /\ In(r, "running")' <=> In(r, "running")
      /\ In(r, "ended")' <=> In(r, "ended")
      /\ In(r, "flush")' <=> In(r, "flush")
  BY <1>4, KindFacts DEF Kinds
<1>6. \A s \in Runs : s # r =>
         /\ life'[s] = life[s] /\ row'[s] = row[s] /\ launches'[s] = launches[s]
         /\ s \in turned' <=> s \in turned
  BY <1>1 DEF Trigger, TypeOK
<1>7. /\ launches' = launches
      /\ \/ life'[r] \in {"waiting", "started"} /\ turned' = turned
         \/ life'[r] = "returned" /\ turned' = turned \cup {r}
  BY <1>1 DEF Trigger, TypeOK
<1>8. Memory(r)'
  BY <1>1, <1>2, <1>7 DEF RunInv, Memory, Trigger, Alive, ctxDone
<1>9. Writing(r)'
  BY <1>1, <1>2, <1>4, <1>5, <1>7 DEF RunInv, Memory, Writing, Trigger, Alive, ctxDone
<1>10. Rows(r)'
  BY <1>1, <1>2, <1>4, <1>5, <1>7 DEF RunInv, Memory, Writing, Rows, Launched, Trigger, Alive, ctxDone
<1>11. Launched(r)'
  BY <1>1, <1>7 DEF RunInv, Launched, Rows, Memory, Trigger, TypeOK
<1>12. RunInv(r)'
  BY <1>8, <1>9, <1>10, <1>11 DEF RunInv
<1> QED
  BY <1>1, <1>4, <1>5, <1>6, <1>12, OneRun


LEMMA StepMarkRunning ==
    ASSUME IInv, TypeOK', NEW r \in Runs, MarkRunning(r)
    PROVE  IInv'
<1>1. /\ TypeOK /\ Ordered /\ RunInv(r) /\ Alive
      /\ daemon' = daemon /\ row' = row /\ busy' = busy /\ Enqueue(r, "running")
  BY DEF IInv, MarkRunning, UnchangedStore, Alive
<1>2. /\ (Alive' <=> Alive) /\ (ctxDone' <=> ctxDone)
  BY <1>1 DEF Alive, ctxDone
<1>3. \A l \in Kinds : In(r, l) => MayFollow([run |-> r, kind |-> l], [run |-> r, kind |-> "running"])
  BY <1>1 DEF MarkRunning, RunInv, Memory, Writing, Rows, MayFollow, Kinds
<1>4. /\ Ordered'
      /\ \A s \in Runs, l \in Kinds : s # r \/ l # "running" => (In(s, l)' <=> In(s, l))
      /\ In(r, "running") => In(r, "running")'
      /\ ~ctxDone => In(r, "running")'
  BY <1>1, <1>3, Queued DEF Kinds
<1>5. /\ \A s \in Runs : s # r => \A l \in Kinds : In(s, l)' <=> In(s, l)
      /\ In(r, "create")' <=> In(r, "create")
      /\ In(r, "ended")' <=> In(r, "ended")
      /\ In(r, "flush")' <=> In(r, "flush")
  BY <1>4, KindFacts DEF Kinds
<1>6. \A s \in Runs : s # r =>
         /\ life'[s] = life[s] /\ row'[s] = row[s] /\ launches'[s] = launches[s]
         /\ s \in turned' <=> s \in turned
  BY <1>1 DEF MarkRunning, Advance, TypeOK
<1>7. launches' = launches /\ turned' = turned /\ life'[r] = "marked"
  BY <1>1 DEF MarkRunning, Advance, TypeOK
<1>8. Memory(r)'
  BY <1>1, <1>2, <1>7 DEF RunInv, Memory, MarkRunning, Alive, ctxDone
<1>9. Writing(r)'
  BY <1>1, <1>2, <1>4, <1>5, <1>7 DEF RunInv, Memory, Writing, MarkRunning, Alive, ctxDone
<1>10. Rows(r)'
  BY <1>1, <1>2, <1>4, <1>5, <1>7 DEF RunInv, Memory, Writing, Rows, Launched, MarkRunning, Alive, ctxDone
<1>11. Launched(r)'
  BY <1>1, <1>7 DEF RunInv, Launched, Rows, Memory, MarkRunning, TypeOK
<1>12. RunInv(r)'
  BY <1>8, <1>9, <1>10, <1>11 DEF RunInv
<1> QED
  BY <1>1, <1>4, <1>5, <1>6, <1>12, OneRun


LEMMA StepLaunch ==
    ASSUME IInv, TypeOK', NEW r \in Runs, Launch(r)
    PROVE  IInv'
<1>1. /\ TypeOK /\ Ordered /\ RunInv(r) /\ Alive
      /\ daemon' = daemon /\ row' = row /\ busy' = busy /\ Enqueue(r, "running")
  BY DEF IInv, Launch, UnchangedStore, Alive
<1>2. /\ (Alive' <=> Alive) /\ (ctxDone' <=> ctxDone)
  BY <1>1 DEF Alive, ctxDone
<1>3. \A l \in Kinds : In(r, l) => MayFollow([run |-> r, kind |-> l], [run |-> r, kind |-> "running"])
  BY <1>1 DEF Launch, RunInv, Memory, Writing, Rows, MayFollow, Kinds
<1>4. /\ Ordered'
      /\ \A s \in Runs, l \in Kinds : s # r \/ l # "running" => (In(s, l)' <=> In(s, l))
      /\ In(r, "running") => In(r, "running")'
      /\ ~ctxDone => In(r, "running")'
  BY <1>1, <1>3, Queued DEF Kinds
<1>5. /\ \A s \in Runs : s # r => \A l \in Kinds : In(s, l)' <=> In(s, l)
      /\ In(r, "create")' <=> In(r, "create")
      /\ In(r, "ended")' <=> In(r, "ended")
      /\ In(r, "flush")' <=> In(r, "flush")
  BY <1>4, KindFacts DEF Kinds
<1>6. \A s \in Runs : s # r =>
         /\ life'[s] = life[s] /\ row'[s] = row[s] /\ launches'[s] = launches[s]
         /\ s \in turned' <=> s \in turned
  BY <1>1 DEF Launch, Advance, TypeOK
<1>7. launches'[r] = launches[r] + 1 /\ turned' = turned /\ life'[r] = "spawned"
  BY <1>1 DEF Launch, Advance, TypeOK
<1>8. Memory(r)'
  BY <1>1, <1>2, <1>7 DEF RunInv, Memory, Launch, Alive, ctxDone
<1>9. Writing(r)'
  BY <1>1, <1>2, <1>4, <1>5, <1>7 DEF RunInv, Memory, Writing, Launch, Alive, ctxDone
<1>10. Rows(r)'
  BY <1>1, <1>2, <1>4, <1>5, <1>7 DEF RunInv, Memory, Writing, Rows, Launched, Launch, Alive, ctxDone
<1>11. Launched(r)'
  BY <1>1, <1>7 DEF RunInv, Launched, Rows, Memory, Launch, TypeOK
<1>12. RunInv(r)'
  BY <1>8, <1>9, <1>10, <1>11 DEF RunInv
<1> QED
  BY <1>1, <1>4, <1>5, <1>6, <1>12, OneRun


LEMMA StepMarkEnded ==
    ASSUME IInv, TypeOK', NEW r \in Runs, MarkEnded(r)
    PROVE  IInv'
<1>1. /\ TypeOK /\ Ordered /\ RunInv(r) /\ Alive
      /\ daemon' = daemon /\ row' = row /\ busy' = busy /\ Enqueue(r, "ended")
  BY DEF IInv, MarkEnded, UnchangedStore, Alive
<1>2. /\ (Alive' <=> Alive) /\ (ctxDone' <=> ctxDone)
  BY <1>1 DEF Alive, ctxDone
<1>3. \A l \in Kinds : In(r, l) => MayFollow([run |-> r, kind |-> l], [run |-> r, kind |-> "ended"])
  BY <1>1 DEF MarkEnded, RunInv, Memory, Writing, Rows, MayFollow, Kinds
<1>4. /\ Ordered'
      /\ \A s \in Runs, l \in Kinds : s # r \/ l # "ended" => (In(s, l)' <=> In(s, l))
      /\ In(r, "ended") => In(r, "ended")'
      /\ ~ctxDone => In(r, "ended")'
  BY <1>1, <1>3, Queued DEF Kinds
<1>5. /\ \A s \in Runs : s # r => \A l \in Kinds : In(s, l)' <=> In(s, l)
      /\ In(r, "create")' <=> In(r, "create")
      /\ In(r, "running")' <=> In(r, "running")
      /\ In(r, "flush")' <=> In(r, "flush")
  BY <1>4, KindFacts DEF Kinds
<1>6. \A s \in Runs : s # r =>
         /\ life'[s] = life[s] /\ row'[s] = row[s] /\ launches'[s] = launches[s]
         /\ s \in turned' <=> s \in turned
  BY <1>1 DEF MarkEnded, Advance, TypeOK
<1>7. launches' = launches /\ turned' = turned /\ life'[r] = "closed"
  BY <1>1 DEF MarkEnded, Advance, TypeOK
<1>8. Memory(r)'
  BY <1>1, <1>2, <1>7 DEF RunInv, Memory, MarkEnded, Alive, ctxDone
<1>9. Writing(r)'
  BY <1>1, <1>2, <1>4, <1>5, <1>7 DEF RunInv, Memory, Writing, MarkEnded, Alive, ctxDone
<1>10. Rows(r)'
  BY <1>1, <1>2, <1>4, <1>5, <1>7 DEF RunInv, Memory, Writing, Rows, Launched, MarkEnded, Alive, ctxDone
<1>11. Launched(r)'
  BY <1>1, <1>7 DEF RunInv, Launched, Rows, Memory, MarkEnded, TypeOK
<1>12. RunInv(r)'
  BY <1>8, <1>9, <1>10, <1>11 DEF RunInv
<1> QED
  BY <1>1, <1>4, <1>5, <1>6, <1>12, OneRun

LEMMA StepStart ==
    ASSUME IInv, TypeOK', NEW r \in Runs, Start(r)
    PROVE  IInv'
<1>1. /\ TypeOK /\ Ordered /\ RunInv(r) /\ Alive
      /\ daemon' = daemon /\ row' = row /\ launches' = launches /\ busy' = busy /\ ch' = ch
  BY DEF IInv, Start, Advance, UnchangedStore, Alive
<1>2. /\ (Alive' <=> Alive) /\ (ctxDone' <=> ctxDone)
  BY <1>1 DEF Alive, ctxDone
<1>3. Ordered' /\ \A s, l : In(s, l)' <=> In(s, l)
  BY <1>1, SamePipe, SameQueue
<1>4. \A s \in Runs : s # r =>
         /\ life'[s] = life[s] /\ row'[s] = row[s] /\ launches'[s] = launches[s]
         /\ s \in turned' <=> s \in turned
  BY <1>1 DEF Start, Advance, UnchangedStore, TypeOK
<1>5. turned' = turned /\ life[r] = "waiting" /\ life'[r] = "started"
  BY <1>1 DEF Start, Advance, UnchangedStore, TypeOK
<1>6. Memory(r)'
  BY <1>1, <1>2, <1>5 DEF RunInv, Memory, Alive, ctxDone, Start
<1>7. Writing(r)'
  BY <1>1, <1>2, <1>3, <1>5 DEF RunInv, Memory, Writing, Rows
<1>8. Rows(r)'
  BY <1>1, <1>2, <1>3, <1>5 DEF RunInv, Memory, Writing, Rows, Alive, ctxDone, Start
<1>9. Launched(r)'
  BY <1>1, <1>5 DEF RunInv, Memory, Launched
<1>10. RunInv(r)'
  BY <1>6, <1>7, <1>8, <1>9 DEF RunInv
<1> QED
  BY <1>1, <1>3, <1>4, <1>10, OneRun

LEMMA StepOrphan ==
    ASSUME IInv, TypeOK', NEW r \in Runs, Orphan(r)
    PROVE  IInv'
<1>1. /\ TypeOK /\ Ordered /\ RunInv(r) /\ Alive
      /\ daemon' = daemon /\ row' = row /\ launches' = launches /\ busy' = busy /\ ch' = ch
  BY DEF IInv, Orphan, Advance, UnchangedStore, Alive
<1>2. /\ (Alive' <=> Alive) /\ (ctxDone' <=> ctxDone)
  BY <1>1 DEF Alive, ctxDone
<1>3. Ordered' /\ \A s, l : In(s, l)' <=> In(s, l)
  BY <1>1, SamePipe, SameQueue
<1>4. \A s \in Runs : s # r =>
         /\ life'[s] = life[s] /\ row'[s] = row[s] /\ launches'[s] = launches[s]
         /\ s \in turned' <=> s \in turned
  BY <1>1 DEF Orphan, Advance, UnchangedStore, TypeOK
<1>5. turned' = turned \cup {r} /\ life[r] = "waiting" /\ life'[r] = "returned"
  BY <1>1 DEF Orphan, Advance, UnchangedStore, TypeOK
<1>6. Memory(r)'
  BY <1>1, <1>2, <1>5 DEF RunInv, Memory, Alive, ctxDone, Orphan
<1>7. Writing(r)'
  BY <1>1, <1>2, <1>3, <1>5 DEF RunInv, Memory, Writing, Rows
<1>8. Rows(r)'
  BY <1>1, <1>2, <1>3, <1>5 DEF RunInv, Memory, Writing, Rows, Alive, ctxDone, Orphan
<1>9. Launched(r)'
  BY <1>1, <1>5 DEF RunInv, Memory, Launched
<1>10. RunInv(r)'
  BY <1>6, <1>7, <1>8, <1>9 DEF RunInv
<1> QED
  BY <1>1, <1>3, <1>4, <1>10, OneRun

LEMMA StepReturn ==
    ASSUME IInv, TypeOK', NEW r \in Runs, Return(r)
    PROVE  IInv'
<1>1. /\ TypeOK /\ Ordered /\ RunInv(r) /\ Alive
      /\ daemon' = daemon /\ row' = row /\ launches' = launches /\ busy' = busy /\ ch' = ch
  BY DEF IInv, Return, Advance, UnchangedStore, Alive
<1>2. /\ (Alive' <=> Alive) /\ (ctxDone' <=> ctxDone)
  BY <1>1 DEF Alive, ctxDone
<1>3. Ordered' /\ \A s, l : In(s, l)' <=> In(s, l)
  BY <1>1, SamePipe, SameQueue
<1>4. \A s \in Runs : s # r =>
         /\ life'[s] = life[s] /\ row'[s] = row[s] /\ launches'[s] = launches[s]
         /\ s \in turned' <=> s \in turned
  BY <1>1 DEF Return, Advance, UnchangedStore, TypeOK
<1>5. turned' = turned /\ life[r] \in {"cleared", "spawned"} /\ life'[r] = "returned"
  BY <1>1 DEF Return, Advance, UnchangedStore, TypeOK
<1>6. Memory(r)'
  BY <1>1, <1>2, <1>5 DEF RunInv, Memory, Alive, ctxDone, Return
<1>7. Writing(r)'
  BY <1>1, <1>2, <1>3, <1>5 DEF RunInv, Memory, Writing, Rows
<1>8. Rows(r)'
  BY <1>1, <1>2, <1>3, <1>5 DEF RunInv, Memory, Writing, Rows, Alive, ctxDone, Return
<1>9. Launched(r)'
  BY <1>1, <1>5 DEF RunInv, Memory, Launched
<1>10. RunInv(r)'
  BY <1>6, <1>7, <1>8, <1>9 DEF RunInv
<1> QED
  BY <1>1, <1>3, <1>4, <1>10, OneRun

LEMMA StepFlushAbandoned ==
    ASSUME IInv, TypeOK', NEW r \in Runs, FlushAbandoned(r)
    PROVE  IInv'
<1>1. /\ TypeOK /\ Ordered /\ RunInv(r) /\ Alive
      /\ daemon' = daemon /\ row' = row /\ launches' = launches /\ busy' = busy /\ ch' = ch
  BY DEF IInv, FlushAbandoned, Advance, Released, ctxDone, Alive
<1>2. /\ (Alive' <=> Alive) /\ (ctxDone' <=> ctxDone)
  BY <1>1 DEF Alive, ctxDone
<1>3. Ordered' /\ \A s, l : In(s, l)' <=> In(s, l)
  BY <1>1, SamePipe, SameQueue
<1>4. \A s \in Runs : s # r =>
         /\ life'[s] = life[s] /\ row'[s] = row[s] /\ launches'[s] = launches[s]
         /\ s \in turned' <=> s \in turned
  BY <1>1 DEF FlushAbandoned, Advance, Released, ctxDone, TypeOK
<1>5. /\ turned' = turned /\ ctxDone
      /\ \/ life[r] = "flushing" /\ life'[r] = "cleared"
         \/ life[r] = "settling" /\ life'[r] = "over"
  BY <1>1 DEF FlushAbandoned, Advance, Released, ctxDone, TypeOK
<1>6. Memory(r)'
  BY <1>1, <1>2, <1>5 DEF RunInv, Memory, Alive, ctxDone, FlushAbandoned
<1>7. Writing(r)'
  BY <1>1, <1>2, <1>3, <1>5 DEF RunInv, Memory, Writing, Rows
<1>8. Rows(r)'
  BY <1>1, <1>2, <1>3, <1>5 DEF RunInv, Memory, Writing, Rows, Alive, ctxDone, FlushAbandoned
<1>9. Launched(r)'
  BY <1>1, <1>5 DEF RunInv, Memory, Launched
<1>10. RunInv(r)'
  BY <1>6, <1>7, <1>8, <1>9 DEF RunInv
<1> QED
  BY <1>1, <1>3, <1>4, <1>10, OneRun

LEMMA StepAwaitRunning ==
    ASSUME IInv, TypeOK', NEW r \in Runs, AwaitRunning(r)
    PROVE  IInv'
<1>1. /\ TypeOK /\ Ordered /\ RunInv(r) /\ Alive /\ turned' = turned /\ launches' = launches
      /\ daemon' = daemon /\ row' = row /\ busy' = busy /\ life[r] = "marked"
  BY DEF IInv, AwaitRunning, UnchangedStore, Alive
<1>2. /\ (Alive' <=> Alive) /\ (ctxDone' <=> ctxDone)
  BY <1>1 DEF Alive, ctxDone
<1>3. \A s \in Runs : s # r =>
         /\ life'[s] = life[s] /\ row'[s] = row[s] /\ launches'[s] = launches[s]
         /\ s \in turned' <=> s \in turned
  BY <1>1 DEF AwaitRunning, Flush, Advance, TypeOK
<1>4. CASE Enqueue(r, "flush") /\ ch' # ch /\ Advance(r, "flushing")
  <2>1. life'[r] = "flushing"
    BY <1>1, <1>4 DEF Advance, TypeOK
  <2>2. \A l \in Kinds : In(r, l) => MayFollow([run |-> r, kind |-> l], [run |-> r, kind |-> "flush"])
    BY <1>1 DEF RunInv, Writing, MayFollow, Kinds
  <2>3. /\ Ordered'
        /\ \A s \in Runs, l \in Kinds : s # r \/ l # "flush" => (In(s, l)' <=> In(s, l))
        /\ In(r, "flush") => In(r, "flush")'
    BY <1>1, <1>4, <2>2, Queued DEF Kinds
  <2>4. /\ \A s \in Runs : s # r => \A l \in Kinds : In(s, l)' <=> In(s, l)
        /\ In(r, "create")' <=> In(r, "create")
        /\ In(r, "running")' <=> In(r, "running")
        /\ In(r, "ended")' <=> In(r, "ended")
    BY <2>3, KindFacts DEF Kinds
  <2>5. Memory(r)'
    BY <1>1, <1>2, <2>1 DEF RunInv, Memory
  <2>6. Writing(r)'
    BY <1>1, <1>2, <2>1, <2>4 DEF RunInv, Memory, Writing
  <2>7. Rows(r)'
    BY <1>1, <1>2, <2>1, <2>4 DEF RunInv, Memory, Writing, Rows
  <2>8. Launched(r)'
    BY <1>1, <2>1 DEF RunInv, Launched
  <2>9. RunInv(r)'
    BY <2>5, <2>6, <2>7, <2>8 DEF RunInv
  <2> QED
    BY <1>1, <1>3, <2>3, <2>4, <2>9, OneRun
<1>5. CASE ctxDone /\ ch' = ch /\ Advance(r, "cleared")
  <2>1. life'[r] = "cleared"
    BY <1>1, <1>5 DEF Advance, TypeOK
  <2>2. Ordered' /\ \A s, l : In(s, l)' <=> In(s, l)
    BY <1>1, <1>5, SamePipe, SameQueue
  <2>3. RunInv(r)'
    BY <1>1, <1>2, <1>5, <2>1, <2>2 DEF RunInv, Memory, Writing, Rows, Launched
  <2> QED
    BY <1>1, <1>3, <2>2, <2>3, OneRun
<1> QED
  BY <1>4, <1>5 DEF AwaitRunning, Flush

LEMMA StepAwaitEnded ==
    ASSUME IInv, TypeOK', NEW r \in Runs, AwaitEnded(r)
    PROVE  IInv'
<1>1. /\ TypeOK /\ Ordered /\ RunInv(r) /\ Alive /\ turned' = turned /\ launches' = launches
      /\ daemon' = daemon /\ row' = row /\ busy' = busy /\ life[r] = "closed"
  BY DEF IInv, AwaitEnded, UnchangedStore, Alive
<1>2. /\ (Alive' <=> Alive) /\ (ctxDone' <=> ctxDone)
  BY <1>1 DEF Alive, ctxDone
<1>3. \A s \in Runs : s # r =>
         /\ life'[s] = life[s] /\ row'[s] = row[s] /\ launches'[s] = launches[s]
         /\ s \in turned' <=> s \in turned
  BY <1>1 DEF AwaitEnded, Flush, Advance, TypeOK
<1>4. CASE Enqueue(r, "flush") /\ ch' # ch /\ Advance(r, "settling")
  <2>1. life'[r] = "settling"
    BY <1>1, <1>4 DEF Advance, TypeOK
  <2>2. \A l \in Kinds : In(r, l) => MayFollow([run |-> r, kind |-> l], [run |-> r, kind |-> "flush"])
    BY <1>1 DEF RunInv, Writing, MayFollow, Kinds
  <2>3. /\ Ordered'
        /\ \A s \in Runs, l \in Kinds : s # r \/ l # "flush" => (In(s, l)' <=> In(s, l))
        /\ In(r, "flush") => In(r, "flush")'
    BY <1>1, <1>4, <2>2, Queued DEF Kinds
  <2>4. /\ \A s \in Runs : s # r => \A l \in Kinds : In(s, l)' <=> In(s, l)
        /\ In(r, "create")' <=> In(r, "create")
        /\ In(r, "running")' <=> In(r, "running")
        /\ In(r, "ended")' <=> In(r, "ended")
    BY <2>3, KindFacts DEF Kinds
  <2>5. Memory(r)'
    BY <1>1, <1>2, <2>1 DEF RunInv, Memory
  <2>6. Writing(r)'
    BY <1>1, <1>2, <2>1, <2>4 DEF RunInv, Memory, Writing
  <2>7. Rows(r)'
    BY <1>1, <1>2, <2>1, <2>4 DEF RunInv, Memory, Writing, Rows
  <2>8. Launched(r)'
    BY <1>1, <2>1 DEF RunInv, Launched
  <2>9. RunInv(r)'
    BY <2>5, <2>6, <2>7, <2>8 DEF RunInv
  <2> QED
    BY <1>1, <1>3, <2>3, <2>4, <2>9, OneRun
<1>5. CASE ctxDone /\ ch' = ch /\ Advance(r, "over")
  <2>1. life'[r] = "over"
    BY <1>1, <1>5 DEF Advance, TypeOK
  <2>2. Ordered' /\ \A s, l : In(s, l)' <=> In(s, l)
    BY <1>1, <1>5, SamePipe, SameQueue
  <2>3. RunInv(r)'
    BY <1>1, <1>2, <1>5, <2>1, <2>2 DEF RunInv, Memory, Writing, Rows, Launched
  <2> QED
    BY <1>1, <1>3, <2>2, <2>3, OneRun
<1> QED
  BY <1>4, <1>5 DEF AwaitEnded, Flush

LEMMA StepTake == ASSUME IInv, TypeOK', Take PROVE IInv'
<1>1. TypeOK /\ daemon' = daemon /\ row' = row /\ life' = life /\ turned' = turned
      /\ launches' = launches /\ Alive
  BY DEF IInv, Take
<1>2. Pipe' = Pipe
  BY <1>1, PipeTake
<1>3. Ordered' /\ \A s, l : In(s, l)' <=> In(s, l)
  BY <1>2, SamePipe DEF IInv
<1>4. \A s \in Runs : RunInv(s)'
  BY <1>1, <1>3, Frame DEF IInv
<1>5. Alive'
  BY <1>1 DEF Alive
<1> QED
  BY <1>3, <1>4, <1>5 DEF IInv

\* The write the worker applies, and what is left of its run behind it.
LEMMA Popped ==
    ASSUME IInv, Apply, NEW r \in Runs, busy[1].run = r
    PROVE  /\ Ordered'
           /\ \A s, l : In(s, l) <=> In(s, l)' \/ (s = r /\ l = busy[1].kind)
           /\ \A l \in Kinds : In(r, l)' =>
                 /\ l # "create" /\ busy[1].kind # "flush"
                 /\ busy[1].kind = "ended" => l = "flush"
<1>1. TypeOK /\ Ordered
  BY DEF IInv
<1>2. Pipe \in Seq(Writes) /\ Pipe # <<>> /\ Pipe' = Tail(Pipe)
      /\ Head(Pipe) = busy[1] /\ busy[1] \in Writes
  BY <1>1, PipeFacts, PipeApply
<1>3. \A s, l : Has(Pipe, s, l) <=> Has(Tail(Pipe), s, l) \/ (busy[1].run = s /\ busy[1].kind = l)
  BY <1>2, HasTail
<1>4. \A s, l : In(s, l) <=> In(s, l)' \/ (s = r /\ l = busy[1].kind)
  BY <1>2, <1>3 DEF In
<1>5. /\ Orderly(Tail(Pipe))
      /\ \A l \in Kinds : Has(Tail(Pipe), r, l) => MayFollow(busy[1], [run |-> r, kind |-> l])
  BY <1>1, <1>2, OrderlyTail DEF Ordered
<1>6. Ordered'
  BY <1>2, <1>5 DEF Ordered
<1>7. \A l \in Kinds : In(r, l)' => MayFollow(busy[1], [run |-> r, kind |-> l])
  BY <1>2, <1>5 DEF In
<1> QED
  BY <1>4, <1>6, <1>7 DEF MayFollow

LEMMA ApplyOf ==
    ASSUME WriteFailures = FALSE, IInv, TypeOK', Apply,
           NEW r \in Runs, NEW k \in Kinds, busy[1].run = r, busy[1].kind = k
    PROVE  IInv'
<1>1. /\ TypeOK /\ Alive /\ daemon' = daemon /\ turned' = turned /\ launches' = launches
  BY DEF IInv, Apply
<1>2. /\ Ordered'
      /\ \A s, l : In(s, l) <=> In(s, l)' \/ (s = r /\ l = k)
      /\ \A l \in Kinds : In(r, l)' =>
            /\ l # "create" /\ k # "flush"
            /\ k = "ended" => l = "flush"
  BY Popped
<1>3. RunInv(r)
  BY <1>2 DEF IInv
<1>4. /\ (Alive' <=> Alive) /\ (ctxDone' <=> ctxDone)
  BY <1>1 DEF Alive, ctxDone
<1>5. In(r, k)
  BY <1>2
<1>6. /\ ~In(r, "create")'
      /\ In(r, "create") <=> k = "create"
      /\ In(r, "running")' => In(r, "running") /\ k # "flush" /\ k # "ended"
      /\ In(r, "running") <=> In(r, "running")' \/ k = "running"
      /\ In(r, "ended")' => In(r, "ended") /\ k # "flush" /\ k # "ended"
      /\ In(r, "ended") <=> In(r, "ended")' \/ k = "ended"
      /\ In(r, "flush")' => In(r, "flush") /\ k # "flush"
      /\ In(r, "flush") <=> In(r, "flush")' \/ k = "flush"
  <2>1. /\ In(r, "create") <=> In(r, "create")' \/ k = "create"
        /\ In(r, "running") <=> In(r, "running")' \/ k = "running"
        /\ In(r, "ended") <=> In(r, "ended")' \/ k = "ended"
        /\ In(r, "flush") <=> In(r, "flush")' \/ k = "flush"
    BY <1>2
  <2>2. /\ ~In(r, "create")'
        /\ In(r, "running")' => k # "flush" /\ k # "ended"
        /\ In(r, "ended")' => k # "flush" /\ k # "ended"
        /\ In(r, "flush")' => k # "flush"
    BY <1>2 DEF Kinds
  <2> QED
    BY <2>1, <2>2
<1>7. \A s \in Runs : s # r =>
         /\ life'[s] = life[s] /\ row'[s] = row[s] /\ launches'[s] = launches[s]
         /\ s \in turned' <=> s \in turned
         /\ \A l \in Kinds : In(s, l)' <=> In(s, l)
  <2>1. \A s \in Runs : s # r => life'[s] = life[s] /\ row'[s] = row[s]
    BY <1>1 DEF Apply, Advance, TypeOK
  <2> QED
    BY <1>1, <1>2, <2>1
<1>8. CASE k = "flush"
  <2>1. row' = row /\ life'[r] = Released(r)
    BY <1>1, <1>2, <1>8 DEF Apply, Advance, TypeOK
  <2>2. Memory(r)'
    BY <1>1, <1>3, <1>4, <2>1 DEF RunInv, Memory, Released
  <2>3. Writing(r)'
    BY <1>6, <1>8 DEF Writing
  <2>4. Rows(r)'
    BY <1>1, <1>3, <1>4, <1>5, <1>6, <1>8, <2>1 DEF RunInv, Memory, Writing, Rows, Released
  <2>5. Launched(r)'
    <3>1. launches[r] # 0 => Released(r) = life[r] \/ Released(r) = "over"
      BY <1>3 DEF RunInv, Launched, Released
    <3> QED
      BY <1>1, <1>3, <2>1, <3>1 DEF RunInv, Launched
  <2>6. RunInv(r)'
    BY <2>2, <2>3, <2>4, <2>5 DEF RunInv
  <2> QED
    BY <1>1, <1>2, <1>7, <2>6, OneRun
<1>9. CASE k # "flush"
  <2>1. /\ life' = life
        /\ \/ row'[r] = Written(busy[1])
           \/ ctxDone /\ row'[r] = row[r]
    BY <1>1, <1>2, <1>9 DEF Apply, MayDrop, TypeOK
  <2>2. Written(busy[1]) = IF k = "create" THEN "pending"
                           ELSE IF row[r] = "none" THEN "none" ELSE k
    BY DEF Written
  <2>3. Memory(r)'
    BY <1>1, <1>3, <1>4, <2>1 DEF RunInv, Memory, Alive
  <2>4. Writing(r)'
    BY <1>1, <1>3, <1>4, <1>6, <2>1 DEF RunInv, Writing
  <2>5. CASE k = "create"
    <3>1. row[r] = "none" /\ (row'[r] = "pending" \/ (ctxDone /\ row'[r] = "none"))
      BY <1>3, <1>5, <2>1, <2>2, <2>5 DEF RunInv, Rows
    <3>2. Rows(r)'
      BY <1>1, <1>3, <1>4, <1>6, <2>1, <2>5, <3>1 DEF RunInv, Memory, Writing, Rows
    <3>3. Launched(r)'
      BY <1>1, <1>3, <2>1, <3>1 DEF RunInv, Launched
    <3> QED
      BY <2>3, <2>4, <3>2, <3>3, <1>1, <1>2, <1>7, OneRun DEF RunInv
  <2>6. CASE k = "running"
    <3>1. ~ctxDone /\ ~In(r, "create") /\ row[r] \in {"pending", "running"}
      BY <1>3, <1>5, <1>6, <2>6, <1>1 DEF RunInv, Memory, Writing, Rows, TypeOK
    <3>2. row'[r] = "running"
      BY <2>1, <2>2, <2>6, <3>1
    <3>3. Rows(r)'
      BY <1>1, <1>3, <1>4, <1>5, <1>6, <2>1, <2>6, <3>1, <3>2 DEF RunInv, Memory, Writing, Rows
    <3>4. Launched(r)'
      BY <1>1, <1>3, <2>1, <3>2 DEF RunInv, Launched
    <3> QED
      BY <2>3, <2>4, <3>3, <3>4, <1>1, <1>2, <1>7, OneRun DEF RunInv
  <2>7. CASE k = "ended"
    <3>1. ~In(r, "running")' /\ ~In(r, "create") /\ ~In(r, "running")
      BY <1>6, <2>7
    <3>2. /\ row'[r] = row[r] \/ row'[r] = "ended"
          /\ ~ctxDone => row'[r] = "ended"
          /\ r \notin turned => ~ctxDone /\ row'[r] = "ended"
      BY <1>1, <1>3, <1>5, <2>1, <2>2, <2>7, <3>1 DEF RunInv, Memory, Writing, Rows
    <3>3. Rows(r)'
      BY <1>1, <1>3, <1>4, <1>5, <1>6, <2>1, <2>7, <3>1, <3>2 DEF RunInv, Memory, Writing, Rows
    <3>4. Launched(r)'
      BY <1>1, <1>3, <2>1, <3>2 DEF RunInv, Launched
    <3> QED
      BY <2>3, <2>4, <3>3, <3>4, <1>1, <1>2, <1>7, OneRun DEF RunInv
  <2> QED
    BY <1>2, <1>9, <2>5, <2>6, <2>7 DEF Kinds
<1> QED
  BY <1>8, <1>9

LEMMA StepApply == ASSUME WriteFailures = FALSE, IInv, TypeOK', Apply PROVE IInv'
<1>1. busy[1] \in Writes
  BY PipeApply DEF IInv
<1>2. PICK r \in Runs, k \in Kinds : busy[1].run = r /\ busy[1].kind = k
  BY <1>1 DEF Writes, Kinds
<1> QED
  BY <1>2, ApplyOf

LEMMA EmptyPipe == Pipe = <<>> => Ordered /\ \A r, k : ~In(r, k)
<1>1. Len(<<>>) = 0 /\ 1 .. 0 = {}
  OBVIOUS
<1> QED
  BY <1>1 DEF Ordered, Orderly, In, Has

\* The shutdown begins, or the worker is gone: no run notices.
LEMMA StepPhase == ASSUME IInv, TypeOK', BeginShutdown \/ WorkerExit PROVE IInv'
<1>1. /\ row' = row /\ launches' = launches /\ life' = life /\ turned' = turned
      /\ ch' = ch /\ busy' = busy
      /\ Alive /\ Alive' /\ (ctxDone' <=> ctxDone)
      /\ daemon # "recovering" /\ daemon' # "recovering"
  BY DEF BeginShutdown, WorkerExit, Alive, ctxDone
<1>2. Ordered' /\ \A s, l : In(s, l)' <=> In(s, l)
  BY <1>1, SamePipe, SameQueue DEF IInv
<1>3. ASSUME NEW r \in Runs PROVE RunInv(r)'
  <2>1. RunInv(r)
    BY DEF IInv
  <2>2. Memory(r)'
    BY <1>1, <2>1 DEF RunInv, Memory
  <2>3. Writing(r)' /\ Rows(r)' /\ Launched(r)'
    BY <1>1, <1>2, <2>1 DEF RunInv, Writing, Rows, Launched
  <2> QED
    BY <2>2, <2>3 DEF RunInv
<1> QED
  BY <1>1, <1>2, <1>3 DEF IInv

\* The coordinator's ctx is cancelled: every run that executes is over by then.
LEMMA StepClose == ASSUME IInv, TypeOK', Close PROVE IInv'
<1>1. /\ row' = row /\ launches' = launches /\ life' = life /\ turned' = turned
      /\ ch' = ch /\ busy' = busy
      /\ Alive /\ Alive' /\ ctxDone' /\ ~ctxDone
      /\ daemon # "recovering" /\ daemon' # "recovering"
  BY DEF Close, Alive, ctxDone
<1>2. Ordered' /\ \A s, l : In(s, l)' <=> In(s, l)
  BY <1>1, SamePipe, SameQueue DEF IInv
<1>3. ASSUME NEW r \in Runs PROVE RunInv(r)'
  <2>1. RunInv(r)
    BY DEF IInv
  <2>2. r \notin turned => life[r] \in {"none", "waiting", "over"}
    BY DEF Close, Working
  <2>3. Memory(r)'
    BY <1>1, <2>1, <2>2 DEF RunInv, Memory
  <2>4. Writing(r)'
    BY <1>1, <1>2, <2>1 DEF RunInv, Writing
  <2>5. Rows(r)'
    BY <1>1, <1>2, <2>1 DEF RunInv, Rows
  <2>6. Launched(r)'
    BY <1>1, <2>1 DEF RunInv, Launched
  <2> QED
    BY <2>3, <2>4, <2>5, <2>6 DEF RunInv
<1> QED
  BY <1>1, <1>2, <1>3 DEF IInv

LEMMA StepCrash == ASSUME IInv, TypeOK', Crash PROVE IInv'
<1>1. /\ row' = row /\ launches' = launches /\ turned' = {} /\ daemon' = "off"
      /\ \A r \in Runs : life'[r] = "none"
      /\ ~Alive' /\ ~ctxDone'
  BY DEF Crash, Alive, ctxDone
<1>2. Pipe' = <<>>
  BY DEF Crash, Pipe
<1>3. Ordered' /\ \A r, k : ~In(r, k)'
  <2>1. Len(<<>>) = 0 /\ 1 .. 0 = {}
    OBVIOUS
  <2> QED
    BY <1>2, <2>1 DEF Ordered, Orderly, In, Has
<1>4. ASSUME NEW r \in Runs PROVE RunInv(r)'
  <2>1. Launched(r)
    BY DEF IInv, RunInv
  <2>2. Memory(r)' /\ Writing(r)' /\ Rows(r)'
    BY <1>1, <1>3 DEF Memory, Writing, Rows
  <2>3. Launched(r)'
    BY <1>1, <2>1 DEF Launched
  <2> QED
    BY <2>2, <2>3 DEF RunInv
<1> QED
  BY <1>1, <1>2, <1>3, <1>4 DEF IInv

LEMMA StepMarkCrashedRuns == ASSUME IInv, TypeOK', MarkCrashedRuns PROVE IInv'
<1>1. /\ launches' = launches /\ life' = life /\ turned' = turned /\ ch' = ch /\ busy' = busy
      /\ daemon = "off" /\ daemon' = "recovering"
      /\ ~Alive /\ ~ctxDone /\ ~Alive' /\ ~ctxDone'
      /\ \A r \in Runs : row'[r] = IF row[r] = "running" THEN "ended" ELSE row[r]
  BY DEF MarkCrashedRuns, Alive, ctxDone
<1>2. Pipe = <<>> /\ Pipe' = <<>>
  BY <1>1, SameQueue DEF IInv
<1>3. Ordered' /\ \A r, k : ~In(r, k)'
  BY <1>2, EmptyPipe, SamePipe
<1>4. ASSUME NEW r \in Runs PROVE RunInv(r)'
  <2>1. Memory(r) /\ Launched(r)
    BY DEF IInv, RunInv
  <2>2. Memory(r)' /\ Writing(r)'
    BY <1>1, <1>3, <2>1 DEF Memory, Writing
  <2>3. Rows(r)'
    BY <1>1, <1>3, <2>1 DEF Memory, Rows
  <2>4. Launched(r)'
    BY <1>1, <2>1 DEF Launched
  <2> QED
    BY <2>2, <2>3, <2>4 DEF RunInv
<1> QED
  BY <1>1, <1>2, <1>3, <1>4 DEF IInv

LEMMA StepResumePendingRuns ==
    ASSUME WriteFailures = FALSE, IInv, TypeOK', ResumePendingRuns
    PROVE  IInv'
<1>1. /\ row' = row /\ launches' = launches /\ ch' = ch /\ busy' = busy
      /\ daemon = "recovering" /\ daemon' = "up"
      /\ ~Alive /\ ~ctxDone /\ Alive' /\ ~ctxDone'
  BY DEF ResumePendingRuns, Alive, ctxDone
<1>2. Pipe = <<>> /\ Pipe' = Pipe
  BY <1>1, SameQueue DEF IInv
<1>3. Ordered' /\ \A r, k : ~In(r, k)'
  BY <1>2, EmptyPipe, SamePipe
<1>4. PICK fate \in [Pending -> {"waiting", "started", "returned"}] :
         /\ life' = [r \in Runs |-> IF r \in Pending THEN fate[r] ELSE life[r]]
         /\ turned' = {r \in Pending : fate[r] = "returned"}
  BY DEF ResumePendingRuns
<1>5. ASSUME NEW r \in Runs PROVE RunInv(r)'
  <2>1. Memory(r) /\ Launched(r) /\ life[r] = "none"
    BY <1>1 DEF IInv, RunInv, Memory
  <2>2. /\ row[r] # "running"
        /\ row[r] \in {"none", "pending", "ended"}
    BY <1>1, <2>1 DEF Memory, IInv, TypeOK
  <2>3. CASE row[r] = "pending"
    <3>1. /\ life'[r] \in {"waiting", "started", "returned"}
          /\ r \in turned' <=> life'[r] = "returned"
      BY <1>4, <2>3 DEF Pending
    <3>2. launches[r] = 0
      BY <2>1, <2>3 DEF Launched
    <3>3. Memory(r)' /\ Writing(r)'
      BY <1>1, <1>3, <3>1 DEF Memory, Writing
    <3>4. Rows(r)'
      BY <1>1, <1>3, <2>3, <3>1 DEF Rows
    <3>5. Launched(r)'
      BY <1>1, <3>2 DEF Launched
    <3> QED
      BY <3>3, <3>4, <3>5 DEF RunInv
  <2>4. CASE row[r] # "pending"
    <3>1. life'[r] = "none" /\ r \notin turned'
      BY <1>4, <2>1, <2>4 DEF Pending
    <3>2. Memory(r)' /\ Writing(r)'
      BY <1>1, <1>3, <3>1 DEF Memory, Writing
    <3>3. Rows(r)'
      BY <1>1, <1>3, <2>2, <2>4, <3>1 DEF Rows
    <3>4. Launched(r)'
      BY <1>1, <2>1, <3>1 DEF Launched
    <3> QED
      BY <3>2, <3>3, <3>4 DEF RunInv
  <2> QED
    BY <2>3, <2>4
<1> QED
  BY <1>1, <1>3, <1>5 DEF IInv

(***************************************************************************)
(* The inductive invariant                                                 *)
(***************************************************************************)
LEMMA InitInv == Init => IInv
<1> SUFFICES ASSUME Init PROVE IInv
  OBVIOUS
<1>1. TypeOK
  BY TypeInit
<1>2. Pipe = <<>> /\ ~Alive /\ ~ctxDone /\ daemon = "off"
  BY DEF Init, Pipe, Alive, ctxDone
<1>3. Ordered /\ \A r, k : ~In(r, k)
  BY <1>2, EmptyPipe
<1>4. ASSUME NEW r \in Runs PROVE RunInv(r)
  <2>1. row[r] = "none" /\ launches[r] = 0 /\ life[r] = "none" /\ turned = {}
    BY DEF Init
  <2> QED
    BY <1>2, <1>3, <2>1 DEF RunInv, Memory, Writing, Rows, Launched
<1> QED
  BY <1>1, <1>2, <1>3, <1>4 DEF IInv

LEMMA StepInv == ASSUME WriteFailures = FALSE PROVE IInv /\ [Next]_vars => IInv'
<1> SUFFICES ASSUME IInv, [Next]_vars PROVE IInv'
  OBVIOUS
<1>1. TypeOK'
  BY TypeStep DEF IInv
<1>2. CASE Take
  BY <1>1, <1>2, StepTake
<1>3. CASE Apply
  BY <1>1, <1>3, StepApply
<1>4. CASE WorkerExit \/ BeginShutdown
  BY <1>1, <1>4, StepPhase
<1>5. ASSUME NEW r \in Runs, Trigger(r) \/ Start(r) \/ Orphan(r) PROVE IInv'
  BY <1>1, <1>5, StepTrigger, StepStart, StepOrphan
<1>6. ASSUME NEW r \in Runs, RunStep(r) PROVE IInv'
  BY <1>1, <1>6, StepMarkRunning, StepAwaitRunning, StepLaunch, StepReturn, StepMarkEnded,
     StepAwaitEnded, StepFlushAbandoned DEF RunStep
<1>7. CASE Close
  BY <1>1, <1>7, StepClose
<1>8. CASE Crash
  BY <1>1, <1>8, StepCrash
<1>9. CASE Boot
  BY <1>1, <1>9, StepMarkCrashedRuns, StepResumePendingRuns DEF Boot
<1>10. CASE UNCHANGED vars
  <2>1. /\ row' = row /\ launches' = launches /\ life' = life /\ turned' = turned
        /\ ch' = ch /\ busy' = busy /\ daemon' = daemon
    BY <1>10 DEF vars
  <2>2. Pipe' = Pipe /\ (Alive' <=> Alive)
    BY <2>1, SameQueue DEF Alive
  <2>3. Ordered' /\ \A s, l : In(s, l)' <=> In(s, l)
    BY <2>2, SamePipe DEF IInv
  <2>4. \A r \in Runs : RunInv(r)'
    BY <2>1, <2>3, Frame DEF IInv
  <2> QED
    BY <1>1, <2>2, <2>3, <2>4 DEF IInv
<1> QED
  BY <1>2, <1>3, <1>4, <1>5, <1>6, <1>7, <1>8, <1>9, <1>10 DEF Next, Worker

(***************************************************************************)
(* The invariant behind the theorems below: types, and the pipe of writes  *)
(* of each run agreeing with its stage and its row (enqueueUpdate, Flush,  *)
(* applyWriteTask and the run goroutine around them).                      *)
(***************************************************************************)
THEOREM Inductive == ASSUME WriteFailures = FALSE PROVE Spec => []IInv
<1> QED
  BY InitInv, StepInv, PTL DEF Spec

(***************************************************************************)
(* What follows from it                                                    *)
(***************************************************************************)
\* While the daemon is up, a row that is not ended belongs to a run in memory:
\* the order of a boot, and the Flush before a terminal event, leave no run
\* "running" or "pending" that nobody will end.
THEOREM NoPhantoms == ASSUME WriteFailures = FALSE PROVE Spec => []NoPhantomRow
<1>1. IInv => NoPhantomRow
  BY DEF IInv, RunInv, Rows, NoPhantomRow, Alive, ctxDone
<1> QED
  BY <1>1, Inductive, PTL

\* After a graceful shutdown no row is "running", although a write in flight at
\* the end of it may be aborted.
THEOREM GracefulShutdown == ASSUME WriteFailures = FALSE PROVE Spec => []GracefulLeavesNoneRunning
<1>1. IInv => GracefulLeavesNoneRunning
  BY DEF IInv, RunInv, Memory, Rows, GracefulLeavesNoneRunning, Alive, ctxDone, TypeOK
<1> QED
  BY <1>1, Inductive, PTL

\* No run gets a second process, over all lives of the daemon: execute flushes
\* "running" before it launches, and a boot ends the rows that say so.
THEOREM OneProcess == ASSUME WriteFailures = FALSE PROVE Spec => []NoSecondProcess
<1>1. IInv => NoSecondProcess
  BY DEF IInv, RunInv, Launched, NoSecondProcess
<1> QED
  BY <1>1, Inductive, PTL

\* No event before its row: the terminal event of a run is published when its
\* row is "ended", as long as the coordinator is not being shut down.
THEOREM RowBeforeEvent == ASSUME WriteFailures = FALSE PROVE Spec => EventAfterRow
<1>1. ASSUME IInv, [Next]_vars, NEW r \in Runs,
             life[r] # "over", life'[r] = "over", daemon \in {"up", "closing"}
      PROVE  row'[r] = "ended"
  <2>1. IInv'
    BY <1>1, StepInv
  <2>2. TypeOK
    BY <1>1 DEF IInv
  <2>3. daemon' = daemon
    <3>1. CASE Take \/ Apply
      BY <3>1 DEF Take, Apply
    <3>2. CASE WorkerExit \/ BeginShutdown \/ Close \/ UNCHANGED vars
      BY <1>1, <3>2 DEF WorkerExit, BeginShutdown, Close, vars
    <3>3. ASSUME NEW s \in Runs, Trigger(s) \/ Start(s) \/ Orphan(s) \/ RunStep(s)
          PROVE  daemon' = daemon
      BY <3>3 DEF Trigger, Start, Orphan, RunStep, MarkRunning, AwaitRunning, Launch, Return,
                  MarkEnded, AwaitEnded, FlushAbandoned, UnchangedStore
    <3>4. CASE Crash
      BY <1>1, <3>4 DEF Crash
    <3>5. CASE Boot
      BY <1>1, <3>5 DEF Boot, MarkCrashedRuns, ResumePendingRuns
    <3> QED
      BY <1>1, <3>1, <3>2, <3>3, <3>4, <3>5 DEF Next, Worker
  <2> QED
    BY <1>1, <2>1, <2>3 DEF IInv, RunInv, Rows, ctxDone
<1>2. IInv /\ [Next]_vars =>
        [\A r \in Runs : life[r] # "over" /\ life'[r] = "over" /\ daemon \in {"up", "closing"}
            => row'[r] = "ended"]_vars
  BY <1>1
<1> QED
  BY <1>2, Inductive, PTL DEF Spec, EventAfterRow

\* A write the worker applies is a step of the record, or changes nothing.
LEMMA ApplyRecords ==
    ASSUME WriteFailures = FALSE, IInv, Apply,
           NEW r \in Runs, NEW k \in Kinds, busy[1].run = r, busy[1].kind = k
    PROVE  [Record!Next]_<<row, launches>>
<1>1. /\ TypeOK /\ RunInv(r) /\ launches' = launches /\ In(r, k)
  BY Popped DEF IInv, Apply
<1>2. row \in [Runs -> {"none", "pending", "running", "ended"}]
  BY <1>1 DEF TypeOK
<1>3. CASE row' = row
  BY <1>1, <1>3
<1>4. CASE row' # row
  <2>1. k # "flush" /\ row' = [row EXCEPT ![r] = Written(busy[1])]
    BY <1>4 DEF Apply
  <2>2. Written(busy[1]) # row[r]
    BY <1>2, <1>4, <2>1
  <2>3. CASE k = "create"
    <3>1. row[r] = "none" /\ Written(busy[1]) = "pending"
      BY <1>1, <2>3 DEF RunInv, Rows, Written
    <3>2. Record!Record(r)
      BY <1>1, <2>1, <3>1 DEF Record!Record
    <3> QED
      BY <3>2 DEF Record!Next
  <2>4. CASE k = "running"
    <3>1. row[r] = "pending" /\ Written(busy[1]) = "running"
      BY <1>1, <1>2, <2>2, <2>4 DEF RunInv, Rows, Written
    <3>2. Record!Begin(r)
      BY <1>1, <2>1, <3>1 DEF Record!Begin
    <3> QED
      BY <3>2 DEF Record!Next
  <2>5. CASE k = "ended"
    <3>1. row[r] \in {"pending", "running"} /\ Written(busy[1]) = "ended"
      BY <1>2, <2>2, <2>5 DEF Written
    <3>2. row' = [s \in Runs |-> IF s \in {r} THEN "ended" ELSE row[s]]
      BY <1>2, <2>1, <3>1
    <3>3. Record!Finish({r})
      BY <1>1, <3>1, <3>2 DEF Record!Finish
    <3> QED
      BY <3>3 DEF Record!Next
  <2> QED
    BY <2>1, <2>3, <2>4, <2>5 DEF Kinds
<1> QED
  BY <1>3, <1>4

LEMMA StepRecords ==
    ASSUME WriteFailures = FALSE
    PROVE  IInv /\ [Next]_vars => [Record!Next]_<<row, launches>>
<1> SUFFICES ASSUME IInv, [Next]_vars PROVE [Record!Next]_<<row, launches>>
  OBVIOUS
<1>1. CASE Apply
  <2>1. busy[1] \in Writes
    BY <1>1, PipeApply DEF IInv
  <2>2. PICK r \in Runs, k \in Kinds : busy[1].run = r /\ busy[1].kind = k
    BY <2>1 DEF Writes, Kinds
  <2> QED
    BY <1>1, <2>2, ApplyRecords
<1>2. ASSUME NEW r \in Runs, Launch(r) PROVE Record!Launch(r)
  <2>1. row' = row /\ life[r] = "cleared" /\ launches' = [launches EXCEPT ![r] = @ + 1]
    BY <1>2 DEF Launch, UnchangedStore
  <2>2. row[r] = "running" /\ launches[r] = 0
    BY <2>1 DEF IInv, RunInv, Rows, Launched
  <2> QED
    BY <2>1, <2>2 DEF Record!Launch
<1>3. CASE MarkCrashedRuns
  <2> DEFINE S == {r \in Runs : row[r] = "running"}
  <2>1. /\ S \in SUBSET Runs /\ launches' = launches
        /\ row' = [r \in Runs |-> IF r \in S THEN "ended" ELSE row[r]]
    BY <1>3 DEF MarkCrashedRuns
  <2>2. Record!Finish(S)
    BY <2>1 DEF Record!Finish
  <2> QED
    BY <2>1, <2>2 DEF Record!Next
<1>4. CASE Take \/ WorkerExit \/ BeginShutdown \/ Close \/ Crash \/ ResumePendingRuns
           \/ UNCHANGED vars
  BY <1>4 DEF Take, WorkerExit, BeginShutdown, Close, Crash, ResumePendingRuns, vars
<1>5. ASSUME NEW r \in Runs, Trigger(r) \/ Start(r) \/ Orphan(r) \/ MarkRunning(r)
             \/ AwaitRunning(r) \/ Return(r) \/ MarkEnded(r) \/ AwaitEnded(r) \/ FlushAbandoned(r)
      PROVE  UNCHANGED <<row, launches>>
  BY <1>5 DEF Trigger, Start, Orphan, MarkRunning, AwaitRunning, Return, MarkEnded, AwaitEnded,
              FlushAbandoned, UnchangedStore
<1>6. ASSUME NEW r \in Runs, Launch(r) PROVE Record!Next
  BY <1>2, <1>6 DEF Record!Next
<1> QED
  BY <1>1, <1>3, <1>4, <1>5, <1>6 DEF Next, Worker, Boot, RunStep

\* Whatever crashes and restarts come between, a reader of the runs table sees
\* a RunRecord: the detailed specification implements the abstract one.
THEOREM Refinement == ASSUME WriteFailures = FALSE PROVE Spec => RowsAreRecords
<1>1. Init => Record!Init
  BY DEF Init, Record!Init
<1> QED
  BY <1>1, StepRecords, Inductive, PTL DEF Spec, RowsAreRecords, Record!Spec

(***************************************************************************)
(* Nobody waits for good: the safety half of EventuallyAnnounced, whatever *)
(* writes fail.                                                            *)
(***************************************************************************)
\* A run at a barrier has its sentinel under way, until the coordinator shuts down.
Awaited == \A r \in Runs : life[r] \in {"flushing", "settling"} /\ ~ctxDone => In(r, "flush")

\* What the worker takes, or finishes.
WorkerMay == Alive /\ (busy # <<>> \/ (daemon # "down" /\ ch # <<>>))

\* Where the goroutine of run r is not held up by anybody.
RunMay(r) ==
    \/ life[r] \in {"started", "marked", "returned", "closed"} /\ (Len(ch) < Capacity \/ ctxDone)
    \/ life[r] \in {"cleared", "spawned"}
    \/ life[r] \in {"flushing", "settling"} /\ ctxDone

\* A send adds its write to the pipe, or is given up by a coordinator that shuts down.
LEMMA SendKeeps ==
    ASSUME TypeOK, NEW r \in Runs, NEW k \in Kinds, Enqueue(r, k), busy' = busy
    PROVE  /\ \A s, l : In(s, l) => In(s, l)'
           /\ In(r, k)' \/ (ctxDone /\ ch' = ch)
<1> DEFINE w == [run |-> r, kind |-> k]
<1>1. Pipe \in Seq(Writes) /\ w \in Writes /\ w.run = r /\ w.kind = k
  BY PipeFacts DEF Writes, Kinds
<1>2. CASE ch' = Append(ch, w)
  <2>1. Pipe' = Append(Pipe, w)
    BY <1>1, <1>2 DEF Pipe, TypeOK
  <2>2. \A s, l : Has(Append(Pipe, w), s, l) <=> Has(Pipe, s, l) \/ (r = s /\ k = l)
    BY <1>1, HasAppend
  <2> QED
    BY <2>1, <2>2 DEF In
<1>3. CASE ctxDone /\ ch' = ch
  <2>1. Pipe' = Pipe
    BY <1>3 DEF Pipe
  <2> QED
    BY <1>3, <2>1 DEF In
<1> QED
  BY <1>2, <1>3 DEF Enqueue

\* A step of one run on its way, not into a barrier.
LEMMA AwaitedKept ==
    ASSUME TypeOK, Awaited, NEW r \in Runs, NEW to, Advance(r, to),
           to \notin {"flushing", "settling"} \/ In(r, "flush")' \/ ctxDone,
           daemon' = daemon, \A s, l : In(s, l) => In(s, l)'
    PROVE  Awaited'
<1>1. \A s \in Runs : life'[s] = IF s = r THEN to ELSE life[s]
  BY DEF TypeOK, Advance
<1>2. ctxDone' <=> ctxDone
  BY DEF ctxDone
<1> QED
  BY <1>1, <1>2 DEF Awaited

LEMMA FlushKeeps ==
    ASSUME TypeOK, Awaited, NEW r \in Runs, NEW to, NEW after,
           after \notin {"flushing", "settling"}, Flush(r, to, after), UnchangedStore
    PROVE  Awaited'
<1>1. CASE Enqueue(r, "flush") /\ ch' # ch /\ Advance(r, to)
  BY <1>1, SendKeeps, AwaitedKept DEF Kinds, UnchangedStore
<1>2. CASE ctxDone /\ ch' = ch /\ Advance(r, after)
  BY <1>2, SameQueue, SamePipe, AwaitedKept DEF UnchangedStore
<1> QED
  BY <1>1, <1>2 DEF Flush

\* The worker passes the sentinel of one run: that run leaves the barrier.
LEMMA ApplyKeeps == ASSUME TypeOK, Awaited, Apply PROVE Awaited'
<1> DEFINE w == busy[1]
<1>1. Pipe \in Seq(Writes) /\ Pipe # <<>> /\ Pipe' = Tail(Pipe) /\ Head(Pipe) = w /\ w \in Writes
  BY PipeApply, PipeFacts
<1> HIDE DEF w
<1>2. \A r, k : In(r, k) => In(r, k)' \/ (w.run = r /\ w.kind = k)
  BY <1>1, HasTail DEF In
<1>3. w.run \in Runs /\ daemon' = daemon
  BY <1>1 DEF Writes, Apply
<1>4. ctxDone' <=> ctxDone
  BY <1>3 DEF ctxDone
<1>5. CASE w.kind = "flush"
  <2>1. life' = [life EXCEPT ![w.run] = Released(w.run)]
    BY <1>5 DEF Apply, Advance, w
  <2>2. Released(w.run) \notin {"flushing", "settling"}
    BY DEF Released
  <2>3. \A r \in Runs : life'[r] = IF r = w.run THEN Released(w.run) ELSE life[r]
    BY <2>1 DEF TypeOK
  <2> QED
    BY <1>2, <1>4, <2>2, <2>3 DEF Awaited
<1>6. CASE w.kind # "flush"
  <2>1. life' = life
    BY <1>6 DEF Apply, w
  <2> QED
    BY <1>2, <1>4, <1>6, <2>1 DEF Awaited
<1> QED
  BY <1>5, <1>6

LEMMA AwaitedStep == TypeOK /\ Awaited /\ [Next]_vars => Awaited'
<1> SUFFICES ASSUME TypeOK, Awaited, [Next]_vars PROVE Awaited'
  OBVIOUS
<1>1. CASE Take
  <2>1. Pipe' = Pipe /\ life' = life /\ daemon' = daemon
    BY <1>1, PipeTake DEF Take
  <2> QED
    BY <2>1 DEF Awaited, In, ctxDone
<1>2. CASE Apply
  BY <1>2, ApplyKeeps
<1>3. CASE WorkerExit \/ BeginShutdown \/ Close \/ MarkCrashedRuns \/ UNCHANGED vars
  <2>1. life' = life /\ ch' = ch /\ busy' = busy /\ (ctxDone => ctxDone')
    BY <1>3 DEF WorkerExit, BeginShutdown, Close, MarkCrashedRuns, vars, ctxDone
  <2> QED
    BY <2>1, SameQueue, SamePipe DEF Awaited
<1>4. CASE Crash
  BY <1>4 DEF Crash, Awaited
<1>5. CASE ResumePendingRuns
  <2>1. ch' = ch /\ busy' = busy /\ ~ctxDone
    BY <1>5 DEF ResumePendingRuns, ctxDone
  <2>2. ASSUME NEW r \in Runs, life'[r] \in {"flushing", "settling"} PROVE life[r] = life'[r]
    <3>1. CASE UNCHANGED <<life, turned>>
      BY <3>1
    <3>2. CASE ~ UNCHANGED <<life, turned>>
      <4>1. PICK fate \in [Pending -> {"waiting", "started", "returned"}] :
              life' = [s \in Runs |-> IF s \in Pending THEN fate[s] ELSE life[s]]
        BY <1>5, <3>2 DEF ResumePendingRuns
      <4>2. r \notin Pending
        BY <2>2, <4>1
      <4> QED
        BY <4>1, <4>2
    <3> QED
      BY <3>1, <3>2
  <2> QED
    BY <2>1, <2>2, SameQueue, SamePipe DEF Awaited
<1>6. ASSUME NEW r \in Runs, Trigger(r) PROVE Awaited'
  <2>1. Enqueue(r, "create") /\ busy' = busy /\ daemon' = daemon
    BY <1>6 DEF Trigger, UnchangedStore
  <2>2. \E to \in {"waiting", "started", "returned"} : Advance(r, to)
    BY <1>6 DEF Trigger, Advance
  <2> QED
    BY <2>1, <2>2, SendKeeps, AwaitedKept DEF Kinds
<1>7. ASSUME NEW r \in Runs, Start(r) \/ Orphan(r) \/ Return(r) PROVE Awaited'
  <2>1. ch' = ch /\ busy' = busy /\ daemon' = daemon
    BY <1>7 DEF Start, Orphan, Return, UnchangedStore
  <2>2. \E to \in {"started", "returned"} : Advance(r, to)
    BY <1>7 DEF Start, Orphan, Return
  <2> QED
    BY <2>1, <2>2, SameQueue, SamePipe, AwaitedKept
<1>8. ASSUME NEW r \in Runs, MarkRunning(r) \/ Launch(r) \/ MarkEnded(r) PROVE Awaited'
  <2>1. /\ \E k \in Kinds : Enqueue(r, k)
        /\ busy' = busy /\ daemon' = daemon
    BY <1>8 DEF MarkRunning, Launch, MarkEnded, UnchangedStore, Kinds
  <2>2. \E to \in {"marked", "spawned", "closed"} : Advance(r, to)
    BY <1>8 DEF MarkRunning, Launch, MarkEnded
  <2> QED
    BY <2>1, <2>2, SendKeeps, AwaitedKept
<1>9. ASSUME NEW r \in Runs, AwaitRunning(r) \/ AwaitEnded(r) PROVE Awaited'
  BY <1>9, FlushKeeps DEF AwaitRunning, AwaitEnded
<1>10. ASSUME NEW r \in Runs, FlushAbandoned(r) PROVE Awaited'
  <2>1. ctxDone /\ daemon' = daemon
    BY <1>10 DEF FlushAbandoned
  <2> QED
    BY <2>1 DEF Awaited, ctxDone
<1> QED
  BY <1>1, <1>2, <1>3, <1>4, <1>5, <1>6, <1>7, <1>8, <1>9, <1>10 DEF Next, Worker, RunStep, Boot

\* What is in the pipe the worker can take, unless it is gone.
LEMMA PipeMoves ==
    ASSUME TypeOK, Alive, daemon # "down", NEW r, NEW k, In(r, k)
    PROVE  WorkerMay
<1>1. Pipe # <<>>
  BY EmptyPipe
<1>2. busy # <<>> \/ ch # <<>>
  BY <1>1, PipeFacts
<1> QED
  BY <1>2 DEF WorkerMay

\* A run that has started and is not over can go on itself, or the worker can, and so
\* somebody can whom wg.Wait of a shutdown waits for.
RunsGoOn ==
    /\ Alive => \A r \in Runs : life[r] \notin {"none", "waiting", "over"} => RunMay(r) \/ WorkerMay
    /\ daemon = "closing" => Working = {} \/ WorkerMay \/ \E r \in Working : RunMay(r)

\* In a daemon that is up, shuts down or has cancelled the coordinator, a full channel,
\* the two Flush barriers, wg.Wait and a worker that leaves never hold each other up,
\* whatever writes fail.
THEOREM RunsAlwaysGoOn == Spec => []RunsGoOn
<1>1. ASSUME TypeOK, Awaited, Alive, NEW r \in Runs, life[r] \notin {"none", "waiting", "over"}
      PROVE  RunMay(r) \/ WorkerMay
  <2>1. CASE ctxDone
    BY <1>1, <2>1 DEF RunMay, TypeOK, Lives
  <2>2. CASE ~ctxDone /\ life[r] \in {"flushing", "settling"}
    BY <1>1, <2>2, PipeMoves DEF Awaited, ctxDone
  <2>3. CASE ~ctxDone /\ life[r] \in {"started", "marked", "returned", "closed"}
    <3>1. Capacity \in Nat \ {0} /\ Len(<<>>) = 0
      BY RunPersistenceAssumption
    <3>2. Len(ch) < Capacity \/ ch # <<>>
      BY <3>1
    <3> QED
      BY <1>1, <2>3, <3>2 DEF RunMay, WorkerMay, ctxDone
  <2>4. CASE life[r] \in {"cleared", "spawned"}
    BY <2>4 DEF RunMay
  <2> QED
    BY <1>1, <2>1, <2>2, <2>3, <2>4 DEF TypeOK, Lives
<1>2. TypeOK /\ Awaited => RunsGoOn
  BY <1>1 DEF RunsGoOn, Alive, Working
<1>3. Init => Awaited
  BY DEF Init, Awaited
<1> QED
  BY <1>2, <1>3, TypeInit, TypeStep, AwaitedStep, PTL DEF Spec
=============================================================================
