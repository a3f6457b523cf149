---------------------------- MODULE Notify_proofs ----------------------------
(***************************************************************************)
(* What holds of the notification pipeline for any number of services and  *)
(* events, any queue, window, limit and number of attempts: its types,     *)
(* that suppressed failures have a timer, that a reload leaves no gap,     *)
(* that a failure is in one place or has met one end, and that the guards  *)
(* of a service's stop never all fail.                                     *)
(***************************************************************************)
EXTENDS Notify, FiniteSetTheorems, TLAPS

LEMMA ConstantFacts ==
    /\ 1 \in Services /\ Services \subseteq Nat /\ 0 \notin Events /\ Events \subseteq Nat
    /\ Capacity \in Nat /\ Capacity >= 1 /\ MaxTries \in Nat /\ MaxTries >= 1
    /\ Window \in Nat /\ MaxTime \in Nat
  BY NotifyAssumption DEF Services, Events

-----------------------------------------------------------------------------
(***************************************************************************)
(* Types.  An attempt follows a backoff only while the retry budget lasts, *)
(* which TypeOK alone does not say.                                        *)
(***************************************************************************)
Sound(d) == d \in Deliveries /\ (d.stage = "waiting" => d.tries < MaxTries)
Waits == \A s \in Services : \A d \in deliveries[s] : d.stage = "waiting" => d.tries < MaxTries

QueueType == ingress \in [Services -> Seq(Events)] /\ queue \in [Services -> Seq(Events)]
             /\ \A s \in Services : Len(ingress[s]) <= Capacity /\ Len(queue[s]) <= Capacity
DeliveryType == deliveries \in [Services -> SUBSET Deliveries] /\ Waits
FateType == fate \in [Services -> [Events -> Fates]]
GroupType == /\ group \in [Services -> Groups]
             /\ armed \in [Services -> SUBSET [event : Events, due : Nat]]
             /\ fired \in [Services -> SUBSET Events]
BusType == /\ kind \in [Events -> {"none", "fail", "ok"}]
           /\ handlers \in [Events -> SUBSET Services]
           /\ copied \in [Events -> Services \cup {0}]
           /\ subscribed \subseteq Services
LifeType == /\ live \in Services /\ swapping \in BOOLEAN
            /\ shutdown \in {"no", "begun", "returned"} /\ deadline \in BOOLEAN
            /\ phase \in [Services -> {"new", "running", "detached", "draining", "closing", "closed"}]
            /\ dispatching \in [Services -> BOOLEAN] /\ working \in [Services -> BOOLEAN]

Typed == /\ now \in 0 .. MaxTime
         /\ BusType /\ LifeType /\ QueueType /\ GroupType /\ DeliveryType /\ FateType

LEMMA SettleType ==
    ASSUME FateType, NEW s \in Services, NEW evs, NEW f \in Fates, Settle(s, evs, f)
    PROVE  FateType'
  BY DEF FateType, Settle

\* What is added to the deliveries of a service must be a sound one.
LEMMA DeliveriesStep ==
    ASSUME DeliveryType, NEW s \in Services, NEW new,
           deliveries' = [deliveries EXCEPT ![s] = new],
           \A d \in new : d \in deliveries[s] \/ Sound(d)
    PROVE  DeliveryType'
<1>1. \A d \in new : Sound(d)
  BY DEF DeliveryType, Waits, Sound
<1>2. deliveries' \in [Services -> SUBSET Deliveries]
  BY <1>1 DEF DeliveryType, Sound
<1>3. ASSUME NEW q \in Services, NEW d \in deliveries'[q], d.stage = "waiting"
      PROVE  d.tries < MaxTries
  <2>1. CASE q = s
    BY <1>1, <1>3, <2>1 DEF DeliveryType, Sound
  <2>2. CASE q # s
    BY <1>3, <2>2 DEF DeliveryType, Waits
  <2> QED
    BY <2>1, <2>2
<1> QED
  BY <1>2, <1>3 DEF DeliveryType, Waits

\* A new delivery makes its first attempt.
LEMMA FirstAttempt ==
    ASSUME NEW by \in {"worker", "timer", "close"}, NEW evs \in SUBSET Events
    PROVE  Sound(Delivery(by, evs)) /\ Sound([Delivery(by, evs) EXCEPT !.stage = "owed"])
           /\ Delivery(by, evs).events = evs
           /\ [Delivery(by, evs) EXCEPT !.stage = "owed"].events = evs
  BY ConstantFacts DEF Sound, Delivery, Deliveries

LEMMA EndGroupsType ==
    ASSUME GroupType, DeliveryType, FateType, NEW s \in Services, NEW d, Sound(d),
           EndGroups(s, d), fired' = fired
    PROVE  GroupType' /\ DeliveryType' /\ FateType'
<1>1. NoGroup \in Groups
  BY DEF NoGroup, Groups
<1>2. GroupType'
  BY <1>1 DEF EndGroups, GroupType, Disarmed
<1>3. deliveries' = [deliveries EXCEPT ![s] = deliveries[s] \cup Owed(s, d)]
  BY DEF EndGroups
<1>4. \A x \in deliveries[s] \cup Owed(s, d) : x \in deliveries[s] \/ Sound(x)
  BY DEF Owed
<1> HIDE DEF Owed
<1>5. DeliveryType'
  BY <1>3, <1>4, DeliveriesStep
<1> QED
  BY <1>2, <1>5 DEF EndGroups, FateType

\* The two ways in which an event enters the queue.
Sends(s, e) ==
    /\ Len(queue[s]) < Capacity
    /\ queue' = [queue EXCEPT ![s] = Append(queue[s], e)] /\ fate' = fate
Evicts(s, e) ==
    /\ queue[s] # <<>>
    /\ queue' = [queue EXCEPT ![s] = Append(Tail(queue[s]), e)]
    /\ Settle(s, {Head(queue[s])}, "evicted")

LEMMA EnqueueCases ==
    ASSUME NEW s \in Services, NEW e, Enqueue(s, e) PROVE Sends(s, e) \/ Evicts(s, e)
  BY DEF Enqueue, Sends, Evicts

LEMMA EnqueueType ==
    ASSUME QueueType, FateType, NEW s \in Services, NEW e \in Events, Enqueue(s, e)
    PROVE  /\ queue' \in [Services -> Seq(Events)]
           /\ \A q \in Services : Len(queue'[q]) <= Capacity
           /\ FateType'
<1>1. CASE Sends(s, e)
  <2>1. queue[s] \in Seq(Events) /\ Len(queue[s]) \in Nat
    BY DEF QueueType
  <2>2. Append(queue[s], e) \in Seq(Events) /\ Len(Append(queue[s], e)) <= Capacity
    BY <1>1, <2>1, ConstantFacts DEF Sends
  <2> QED
    BY <1>1, <2>2 DEF Sends, QueueType, FateType
<1>2. CASE Evicts(s, e)
  <2>1. queue[s] \in Seq(Events) /\ Len(queue[s]) \in Nat /\ Len(queue[s]) <= Capacity /\ queue[s] # <<>>
    BY <1>2 DEF QueueType, Evicts
  <2>2. Tail(queue[s]) \in Seq(Events) /\ Len(Tail(queue[s])) = Len(queue[s]) - 1
    BY <2>1
  <2>3. Append(Tail(queue[s]), e) \in Seq(Events) /\ Len(Append(Tail(queue[s]), e)) <= Capacity
    BY <2>1, <2>2, ConstantFacts
  <2>4. FateType'
    BY <1>2, SettleType DEF Evicts, Fates
  <2> QED
    BY <1>2, <2>3, <2>4 DEF Evicts, QueueType
<1> QED
  BY <1>1, <1>2, EnqueueCases

\* The decision of the coalescing channel about a failure.
LEMMA DecideType ==
    ASSUME now \in 0 .. MaxTime, GroupType, DeliveryType, FateType,
           NEW s \in Services, NEW e \in Events, Decide(s, e), fired' = fired
    PROVE  GroupType' /\ DeliveryType' /\ FateType'
<1>1. group[s] \in Groups /\ now \in Nat /\ group[s].held \subseteq Events
      /\ group[s].since \in Nat
  BY ConstantFacts DEF GroupType, Groups
<1>2. ASSUME NEW evs \in SUBSET Events, Starts(s, evs) PROVE DeliveryType'
  <2>1. deliveries' = [deliveries EXCEPT ![s] = deliveries[s] \cup {Delivery("worker", evs)}]
    BY <1>2 DEF Starts
  <2>2. Sound(Delivery("worker", evs))
    BY FirstAttempt
  <2> QED
    BY <2>1, <2>2, DeliveriesStep
<1>3. CASE Forward(s, e)
  <2>1. [NoGroup EXCEPT !.open = TRUE, !.since = now] \in Groups
    BY <1>1 DEF NoGroup, Groups
  <2>2. GroupType'
    BY <1>3, <2>1 DEF Forward, GroupType
  <2> QED
    BY <1>2, <1>3, <2>2 DEF Forward, FateType
<1>4. CASE ForwardAfterDrift(s, e)
  <2>1. StopTimer([group[s] EXCEPT !.since = now, !.held = {}]) \in Groups
    BY <1>1 DEF StopTimer, Groups
  <2>2. GroupType'
    BY <1>4, <2>1 DEF ForwardAfterDrift, GroupType, Disarmed
  <2>3. FateType'
    BY <1>4, SettleType DEF ForwardAfterDrift, Fates
  <2> QED
    BY <1>2, <1>4, <2>2, <2>3 DEF ForwardAfterDrift
<1>5. CASE ForwardSummary(s, e)
  <2>1. StopTimer([group[s] EXCEPT !.since = now, !.held = {}]) \in Groups
    BY <1>1 DEF StopTimer, Groups
  <2>2. GroupType'
    BY <1>5, <2>1 DEF ForwardSummary, GroupType, Disarmed
  <2>3. group[s].held \cup {e} \in SUBSET Events
    BY <1>1
  <2> QED
    BY <1>2, <1>5, <2>2, <2>3 DEF ForwardSummary, FateType
<1>6. CASE Suppress(s, e)
  <2>1. CASE group[s].timer = 0
    <3>1. /\ group' = [group EXCEPT ![s].held = @ \cup {e}, ![s].timer = e]
          /\ armed' = [armed EXCEPT ![s] = @ \cup {[event |-> e, due |-> group[s].since + Window]}]
      BY <1>6, <2>1 DEF Suppress
    <3>2. [event |-> e, due |-> group[s].since + Window] \in [event : Events, due : Nat]
      BY <1>1, ConstantFacts
    <3>3. group' \in [Services -> Groups]
      BY <1>1, <3>1 DEF GroupType, Groups
    <3>4. armed' \in [Services -> SUBSET [event : Events, due : Nat]]
      BY <3>1, <3>2 DEF GroupType
    <3> QED
      BY <1>6, <3>3, <3>4 DEF Suppress, GroupType, DeliveryType, Waits, FateType
  <2>2. CASE group[s].timer # 0
    <3>1. group' = [group EXCEPT ![s].held = @ \cup {e}] /\ armed' = armed
      BY <1>6, <2>2 DEF Suppress
    <3>3. group' \in [Services -> Groups]
      BY <1>1, <3>1 DEF GroupType, Groups
    <3> QED
      BY <1>6, <3>1, <3>3 DEF Suppress, GroupType, DeliveryType, Waits, FateType
  <2> QED
    BY <2>1, <2>2
<1> QED
  BY <1>3, <1>4, <1>5, <1>6 DEF Decide

LEMMA WorkType ==
    ASSUME Typed, NEW s \in Services, Work(s) PROVE Typed'
<1> USE DEF Typed
<1>1. queue[s] \in Seq(Events) /\ queue[s] # <<>> /\ group[s].held \in SUBSET Events
  BY DEF QueueType, Work, GroupType, Groups
<1>2. Head(queue[s]) \in Events /\ Tail(queue[s]) \in Seq(Events)
      /\ Len(Tail(queue[s])) <= Len(queue[s])
  BY <1>1
<1>3. queue' = [queue EXCEPT ![s] = Tail(queue[s])] /\ ingress' = ingress
  BY DEF Work
<1>4. QueueType'
  <2>1. Len(queue[s]) \in Nat /\ Len(Tail(queue[s])) \in Nat
    BY <1>1, <1>2
  <2> QED
    BY <1>2, <1>3, <2>1, ConstantFacts DEF QueueType
<1>5. fired' = fired /\ now' = now
  BY DEF Work
<1>6. GroupType' /\ DeliveryType' /\ FateType'
  <2>1. CASE ResetTask(s)
    <3>1. Sound(Delivery("worker", group[s].held))
      BY <1>1, FirstAttempt
    <3> QED
      BY <1>5, <2>1, <3>1, EndGroupsType DEF ResetTask
  <2>2. CASE Decide(s, Head(queue[s]))
    BY <1>2, <1>5, <2>2, DecideType
  <2> QED
    BY <2>1, <2>2 DEF Work
<1>7. BusType' /\ LifeType'
  BY DEF Work, BusType, LifeType, bus, owner
<1> QED
  BY <1>4, <1>5, <1>6, <1>7

LEMMA DispatchType ==
    ASSUME Typed, NEW s \in Services, Dispatch(s) PROVE Typed'
<1> USE DEF Typed
<1>1. ingress[s] \in Seq(Events) /\ ingress[s] # <<>>
  BY DEF QueueType, Dispatch
<1>2. Head(ingress[s]) \in Events /\ Tail(ingress[s]) \in Seq(Events)
      /\ Len(Tail(ingress[s])) <= Len(ingress[s])
      /\ Len(ingress[s]) \in Nat /\ Len(Tail(ingress[s])) \in Nat
  BY <1>1
<1>3. ingress' = [ingress EXCEPT ![s] = Tail(ingress[s])] /\ Enqueue(s, Head(ingress[s]))
  BY DEF Dispatch
<1>4. /\ queue' \in [Services -> Seq(Events)]
      /\ \A q \in Services : Len(queue'[q]) <= Capacity
      /\ FateType'
  BY <1>2, <1>3, EnqueueType
<1>5. QueueType'
  <2>1. Len(ingress[s]) <= Capacity
    BY DEF QueueType
  <2>2. Len(Tail(ingress[s])) <= Capacity
    BY <1>2, <2>1, ConstantFacts
  <2>3. \A q \in Services : Len(ingress'[q]) <= Capacity
    BY <1>3, <2>2 DEF QueueType
  <2> QED
    BY <1>2, <1>3, <1>4, <2>3 DEF QueueType
<1>6. BusType' /\ LifeType' /\ GroupType' /\ DeliveryType' /\ now' = now
  BY DEF Dispatch, BusType, LifeType, GroupType, DeliveryType, Waits, bus, owner, coalescer
<1> QED
  BY <1>4, <1>5, <1>6

LEMMA OnBusEventType ==
    ASSUME Typed, NEW s \in Services, NEW e \in Events, OnBusEvent(s, e) PROVE Typed'
<1> USE DEF Typed
<1>1. FateType'
  <2>1. PICK f \in {"full", "closed", "accepted"} : Settle(s, {e}, f)
    BY DEF OnBusEvent
  <2> QED
    BY <2>1, SettleType DEF Fates
<1>2. QueueType'
  <2>1. CASE ingress' = ingress
    BY <2>1 DEF OnBusEvent, QueueType
  <2>2. CASE Len(ingress[s]) < Capacity /\ ingress' = [ingress EXCEPT ![s] = Append(ingress[s], e)]
    <3>1. queue' = queue
      BY DEF OnBusEvent
    <3>2. ingress[s] \in Seq(Events) /\ Len(ingress[s]) \in Nat
      BY DEF QueueType
    <3>3. Append(ingress[s], e) \in Seq(Events) /\ Len(Append(ingress[s], e)) <= Capacity
      BY <2>2, <3>2, ConstantFacts
    <3> QED
      BY <2>2, <3>1, <3>3 DEF QueueType
  <2> QED
    BY <2>1, <2>2 DEF OnBusEvent
<1>3. BusType'
  BY DEF OnBusEvent, BusType
<1>4. LifeType' /\ GroupType' /\ DeliveryType' /\ now' = now
  BY DEF OnBusEvent, LifeType, GroupType, DeliveryType, Waits, owner, coalescer
<1> QED
  BY <1>1, <1>2, <1>3, <1>4

LEMMA DeliverType ==
    ASSUME Typed, NEW s \in Services, Deliver(s) PROVE Typed'
<1> USE DEF Typed
<1>1. PICK d \in deliveries[s] : Attempt(s, d) \/ Backoff(s, d) \/ SendOwed(s, d)
  BY DEF Deliver
<1>2. Sound(d)
  BY DEF DeliveryType, Waits, Sound
<1>3. ASSUME NEW f \in Fates, Ends(s, d, f) PROVE DeliveryType' /\ FateType'
  <2>1. deliveries' = [deliveries EXCEPT ![s] = deliveries[s] \ {d}] /\ Settle(s, d.events, f)
    BY <1>3 DEF Ends
  <2>2. DeliveryType'
    BY <2>1, DeliveriesStep
  <2> QED
    BY <2>1, <2>2, SettleType
<1>4. ASSUME NEW e, Sound(e), Becomes(s, d, e) PROVE DeliveryType' /\ FateType'
  <2>1. deliveries' = [deliveries EXCEPT ![s] = (deliveries[s] \ {d}) \cup {e}] /\ fate' = fate
    BY <1>4 DEF Becomes
  <2>2. DeliveryType'
    BY <1>4, <2>1, DeliveriesStep
  <2> QED
    BY <2>1, <2>2 DEF FateType
<1>5. ASSUME Attempt(s, d) PROVE DeliveryType' /\ FateType'
  <2>1. d.tries < MaxTries => Sound([d EXCEPT !.stage = "waiting"])
    BY <1>2 DEF Sound, Deliveries
  <2>2. CASE \E f \in {"answered", "abandoned"} : Ends(s, d, f)
    BY <1>3, <2>2 DEF Fates
  <2>3. CASE d.tries < MaxTries /\ Becomes(s, d, [d EXCEPT !.stage = "waiting"])
    BY <1>4, <2>1, <2>3
  <2> QED
    BY <1>5, <2>2, <2>3 DEF Attempt
<1>6. ASSUME Backoff(s, d) PROVE DeliveryType' /\ FateType'
  <2>1. Sound([d EXCEPT !.stage = "attempt", !.tries = @ + 1])
    <3>1. d.tries \in 1 .. MaxTries /\ d.tries < MaxTries /\ d \in Deliveries
      BY <1>2, <1>6 DEF Backoff, Sound, Deliveries
    <3>2. d.tries + 1 \in 1 .. MaxTries
      BY <3>1, ConstantFacts
    <3> QED
      BY <3>1, <3>2 DEF Sound, Deliveries
  <2>2. CASE \E f \in {"answered", "abandoned"} : Ends(s, d, f)
    BY <1>3, <2>2 DEF Fates
  <2>3. CASE Becomes(s, d, [d EXCEPT !.stage = "attempt", !.tries = @ + 1])
    BY <1>4, <2>1, <2>3
  <2> QED
    BY <1>6, <2>2, <2>3 DEF Backoff
<1>7. ASSUME SendOwed(s, d) PROVE DeliveryType' /\ FateType'
  <2>1. Sound([d EXCEPT !.stage = "attempt"])
    BY <1>2 DEF Sound, Deliveries
  <2> QED
    BY <1>4, <1>7, <2>1 DEF SendOwed
<1>8. DeliveryType' /\ FateType'
  BY <1>1, <1>5, <1>6, <1>7
<1>9. BusType' /\ LifeType' /\ QueueType' /\ GroupType' /\ now' = now
  BY DEF Deliver, BusType, LifeType, QueueType, GroupType, bus, owner, pipe, coalescer
<1> QED
  BY <1>8, <1>9

LEMMA TimerType ==
    ASSUME Typed, NEW s \in Services, Timers(s) PROVE Typed'
<1> USE DEF Typed
<1>1. CASE TimerFires(s)
  <2>1. PICK t \in armed[s] : /\ armed' = [armed EXCEPT ![s] = @ \ {t}]
                              /\ fired' = [fired EXCEPT ![s] = @ \cup {t.event}]
    BY <1>1 DEF TimerFires
  <2>2. t.event \in Events
    BY DEF GroupType
  <2>3. GroupType'
    BY <1>1, <2>1, <2>2 DEF TimerFires, GroupType
  <2> QED
    BY <1>1, <2>3 DEF TimerFires, BusType, LifeType, QueueType, DeliveryType, Waits, FateType,
       bus, owner, pipe
<1>2. CASE TimerFlush(s)
  <2>1. group[s] \in Groups /\ NoGroup \in Groups /\ group[s].held \in SUBSET Events
    BY DEF GroupType, Groups, NoGroup
  <2>2. fired' \in [Services -> SUBSET Events] /\ armed' = armed
    BY <1>2 DEF TimerFlush, GroupType
  <2>3. GroupType' /\ DeliveryType'
    <3>1. CASE group[s].held = {}
      <4>1. group' \in [Services -> Groups] /\ deliveries' = deliveries
        BY <1>2, <2>1, <3>1 DEF TimerFlush, GroupType, Groups
      <4> QED
        BY <2>2, <4>1 DEF GroupType, DeliveryType, Waits
    <3>2. CASE group[s].held # {}
      <4>1. /\ group' = Flushed(s)
            /\ deliveries' = [deliveries EXCEPT
                                ![s] = deliveries[s] \cup {Delivery("timer", group[s].held)}]
        BY <1>2, <3>2 DEF TimerFlush
      <4>2. Sound(Delivery("timer", group[s].held))
        BY <2>1, FirstAttempt
      <4>3. DeliveryType'
        BY <4>1, <4>2, DeliveriesStep
      <4> QED
        BY <2>1, <2>2, <4>1, <4>3 DEF Flushed, GroupType
    <3> QED
      BY <3>1, <3>2
  <2> QED
    BY <1>2, <2>3 DEF TimerFlush, BusType, LifeType, QueueType, FateType, bus, owner, pipe
<1> QED
  BY <1>1, <1>2 DEF Timers

LEMMA StoppingType ==
    ASSUME Typed, NEW s \in Services, Stopping(s) PROVE Typed'
<1> USE DEF Typed
<1>1. CASE CloseIngress(s)
  BY <1>1 DEF CloseIngress, BusType, LifeType, QueueType, GroupType, DeliveryType, Waits, FateType,
     bus, owner, pipe, coalescer
<1>2. CASE CloseChannel(s)
  <2>1. group[s].held \in SUBSET Events
    BY DEF GroupType, Groups
  <2>2. Sound([Delivery("close", group[s].held) EXCEPT !.stage = "owed"])
    BY <2>1, FirstAttempt
  <2>3. GroupType' /\ DeliveryType' /\ FateType'
    BY <1>2, <2>2, EndGroupsType DEF CloseChannel
  <2> QED
    BY <1>2, <2>3 DEF CloseChannel, BusType, LifeType, QueueType, bus, owner, pipe
<1>3. CASE CloseInner(s)
  BY <1>3 DEF CloseInner, BusType, LifeType, QueueType, GroupType, DeliveryType, Waits, FateType,
     bus, owner, pipe, coalescer
<1> QED
  BY <1>1, <1>2, <1>3 DEF Stopping

\* The steps that leave queues, groups and deliveries alone.
LEMMA LifeStepType ==
    ASSUME Typed,
           \/ Reload \/ Shutdown \/ Tick
           \/ \E e \in Events, k \in {"fail", "ok"} : Publish(e, k)
           \/ \E s \in Services : DispatchExits(s) \/ WorkerExits(s)
    PROVE  Typed'
<1> USE DEF Typed
<1>s. live \in Services /\ (live + 1) - 1 = live
  BY ConstantFacts DEF LifeType
<1>1. QueueType' /\ GroupType' /\ DeliveryType' /\ FateType'
  BY DEF Reload, Swap, Start, Detach, Shutdown, BeginStop, Deadline, StopReturns, Tick, Publish,
     DispatchExits, WorkerExits, QueueType, GroupType, DeliveryType, Waits, FateType, pipe, coalescer
<1>2. BusType'
  BY <1>s DEF Reload, Swap, Start, Listeners, Detach, Shutdown, BeginStop, Deadline, StopReturns, Tick, Publish,
     DispatchExits, WorkerExits, BusType, bus
<1>3. LifeType'
  BY DEF Reload, Swap, Start, Detach, Shutdown, BeginStop, Deadline, StopReturns, Tick, Publish,
     DispatchExits, WorkerExits, LifeType, owner, pipe
<1>4. now' \in 0 .. MaxTime
  <2>1. now' = now \/ Tick
    BY DEF Reload, Swap, Detach, Shutdown, BeginStop, Deadline, StopReturns, Publish, DispatchExits,
       WorkerExits
  <2> QED
    BY <2>1, ConstantFacts DEF Tick
<1> QED
  BY <1>1, <1>2, <1>3, <1>4

LEMMA TypeInit == Init => Typed
<1> SUFFICES ASSUME Init PROVE Typed
  OBVIOUS
<1> USE DEF Typed
<1>1. now \in 0 .. MaxTime
  BY ConstantFacts DEF Init
<1>2. BusType /\ LifeType
  BY ConstantFacts DEF Init, BusType, LifeType
<1>3. QueueType /\ DeliveryType /\ FateType
  BY ConstantFacts DEF Init, QueueType, DeliveryType, Waits, FateType, Fates
<1>4. GroupType
  BY DEF Init, GroupType, Groups, NoGroup
<1> QED
  BY <1>1, <1>2, <1>3, <1>4

LEMMA TypeStep == Typed /\ [Next]_vars => Typed'
<1> SUFFICES ASSUME Typed, [Next]_vars PROVE Typed'
  OBVIOUS
<1>1. CASE Publisher
  BY <1>1, OnBusEventType, LifeStepType DEF Publisher
<1>2. CASE Reload \/ Shutdown \/ Tick
  BY <1>2, LifeStepType
<1>3. ASSUME NEW s \in Services, Pipeline(s) PROVE Typed'
  BY <1>3, DispatchType, WorkType, LifeStepType DEF Pipeline
<1>4. ASSUME NEW s \in Services, Timers(s) \/ Deliver(s) \/ Stopping(s) PROVE Typed'
  BY <1>4, TimerType, DeliverType, StoppingType
<1>5. CASE UNCHANGED vars
  BY <1>5 DEF Typed, vars, bus, owner, pipe, coalescer, BusType, LifeType, QueueType, GroupType,
     DeliveryType, Waits, FateType
<1> QED
  BY <1>1, <1>2, <1>3, <1>4, <1>5 DEF Next

\* Every variable keeps its type.
THEOREM TypeCorrect == Spec => []TypeOK
<1>1. Typed => TypeOK
  BY DEF Typed, TypeOK, BusType, LifeType, QueueType, GroupType, DeliveryType, FateType
<1> QED
  BY <1>1, TypeInit, TypeStep, PTL DEF Spec

-----------------------------------------------------------------------------
(***************************************************************************)
(* Suppressed failures have a timer.  HeldHasTimer is inductive with its   *)
(* converse for the mark: a group that names a timer holds something, so a *)
(* failure that finds a mark finds the timer of failures before it.        *)
(***************************************************************************)
Timed(s) ==
    /\ group[s].held # {} => group[s].timer \in {t.event : t \in armed[s]} \cup fired[s]
    /\ group[s].timer # 0 => group[s].held # {}
Watched == \A s \in Services : Timed(s)

\* A group that holds nothing and names no timer needs none.
LEMMA Quiet ==
    ASSUME NEW s, group'[s].held = {}, group'[s].timer = 0 PROVE Timed(s)'
  BY DEF Timed

LEMMA EndGroupsTimed ==
    ASSUME GroupType, NEW s \in Services, NEW d, EndGroups(s, d) PROVE Timed(s)'
<1>1. group'[s] = NoGroup
  BY DEF EndGroups, GroupType
<1> QED
  BY <1>1, Quiet DEF NoGroup

LEMMA DecideTimed ==
    ASSUME GroupType, NEW s \in Services, Timed(s), NEW e \in Events, Decide(s, e), fired' = fired
    PROVE  Timed(s)'
<1>1. /\ group[s] \in Groups /\ group \in [Services -> Groups]
      /\ armed \in [Services -> SUBSET [event : Events, due : Nat]]
  BY DEF GroupType
<1>2. CASE Forward(s, e)
  <2>1. group'[s] = [NoGroup EXCEPT !.open = TRUE, !.since = now]
    BY <1>1, <1>2 DEF Forward
  <2> QED
    BY <2>1, Quiet DEF NoGroup
<1>3. CASE ForwardAfterDrift(s, e) \/ ForwardSummary(s, e)
  <2>1. group'[s] = StopTimer([group[s] EXCEPT !.since = now, !.held = {}])
    BY <1>1, <1>3 DEF ForwardAfterDrift, ForwardSummary
  <2> QED
    BY <1>1, <2>1, Quiet DEF StopTimer, Groups
<1>4. CASE Suppress(s, e)
  <2>1. CASE group[s].timer = 0
    <3>1. /\ group' = [group EXCEPT ![s].held = @ \cup {e}, ![s].timer = e]
          /\ armed' = [armed EXCEPT ![s] = @ \cup {[event |-> e, due |-> group[s].since + Window]}]
      BY <1>4, <2>1 DEF Suppress
    <3>2. group'[s].timer = e /\ group'[s].held # {}
      BY <1>1, <3>1 DEF Groups
    <3>3. [event |-> e, due |-> group[s].since + Window] \in armed'[s]
      BY <1>1, <3>1
    <3>4. e \in {t.event : t \in armed'[s]}
      BY <3>3
    <3> QED
      BY <3>2, <3>4 DEF Timed
  <2>2. CASE group[s].timer # 0
    <3>1. group' = [group EXCEPT ![s].held = @ \cup {e}] /\ armed' = armed
      BY <1>4, <2>2 DEF Suppress
    <3>2. group'[s].timer = group[s].timer /\ group'[s].held # {}
      BY <1>1, <3>1 DEF Groups
    <3> QED
      BY <2>2, <3>1, <3>2 DEF Timed
  <2> QED
    BY <2>1, <2>2
<1> QED
  BY <1>2, <1>3, <1>4 DEF Decide

LEMMA TimersTimed ==
    ASSUME GroupType, NEW s \in Services, Timed(s), Timers(s) PROVE Timed(s)'
<1>1. /\ group \in [Services -> Groups] /\ group[s] \in Groups
      /\ armed \in [Services -> SUBSET [event : Events, due : Nat]]
      /\ fired \in [Services -> SUBSET Events]
  BY DEF GroupType
<1>2. CASE TimerFires(s)
  <2>1. PICK t \in armed[s] : /\ armed' = [armed EXCEPT ![s] = @ \ {t}]
                              /\ fired' = [fired EXCEPT ![s] = @ \cup {t.event}]
    BY <1>2 DEF TimerFires
  <2>2. group' = group
    BY <1>2 DEF TimerFires
  <2>3. ASSUME NEW u \in {x.event : x \in armed[s]} \cup fired[s]
        PROVE  u \in {x.event : x \in armed'[s]} \cup fired'[s]
    <3>1. armed'[s] = armed[s] \ {t} /\ fired'[s] = fired[s] \cup {t.event}
      BY <1>1, <2>1
    <3> QED
      BY <2>3, <3>1
  <2> QED
    BY <2>2, <2>3 DEF Timed
<1>3. CASE TimerFlush(s)
  <2>1. CASE group[s].held = {}
    <3>1. group' = [group EXCEPT ![s].timer = 0]
      BY <1>3, <2>1 DEF TimerFlush
    <3> QED
      BY <1>1, <2>1, <3>1, Quiet DEF Groups
  <2>2. CASE group[s].held # {}
    <3>1. group'[s] = NoGroup
      BY <1>1, <1>3, <2>2 DEF TimerFlush, Flushed
    <3> QED
      BY <3>1, Quiet DEF NoGroup
  <2> QED
    BY <2>1, <2>2
<1> QED
  BY <1>2, <1>3 DEF Timers

\* What a step does to the groups and timers of one service leaves the others alone.
LEMMA OthersTimed ==
    ASSUME GroupType, Watched, NEW s \in Services,
           Work(s) \/ Timers(s) \/ CloseChannel(s),
           NEW q \in Services \ {s}
    PROVE  Timed(q)'
<1>1. group'[q] = group[q] /\ armed'[q] = armed[q] /\ fired'[q] = fired[q]
  BY DEF GroupType, Work, ResetTask, EndGroups, Decide, Forward, ForwardAfterDrift,
     ForwardSummary, Suppress, Timers, TimerFires, TimerFlush, Flushed, CloseChannel
<1> QED
  BY <1>1 DEF Watched, Timed

LEMMA WatchedStep == Typed /\ Watched /\ [Next]_vars => Watched'
<1> SUFFICES ASSUME Typed, Watched, [Next]_vars PROVE Watched'
  OBVIOUS
<1>g. GroupType /\ QueueType
  BY DEF Typed
<1>w. \A s \in Services : Timed(s)
  BY DEF Watched
<1>1. ASSUME group' = group, armed' = armed, fired' = fired PROVE Watched'
  BY <1>1 DEF Watched, Timed
<1>2. CASE Publisher
  BY <1>1, <1>2 DEF Publisher, Publish, OnBusEvent, coalescer
<1>3. CASE Reload \/ Shutdown \/ Tick
  BY <1>1, <1>3 DEF Reload, Swap, Detach, Shutdown, BeginStop, Deadline, StopReturns, Tick, coalescer
<1>4. ASSUME NEW s \in Services, Work(s) PROVE Watched'
  <2>1. queue[s] \in Seq(Events) /\ queue[s] # <<>> /\ fired' = fired
    BY <1>4, <1>g DEF QueueType, Work
  <2>2. Head(queue[s]) \in Events
    BY <2>1
  <2>3. Timed(s)'
    <3>1. CASE ResetTask(s)
      BY <1>g, <3>1, EndGroupsTimed DEF ResetTask
    <3>2. CASE Decide(s, Head(queue[s]))
      BY <1>g, <1>w, <2>1, <2>2, <3>2, DecideTimed
    <3> QED
      BY <1>4, <3>1, <3>2 DEF Work
  <2> QED
    BY <1>4, <1>g, <2>3, OthersTimed DEF Watched
<1>5. ASSUME NEW s \in Services, Timers(s) PROVE Watched'
  <2>1. Timed(s)'
    BY <1>5, <1>g, <1>w, TimersTimed
  <2> QED
    BY <1>5, <1>g, <2>1, OthersTimed DEF Watched
<1>6. ASSUME NEW s \in Services, CloseChannel(s) PROVE Watched'
  <2>1. Timed(s)'
    BY <1>6, <1>g, EndGroupsTimed DEF CloseChannel
  <2> QED
    BY <1>6, <1>g, <2>1, OthersTimed DEF Watched
<1>7. ASSUME NEW s \in Services,
             Dispatch(s) \/ DispatchExits(s) \/ WorkerExits(s) \/ Deliver(s)
                \/ CloseIngress(s) \/ CloseInner(s)
      PROVE  Watched'
  BY <1>1, <1>7 DEF Dispatch, DispatchExits, WorkerExits, Deliver, CloseIngress, CloseInner, coalescer
<1>8. CASE UNCHANGED vars
  BY <1>1, <1>8 DEF vars, coalescer
<1> QED
  BY <1>2, <1>3, <1>4, <1>5, <1>6, <1>7, <1>8 DEF Next, Pipeline, Stopping

\* Suppressed failures are never left to themselves: a timer of their group is
\* armed, or its callback is on its way, whatever late callbacks of earlier groups do.
THEOREM SuppressedAreTimed == Spec => []HeldHasTimer
<1>1. Init => Watched
  BY DEF Init, Watched, Timed, NoGroup
<1>2. Watched => HeldHasTimer
  BY DEF Watched, Timed, HeldHasTimer
<1> QED
  BY <1>1, <1>2, TypeInit, TypeStep, WatchedStep, PTL DEF Spec

-----------------------------------------------------------------------------
(***************************************************************************)
(* A reload leaves no gap.  Until the shutdown the live service listens    *)
(* and runs, so a publisher's copy of the handlers holds the service that  *)
(* was live; when that one is taken off the copy it has answered, and it   *)
(* answers "closed" only when it is not the live one any more.             *)
(***************************************************************************)
Listening == shutdown = "no" => live \in subscribed /\ phase[live] = "running"
Called(e) ==
    /\ copied[e] \in Services /\ copied[e] <= live
    /\ \/ copied[e] \in handlers[e]
       \/ fate[copied[e]][e] \notin {"none", "closed"}
       \/ AcrossSwap(e)
Offering == Listening /\ (shutdown = "no" => \A e \in Published : Called(e))

\* A step that changes a fate without calling a service of the bus.
LEMMA CalledKept ==
    ASSUME Typed, NEW e \in Events, Called(e), copied' = copied, live' = live,
           handlers'[e] = handlers[e],
           fate' = fate \/ \E s \in Services, f \in Fates \ {"none", "closed"} :
                              \E evs : Settle(s, evs, f)
    PROVE  Called(e)'
<1>1. FateType
  BY DEF Typed
<1>2. copied[e] \in Services
  BY DEF Called
<1>3. fate'[copied[e]][e] = fate[copied[e]][e] \/ fate'[copied[e]][e] \notin {"none", "closed"}
  <2>1. CASE fate' = fate
    BY <2>1
  <2>2. ASSUME NEW s \in Services, NEW f \in Fates \ {"none", "closed"}, NEW evs, Settle(s, evs, f)
        PROVE  fate'[copied[e]][e] = fate[copied[e]][e] \/ fate'[copied[e]][e] \notin {"none", "closed"}
    BY <1>1, <1>2, <2>2 DEF FateType, Settle
  <2> QED
    BY <2>1, <2>2
<1> QED
  BY <1>2, <1>3 DEF Called, AcrossSwap

LEMMA OfferingStep == Typed /\ Offering /\ [Next]_vars => Offering'
<1> SUFFICES ASSUME Typed, Offering, [Next]_vars, shutdown' = "no" PROVE Offering'
  BY DEF Offering, Listening
<1>t. /\ BusType /\ LifeType /\ FateType
  BY DEF Typed
<1>0. shutdown = "no"
  BY DEF Next, Publisher, Publish, OnBusEvent, Reload, Swap, Detach, Shutdown, BeginStop, Deadline,
     StopReturns, Tick, Pipeline, Dispatch, DispatchExits, Work, WorkerExits, Timers, TimerFires,
     TimerFlush, Deliver, Stopping, CloseIngress, CloseChannel, CloseInner, vars, owner
<1>l. live \in subscribed /\ phase[live] = "running" /\ live \in Services /\ live \in Nat /\ live >= 1
  BY <1>0, <1>t, NotifyAssumption DEF Offering, Listening, LifeType, Services
<1>1. live' \in subscribed' /\ phase'[live'] = "running"
  <2>1. CASE Swap
    BY <1>t, <2>1 DEF Swap, Start, Listeners, LifeType
  <2>2. CASE Detach
    BY <1>t, <1>l, <2>2 DEF Detach, Listeners, LifeType
  <2>3. CASE BeginStop \/ Deadline \/ StopReturns
    BY <1>0, <2>3 DEF BeginStop, Deadline, StopReturns
  <2>4. CASE Publisher \/ Tick \/ UNCHANGED vars
    <3>1. live' = live /\ subscribed' = subscribed /\ phase' = phase
      BY <2>4 DEF Publisher, Publish, OnBusEvent, Tick, vars, bus, owner
    <3> QED
      BY <1>l, <3>1
  <2>5. ASSUME NEW s \in Services, Pipeline(s) \/ Timers(s) \/ Deliver(s)
        PROVE  live' \in subscribed' /\ phase'[live'] = "running"
    BY <1>l, <2>5 DEF Pipeline, Dispatch, DispatchExits, Work, WorkerExits, Timers, TimerFires,
       TimerFlush, Deliver, bus, owner
  <2>6. ASSUME NEW s \in Services, Stopping(s)
        PROVE  live' \in subscribed' /\ phase'[live'] = "running"
    BY <1>t, <1>l, <2>6 DEF Stopping, CloseIngress, CloseChannel, CloseInner, LifeType, bus, owner
  <2> QED
    BY <2>1, <2>2, <2>3, <2>4, <2>5, <2>6 DEF Next, Reload, Shutdown
<1>2. ASSUME NEW e \in Published' PROVE Called(e)'
  <2>0. e \in Events /\ kind'[e] # "none"
    BY <1>2 DEF Published
  <2>1. e \in Published => Called(e)
    BY <1>0 DEF Offering
  <2>2. ASSUME NEW x \in Events, NEW k \in {"fail", "ok"}, Publish(x, k) PROVE Called(e)'
    <3>1. CASE e = x
      <4>1. copied'[e] = live /\ handlers'[e] = subscribed /\ live' = live
        BY <1>t, <2>2, <3>1 DEF Publish, BusType, owner
      <4> QED
        BY <1>l, <4>1 DEF Called
    <3>2. CASE e # x
      <4>1. e \in Published /\ handlers'[e] = handlers[e] /\ copied'[e] = copied[e]
            /\ fate' = fate /\ live' = live
        BY <1>t, <2>0, <2>2, <3>2 DEF Publish, BusType, Published, owner
      <4> QED
        BY <2>1, <4>1 DEF Called, AcrossSwap
    <3> QED
      BY <3>1, <3>2
  <2>3. ASSUME NEW s \in Services, NEW x \in Events, OnBusEvent(s, x) PROVE Called(e)'
    <3>1. Called(e) /\ copied' = copied /\ live' = live /\ e \in Published
      BY <2>0, <2>1, <2>3 DEF OnBusEvent, Published, owner
    <3>2. PICK f \in {"full", "closed", "accepted"} :
              Settle(s, {x}, f) /\ (f = "closed" => IngressClosed(s))
      BY <2>3 DEF OnBusEvent
    <3>3. \A p \in Services : fate'[p][e] = IF p = s /\ e = x THEN f ELSE fate[p][e]
      BY <1>t, <2>0, <3>2 DEF Settle, FateType
    <3>4. handlers'[e] = (IF e = x THEN handlers[e] \ {s} ELSE handlers[e]) /\ s \in handlers[x]
      BY <1>t, <2>0, <2>3 DEF OnBusEvent, BusType
    <3>5. CASE e = x /\ copied[e] = s /\ f = "closed"
      <4>1. s # live
        BY <1>l, <3>2, <3>5 DEF IngressClosed
      <4>2. copied[e] < live
        BY <1>l, <3>1, <3>5, <4>1, NotifyAssumption DEF Called, Services
      <4> QED
        BY <3>1, <3>3, <3>5, <4>2 DEF Called, AcrossSwap
    <3>6. CASE e = x /\ copied[e] = s /\ f # "closed"
      BY <3>1, <3>2, <3>3, <3>6 DEF Called
    <3>7. CASE ~(e = x /\ copied[e] = s)
      BY <3>1, <3>3, <3>4, <3>7 DEF Called, AcrossSwap
    <3> QED
      BY <3>5, <3>6, <3>7
  <2>4. CASE Reload
    <3>1. kind' = kind /\ handlers' = handlers /\ copied' = copied /\ fate' = fate
          /\ (live' = live \/ live' = live + 1)
      BY <2>4 DEF Reload, Swap, Detach
    <3>2. Called(e) /\ copied[e] \in Nat
      BY <2>0, <2>1, <3>1, NotifyAssumption DEF Published, Called, Services
    <3> QED
      BY <1>l, <3>1, <3>2 DEF Called, AcrossSwap
  <2>5. CASE \/ Shutdown \/ Tick \/ UNCHANGED vars
             \/ \E s \in Services : DispatchExits(s) \/ WorkerExits(s) \/ Timers(s) \/ Stopping(s)
    <3>1. kind' = kind /\ handlers' = handlers /\ copied' = copied /\ fate' = fate /\ live' = live
      BY <2>5 DEF Shutdown, BeginStop, Deadline, StopReturns, Tick, vars, bus, owner, DispatchExits,
         WorkerExits, Timers, TimerFires, TimerFlush, Stopping, CloseIngress, CloseChannel, CloseInner,
         EndGroups
    <3> QED
      BY <2>0, <2>1, <3>1 DEF Published, Called, AcrossSwap
  <2>6. ASSUME NEW s \in Services, Dispatch(s) \/ Work(s) \/ Deliver(s) PROVE Called(e)'
    <3>1. kind' = kind /\ handlers' = handlers /\ copied' = copied /\ live' = live
      BY <2>6 DEF Dispatch, Work, Deliver, bus, owner
    <3>2. fate' = fate \/ \E f \in Fates \ {"none", "closed"} : \E evs : Settle(s, evs, f)
      <4>1. CASE Dispatch(s)
        BY <4>1 DEF Dispatch, Enqueue, Fates
      <4>2. CASE Work(s)
        BY <4>2 DEF Work, ResetTask, EndGroups, Decide, Forward, ForwardAfterDrift, ForwardSummary,
           Suppress, Fates
      <4>3. CASE Deliver(s)
        BY <4>3 DEF Deliver, Attempt, Backoff, SendOwed, Ends, Becomes, Fates
      <4> QED
        BY <2>6, <4>1, <4>2, <4>3
    <3>3. Called(e)
      BY <2>0, <2>1, <3>1 DEF Published
    <3> QED
      BY <2>0, <3>1, <3>2, <3>3, CalledKept
  <2> QED
    BY <2>2, <2>3, <2>4, <2>5, <2>6 DEF Next, Publisher, Pipeline
<1> QED
  BY <1>1, <1>2 DEF Offering, Listening

\* A reload leaves no gap: until the shutdown, a published event that no open
\* ingress was offered is one whose publication a reload came across.
THEOREM NoGapAtReload == Spec => []LostOnlyAcrossSwap
<1>1. Init => Offering
  BY ConstantFacts DEF Init, Offering, Listening, Published
<1>2. Offering => LostOnlyAcrossSwap
  <2> SUFFICES ASSUME Offering, shutdown = "no", NEW e \in Published, handlers[e] = {}
               PROVE  OfferedOpen(e) \/ AcrossSwap(e)
    BY DEF LostOnlyAcrossSwap
  <2>1. Called(e)
    BY DEF Offering
  <2> QED
    BY <2>1 DEF Called, OfferedOpen
<1> QED
  BY <1>1, <1>2, TypeInit, TypeStep, OfferingStep, PTL DEF Spec

-----------------------------------------------------------------------------
(***************************************************************************)
(* One place or one end.  Whether a sequence or a set of deliveries has an *)
(* event never or once is said without counting; the counts of             *)
(* AccountedOnce follow at the end.                                        *)
(***************************************************************************)
NotIn(q, e) == \A i \in DOMAIN q : q[i] # e
OnceIn(q, e) == \E i \in DOMAIN q : q[i] = e /\ \A j \in DOMAIN q : q[j] = e => j = i
NoneOf(D, e) == \A d \in D : e \notin d.events
OneOf(D, e) == \E d \in D : e \in d.events /\ \A c \in D : e \in c.events => c = d

LEMMA Appended ==
    ASSUME NEW q \in Seq(Events), NEW e \in Events, NEW x
    PROVE  /\ x # e /\ NotIn(q, x) => NotIn(Append(q, e), x)
           /\ x # e /\ OnceIn(q, x) => OnceIn(Append(q, e), x)
           /\ NotIn(q, e) => OnceIn(Append(q, e), e)
<1> DEFINE p == Append(q, e)
<1>1. /\ DOMAIN q = 1 .. Len(q) /\ DOMAIN p = 1 .. Len(q) + 1 /\ Len(q) \in Nat
      /\ p[Len(q) + 1] = e /\ \A i \in 1 .. Len(q) : p[i] = q[i]
  OBVIOUS
<1> HIDE DEF p
<1>2. \A i \in DOMAIN p : i \in DOMAIN q \/ i = Len(q) + 1
  BY <1>1
<1>3. DOMAIN q \subseteq DOMAIN p /\ Len(q) + 1 \in DOMAIN p /\ Len(q) + 1 \notin DOMAIN q
  BY <1>1
<1>4. x # e /\ NotIn(q, x) => NotIn(p, x)
  BY <1>1, <1>2 DEF NotIn
<1>5. x # e /\ OnceIn(q, x) => OnceIn(p, x)
  BY <1>1, <1>2, <1>3 DEF OnceIn
<1>6. NotIn(q, e) => OnceIn(p, e)
  BY <1>1, <1>2, <1>3 DEF OnceIn, NotIn
<1> QED
  BY <1>4, <1>5, <1>6 DEF p

LEMMA HeadTaken ==
    ASSUME NEW q \in Seq(Events), q # <<>>, NEW x
    PROVE  /\ ~NotIn(q, Head(q))
           /\ NotIn(q, x) => NotIn(Tail(q), x)
           /\ x # Head(q) /\ OnceIn(q, x) => OnceIn(Tail(q), x)
           /\ OnceIn(q, Head(q)) => NotIn(Tail(q), Head(q))
<1> DEFINE p == Tail(q)
<1>1. /\ DOMAIN q = 1 .. Len(q) /\ Len(q) \in Nat \ {0} /\ DOMAIN p = 1 .. Len(q) - 1
      /\ \A i \in 1 .. Len(q) - 1 : p[i] = q[i + 1]
      /\ Head(q) = q[1]
  OBVIOUS
<1> HIDE DEF p
<1>2. ~NotIn(q, Head(q))
  BY <1>1 DEF NotIn
<1>3. \A i \in DOMAIN p : i + 1 \in DOMAIN q /\ i + 1 # 1 /\ p[i] = q[i + 1]
  BY <1>1
<1>4. NotIn(q, x) => NotIn(p, x)
  BY <1>3 DEF NotIn
<1>5. ASSUME x # Head(q), OnceIn(q, x) PROVE OnceIn(p, x)
  <2>1. PICK i \in DOMAIN q : q[i] = x /\ \A j \in DOMAIN q : q[j] = x => j = i
    BY <1>5 DEF OnceIn
  <2>2. i # 1
    BY <1>1, <1>5, <2>1
  <2>3. i - 1 \in DOMAIN p /\ p[i - 1] = x
    BY <1>1, <2>1, <2>2
  <2>4. ASSUME NEW j \in DOMAIN p, p[j] = x PROVE j = i - 1
    <3>1. j + 1 = i
      BY <1>3, <2>1, <2>4
    <3> QED
      BY <1>1, <3>1
  <2> QED
    BY <2>3, <2>4 DEF OnceIn
<1>6. ASSUME OnceIn(q, Head(q)) PROVE NotIn(p, Head(q))
  <2>1. \A j \in DOMAIN q : q[j] = Head(q) => j = 1
    BY <1>1, <1>6 DEF OnceIn
  <2> QED
    BY <1>3, <2>1 DEF NotIn
<1> QED
  BY <1>2, <1>4, <1>5, <1>6 DEF p

LEMMA Added ==
    ASSUME NEW D, NEW d, NEW x
    PROVE  /\ x \notin d.events /\ NoneOf(D, x) => NoneOf(D \cup {d}, x)
           /\ x \notin d.events /\ OneOf(D, x) => OneOf(D \cup {d}, x)
           /\ x \in d.events /\ NoneOf(D, x) => OneOf(D \cup {d}, x)
  BY DEF NoneOf, OneOf

LEMMA Removed ==
    ASSUME NEW D, NEW d \in D, NEW x
    PROVE  /\ NoneOf(D, x) => NoneOf(D \ {d}, x)
           /\ x \notin d.events /\ OneOf(D, x) => OneOf(D \ {d}, x)
           /\ x \in d.events /\ OneOf(D, x) => NoneOf(D \ {d}, x)
           /\ x \in d.events => ~NoneOf(D, x)
  BY DEF NoneOf, OneOf

\* Where event e of service s is.
Out(s, e) == /\ fate[s][e] # "accepted"
             /\ NotIn(ingress[s], e) /\ NotIn(queue[s], e)
             /\ NoneOf(deliveries[s], e) /\ e \notin group[s].held
Entering(s, e) == /\ fate[s][e] = "accepted"
                  /\ OnceIn(ingress[s], e) /\ NotIn(queue[s], e)
                  /\ NoneOf(deliveries[s], e) /\ e \notin group[s].held
Queued(s, e) == /\ fate[s][e] = "accepted"
                /\ NotIn(ingress[s], e) /\ OnceIn(queue[s], e)
                /\ NoneOf(deliveries[s], e) /\ e \notin group[s].held
Sent(s, e) == /\ fate[s][e] = "accepted"
              /\ NotIn(ingress[s], e) /\ NotIn(queue[s], e)
              /\ OneOf(deliveries[s], e) /\ e \notin group[s].held
Counted(s, e) == /\ fate[s][e] = "accepted"
                 /\ NotIn(ingress[s], e) /\ NotIn(queue[s], e)
                 /\ NoneOf(deliveries[s], e) /\ e \in group[s].held
Placed(s, e) == Out(s, e) \/ Entering(s, e) \/ Queued(s, e) \/ Sent(s, e) \/ Counted(s, e)

\* An event that may be a failure is in one place; before its publication, and until
\* the service was offered it, it is nowhere.
Entry(s, e) ==
    kind[e] # "ok" =>
        /\ Placed(s, e)
        /\ s \in handlers[e] => fate[s][e] = "none" /\ kind[e] = "fail"
        /\ kind[e] = "none" => fate[s][e] = "none"
\* What a group holds is counted in an open window.
Entries == /\ \A s \in Services, e \in Events : Entry(s, e)
           /\ \A s \in Services : group[s].held # {} => group[s].open

\* An event whose place changes within a service, or whose fate is sealed there,
\* was accepted by it.
LEMMA Moved ==
    ASSUME NEW s, NEW e, Entry(s, e), kind'[e] = kind[e], handlers'[e] = handlers[e],
           kind[e] # "ok" => Placed(s, e)' /\ (fate[s][e] = "none" => fate'[s][e] = "none")
    PROVE  Entry(s, e)'
  BY DEF Entry

LEMMA Kept ==
    ASSUME NEW s, NEW e, Entry(s, e),
           ingress'[s] = ingress[s], queue'[s] = queue[s], deliveries'[s] = deliveries[s],
           group'[s].held = group[s].held, fate'[s][e] = fate[s][e],
           kind'[e] = kind[e], handlers'[e] \subseteq handlers[e]
    PROVE  Entry(s, e)'
  BY DEF Entry, Placed, Out, Entering, Queued, Sent, Counted

LEMMA Sealed ==
    ASSUME FateType, NEW s \in Services, NEW evs, NEW f, Settle(s, evs, f)
    PROVE  /\ \A e \in Events : fate'[s][e] = IF e \in evs THEN f ELSE fate[s][e]
           /\ \A q \in Services \ {s} : fate'[q] = fate[q]
  BY DEF FateType, Settle

\* A service is left alone by what happens at another.
LEMMA Elsewhere ==
    ASSUME Typed, NEW s \in Services, NEW q \in Services \ {s}, NEW e \in Events, Entry(q, e),
           Dispatch(s) \/ Work(s) \/ Timers(s) \/ Deliver(s) \/ CloseChannel(s)
    PROVE  Entry(q, e)'
<1>1. GroupType /\ QueueType /\ DeliveryType /\ FateType
  BY DEF Typed
<1>2. kind'[e] = kind[e] /\ handlers'[e] = handlers[e]
  BY DEF Dispatch, Work, Timers, TimerFires, TimerFlush, Deliver, CloseChannel, bus
<1>3. ASSUME NEW evs, NEW f, Settle(s, evs, f) PROVE fate'[q][e] = fate[q][e]
  BY <1>1, <1>3, Sealed
<1>4. CASE Dispatch(s)
  <2>1. fate'[q][e] = fate[q][e]
    BY <1>3, <1>4 DEF Dispatch, Enqueue
  <2>2. ingress'[q] = ingress[q] /\ queue'[q] = queue[q]
    BY <1>1, <1>4 DEF Dispatch, Enqueue, QueueType
  <2> QED
    BY <1>2, <1>4, <2>1, <2>2, Kept DEF Dispatch, coalescer
<1>5. CASE Work(s)
  <2>1. fate'[q][e] = fate[q][e]
    BY <1>3, <1>5 DEF Work, ResetTask, EndGroups, Decide, Forward, ForwardAfterDrift, ForwardSummary, Suppress
  <2>2. ingress'[q] = ingress[q] /\ queue'[q] = queue[q]
    BY <1>1, <1>5 DEF Work, QueueType
  <2>3. group'[q] = group[q] /\ deliveries'[q] = deliveries[q]
    BY <1>1, <1>5 DEF Work, ResetTask, EndGroups, Decide, Forward, ForwardAfterDrift, ForwardSummary,
       Suppress, Starts, GroupType, DeliveryType
  <2> QED
    BY <1>2, <2>1, <2>2, <2>3, Kept
<1>6. CASE Timers(s)
  <2>1. group'[q] = group[q] /\ deliveries'[q] = deliveries[q]
    BY <1>1, <1>6 DEF Timers, TimerFires, TimerFlush, Flushed, GroupType, DeliveryType
  <2> QED
    BY <1>2, <1>6, <2>1, Kept DEF Timers, TimerFires, TimerFlush, pipe
<1>7. CASE Deliver(s)
  <2>1. PICK d \in deliveries[s] : Attempt(s, d) \/ Backoff(s, d) \/ SendOwed(s, d)
    BY <1>7 DEF Deliver
  <2>2. fate'[q][e] = fate[q][e] /\ deliveries'[q] = deliveries[q]
    BY <1>1, <1>3, <2>1 DEF Attempt, Backoff, SendOwed, Ends, Becomes, DeliveryType
  <2> QED
    BY <1>2, <1>7, <2>2, Kept DEF Deliver, pipe, coalescer
<1>8. CASE CloseChannel(s)
  <2>1. group'[q] = group[q] /\ deliveries'[q] = deliveries[q]
    BY <1>1, <1>8 DEF CloseChannel, EndGroups, GroupType, DeliveryType
  <2> QED
    BY <1>2, <1>8, <2>1, Kept DEF CloseChannel, EndGroups, pipe
<1> QED
  BY <1>4, <1>5, <1>6, <1>7, <1>8

LEMMA DispatchEntry ==
    ASSUME Typed, NEW s \in Services, NEW x \in Events, Entry(s, x), Dispatch(s),
           \A e \in Events : Entry(s, e)
    PROVE  Entry(s, x)'
<1> DEFINE e == Head(ingress[s])
<1>1. GroupType /\ QueueType /\ DeliveryType /\ FateType
  BY DEF Typed
<1>2. /\ ingress[s] \in Seq(Events) /\ ingress[s] # <<>> /\ queue[s] \in Seq(Events)
      /\ ingress'[s] = Tail(ingress[s])
      /\ deliveries' = deliveries /\ group' = group /\ kind' = kind /\ handlers' = handlers
  BY <1>1 DEF QueueType, Dispatch, bus, coalescer
<1>3. e \in Events
  BY <1>2
<1>4. ~NotIn(ingress[s], e)
  BY <1>2, HeadTaken
<1> HIDE DEF e
<1>5. SUFFICES ASSUME kind[x] # "ok" PROVE Placed(s, x)' /\ (fate[s][x] = "none" => fate'[s][x] = "none")
  BY <1>2, Moved
<1>6. Placed(s, x)
  BY <1>5 DEF Entry
<1>7. CASE Sends(s, e)
  <2>1. queue'[s] = Append(queue[s], e) /\ fate' = fate
    BY <1>1, <1>7 DEF Sends, QueueType
  <2>2. CASE x = e
    <3>1. Entering(s, x)
      BY <1>4, <1>6, <2>2 DEF Placed, Out, Queued, Sent, Counted
    <3>2. Queued(s, x)'
      BY <1>2, <1>3, <2>1, <2>2, <3>1, HeadTaken, Appended DEF Entering, Queued, e
    <3> QED
      BY <2>1, <3>2 DEF Placed
  <2>3. CASE x # e
    <3>1. /\ NotIn(ingress[s], x) => NotIn(ingress'[s], x)
          /\ OnceIn(ingress[s], x) => OnceIn(ingress'[s], x)
      BY <1>2, <2>3, HeadTaken DEF e
    <3>2. /\ NotIn(queue[s], x) => NotIn(queue'[s], x)
          /\ OnceIn(queue[s], x) => OnceIn(queue'[s], x)
      BY <1>2, <1>3, <2>1, <2>3, Appended
    <3> QED
      BY <1>2, <1>6, <2>1, <3>1, <3>2 DEF Placed, Out, Entering, Queued, Sent, Counted
  <2> QED
    BY <2>2, <2>3
<1>8. CASE Evicts(s, e)
  <2> DEFINE h == Head(queue[s])
  <2>0. queue[s] # <<>>
    BY <1>8 DEF Evicts
  <2>1. queue'[s] = Append(Tail(queue[s]), e) /\ Settle(s, {h}, "evicted")
    BY <1>1, <1>8 DEF Evicts, QueueType
  <2>2. fate'[s][x] = IF x = h THEN "evicted" ELSE fate[s][x]
    BY <1>1, <2>1, Sealed
  <2>3. Tail(queue[s]) \in Seq(Events) /\ h \in Events /\ ~NotIn(queue[s], h)
    BY <1>2, <2>0, HeadTaken
  <2>4. /\ NotIn(queue[s], x) => NotIn(Tail(queue[s]), x)
        /\ x # h /\ OnceIn(queue[s], x) => OnceIn(Tail(queue[s]), x)
        /\ x = h /\ OnceIn(queue[s], x) => NotIn(Tail(queue[s]), x)
    BY <1>2, <2>0, HeadTaken
  <2> HIDE DEF h
  <2>7. /\ x # e /\ NotIn(Tail(queue[s]), x) => NotIn(queue'[s], x)
        /\ x # e /\ OnceIn(Tail(queue[s]), x) => OnceIn(queue'[s], x)
        /\ NotIn(Tail(queue[s]), e) => OnceIn(queue'[s], e)
    <3> DEFINE p == Tail(queue[s])
    <3>1. p \in Seq(Events) /\ queue'[s] = Append(p, e)
      BY <2>1, <2>3
    <3> HIDE DEF p
    <3>2. /\ x # e /\ NotIn(p, x) => NotIn(queue'[s], x)
          /\ x # e /\ OnceIn(p, x) => OnceIn(queue'[s], x)
          /\ NotIn(p, e) => OnceIn(queue'[s], e)
      BY <1>3, <3>1, Appended
    <3> QED
      BY <3>2 DEF p
  <2>5. CASE x = e
    <3>1. Entering(s, x)
      BY <1>4, <1>6, <2>5 DEF Placed, Out, Queued, Sent, Counted
    <3>2. x # h
      BY <2>3, <3>1 DEF Entering
    <3>3. NotIn(ingress'[s], x)
      BY <1>2, <2>5, <3>1, HeadTaken DEF Entering, e
    <3>5. OnceIn(queue'[s], x)
      BY <2>4, <2>5, <2>7, <3>1 DEF Entering
    <3>4. Queued(s, x)'
      BY <1>2, <2>2, <3>1, <3>2, <3>3, <3>5 DEF Entering, Queued
    <3> QED
      BY <2>2, <3>2, <3>4 DEF Placed
  <2>6. CASE x # e
    <3>1. /\ NotIn(ingress[s], x) => NotIn(ingress'[s], x)
          /\ OnceIn(ingress[s], x) => OnceIn(ingress'[s], x)
      BY <1>2, <2>6, HeadTaken DEF e
    <3>2. /\ NotIn(Tail(queue[s]), x) => NotIn(queue'[s], x)
          /\ OnceIn(Tail(queue[s]), x) => OnceIn(queue'[s], x)
      BY <2>6, <2>7
    <3>3. CASE x = h
      <4>1. Queued(s, x)
        BY <1>6, <2>3, <3>3 DEF Placed, Out, Entering, Sent, Counted
      <4>2. Out(s, x)'
        BY <1>2, <2>2, <2>4, <3>1, <3>2, <3>3, <4>1 DEF Queued, Out
      <4> QED
        BY <4>1, <4>2 DEF Placed, Queued
    <3>4. CASE x # h
      BY <1>2, <1>6, <2>2, <2>4, <3>1, <3>2, <3>4 DEF Placed, Out, Entering, Queued, Sent, Counted
    <3> QED
      BY <3>3, <3>4
  <2> QED
    BY <2>5, <2>6
<1> QED
  BY <1>7, <1>8, EnqueueCases DEF Dispatch, e

\* Ending the groups of a service turns what they hold into one delivery.
LEMMA EndGroupsMoves ==
    ASSUME GroupType, DeliveryType, NEW s \in Services, NEW d, d.events = group[s].held,
           EndGroups(s, d), NEW x \in Events
    PROVE  /\ x \notin group'[s].held
           /\ x \in group[s].held /\ NoneOf(deliveries[s], x) => OneOf(deliveries'[s], x)
           /\ x \notin group[s].held /\ NoneOf(deliveries[s], x) => NoneOf(deliveries'[s], x)
           /\ x \notin group[s].held /\ OneOf(deliveries[s], x) => OneOf(deliveries'[s], x)
<1>1. group'[s].held = {}
  BY DEF EndGroups, GroupType, NoGroup
<1>2. deliveries'[s] = deliveries[s] \cup Owed(s, d)
  BY DEF EndGroups, DeliveryType
<1>3. CASE d.events = {}
  BY <1>1, <1>2, <1>3 DEF Owed
<1>4. CASE d.events # {}
  <2>1. deliveries'[s] = deliveries[s] \cup {d}
    BY <1>2, <1>4 DEF Owed
  <2> QED
    BY <1>1, <2>1, Added
<1> QED
  BY <1>3, <1>4

\* A decision moves the event it is about to a delivery or the count, and what was
\* counted stays, is sent with it, or is dropped by name.
LEMMA DecideMoves ==
    ASSUME GroupType, DeliveryType, FateType, NEW s \in Services,
           group[s].held # {} => group[s].open, NEW e \in Events, Decide(s, e), e \notin group[s].held,
           NoneOf(deliveries[s], e), fate[s][e] = "accepted", NEW x \in Events
    PROVE  /\ group'[s].held # {} => group'[s].open
           /\ x = e => /\ fate'[s][x] = "accepted"
                       /\ \/ OneOf(deliveries'[s], x) /\ x \notin group'[s].held
                          \/ NoneOf(deliveries'[s], x) /\ x \in group'[s].held
           /\ x # e /\ x \notin group[s].held =>
                /\ fate'[s][x] = fate[s][x] /\ x \notin group'[s].held
                /\ NoneOf(deliveries[s], x) => NoneOf(deliveries'[s], x)
                /\ OneOf(deliveries[s], x) => OneOf(deliveries'[s], x)
           /\ x # e /\ x \in group[s].held /\ NoneOf(deliveries[s], x) =>
                \/ /\ fate'[s][x] = fate[s][x]
                   /\ \/ OneOf(deliveries'[s], x) /\ x \notin group'[s].held
                      \/ NoneOf(deliveries'[s], x) /\ x \in group'[s].held
                \/ /\ fate'[s][x] = "stale"
                   /\ NoneOf(deliveries'[s], x) /\ x \notin group'[s].held
<1>1. group[s] \in Groups /\ group \in [Services -> Groups] /\ deliveries \in [Services -> SUBSET Deliveries]
      /\ group[s].held \in SUBSET Events
  BY DEF GroupType, Groups, DeliveryType
<1>2. ASSUME NEW evs \in SUBSET Events, Starts(s, evs)
      PROVE  /\ x \notin evs /\ NoneOf(deliveries[s], x) => NoneOf(deliveries'[s], x)
             /\ x \notin evs /\ OneOf(deliveries[s], x) => OneOf(deliveries'[s], x)
             /\ x \in evs /\ NoneOf(deliveries[s], x) => OneOf(deliveries'[s], x)
  <2>1. deliveries'[s] = deliveries[s] \cup {Delivery("worker", evs)}
    BY <1>1, <1>2 DEF Starts
  <2>2. Delivery("worker", evs).events = evs
    BY FirstAttempt
  <2> QED
    BY <2>1, <2>2, Added
<1>3. CASE Forward(s, e)
  <2>1. group[s].held = {} /\ Starts(s, {e}) /\ fate' = fate
    BY <1>3 DEF Forward
  <2>2. group'[s].held = {}
    BY <1>1, <1>3 DEF Forward, NoGroup
  <2> QED
    BY <1>2, <2>1, <2>2
<1>4. CASE ForwardAfterDrift(s, e)
  <2>1. Starts(s, {e}) /\ Settle(s, group[s].held, "stale")
    BY <1>4 DEF ForwardAfterDrift
  <2>2. group'[s].held = {}
    BY <1>1, <1>4 DEF ForwardAfterDrift, StopTimer, Groups
  <2>3. \A y \in Events : fate'[s][y] = IF y \in group[s].held THEN "stale" ELSE fate[s][y]
    BY <2>1, Sealed
  <2> QED
    BY <1>2, <2>1, <2>2, <2>3
<1>5. CASE ForwardSummary(s, e)
  <2>1. Starts(s, group[s].held \cup {e}) /\ fate' = fate
    BY <1>5 DEF ForwardSummary
  <2>2. group'[s].held = {}
    BY <1>1, <1>5 DEF ForwardSummary, StopTimer, Groups
  <2>3. group[s].held \cup {e} \in SUBSET Events
    BY <1>1
  <2> QED
    BY <1>2, <2>1, <2>2, <2>3
<1>6. CASE Suppress(s, e)
  <2>1. deliveries' = deliveries /\ fate' = fate /\ group[s].open
    BY <1>6 DEF Suppress, InWindow
  <2>2. group'[s].held = group[s].held \cup {e} /\ group'[s].open
    <3>1. CASE group[s].timer = 0
      BY <1>1, <1>6, <2>1, <3>1 DEF Suppress, Groups
    <3>2. CASE group[s].timer # 0
      BY <1>1, <1>6, <2>1, <3>2 DEF Suppress, Groups
    <3> QED
      BY <3>1, <3>2
  <2> QED
    BY <2>1, <2>2
<1> QED
  BY <1>3, <1>4, <1>5, <1>6 DEF Decide

LEMMA WorkEntry ==
    ASSUME Typed, Entries, NEW s \in Services, Work(s), NEW x \in Events
    PROVE  Entry(s, x)' /\ (group'[s].held # {} => group'[s].open)
<1> DEFINE h == Head(queue[s])
<1>1. GroupType /\ QueueType /\ DeliveryType /\ FateType
  BY DEF Typed
<1>2. /\ queue[s] \in Seq(Events) /\ queue[s] # <<>> /\ queue'[s] = Tail(queue[s])
      /\ ingress' = ingress /\ kind' = kind /\ handlers' = handlers
  BY <1>1 DEF QueueType, Work, bus
<1>3. h \in Events /\ ~NotIn(queue[s], h)
  BY <1>2, HeadTaken
<1>4. /\ NotIn(queue[s], x) => NotIn(queue'[s], x)
      /\ x # h /\ OnceIn(queue[s], x) => OnceIn(queue'[s], x)
      /\ OnceIn(queue[s], h) => NotIn(queue'[s], h)
  BY <1>2, HeadTaken
<1>5. \/ ~Fail(h) /\ ResetTask(s)
      \/ Fail(h) /\ Decide(s, h)
  BY DEF Work
<1>6. Entry(s, x) /\ Entry(s, h)
  BY <1>3 DEF Entries
<1> HIDE DEF h
<1>7. kind[h] # "ok" => Queued(s, h) /\ Fail(h)
  BY <1>3, <1>6 DEF Entry, Placed, Out, Entering, Queued, Sent, Counted, Fail, Typed, BusType
<1>8. SUFFICES ASSUME TRUE
               PROVE /\ group'[s].held # {} => group'[s].open
                     /\ kind[x] # "ok" =>
                          Placed(s, x)' /\ (fate[s][x] = "none" => fate'[s][x] = "none")
  BY <1>2, <1>6, Moved
<1>9. kind[x] # "ok" => Placed(s, x)
  BY <1>6 DEF Entry
<1>10. CASE ~Fail(h) /\ ResetTask(s)
  <2>1. kind[x] # "ok" => x # h
    BY <1>7, <1>10
  <2>2. Delivery("worker", group[s].held).events = group[s].held
    BY <1>1, FirstAttempt DEF GroupType, Groups
  <2>3. /\ x \notin group'[s].held
        /\ x \in group[s].held /\ NoneOf(deliveries[s], x) => OneOf(deliveries'[s], x)
        /\ x \notin group[s].held /\ NoneOf(deliveries[s], x) => NoneOf(deliveries'[s], x)
        /\ x \notin group[s].held /\ OneOf(deliveries[s], x) => OneOf(deliveries'[s], x)
    BY <1>1, <1>10, <2>2, EndGroupsMoves DEF ResetTask
  <2>4. fate' = fate /\ group'[s].held = {}
    BY <1>1, <1>10 DEF ResetTask, EndGroups, GroupType, NoGroup
  <2> QED
    BY <1>2, <1>4, <1>9, <2>1, <2>3, <2>4 DEF Placed, Out, Entering, Queued, Sent, Counted
<1>11. CASE Fail(h) /\ Decide(s, h)
  <2>1. Queued(s, h)
    BY <1>7, <1>11 DEF Fail
  <2>2. /\ group'[s].held # {} => group'[s].open
        /\ x = h => /\ fate'[s][x] = "accepted"
                    /\ \/ OneOf(deliveries'[s], x) /\ x \notin group'[s].held
                       \/ NoneOf(deliveries'[s], x) /\ x \in group'[s].held
        /\ x # h /\ x \notin group[s].held =>
             /\ fate'[s][x] = fate[s][x] /\ x \notin group'[s].held
             /\ NoneOf(deliveries[s], x) => NoneOf(deliveries'[s], x)
             /\ OneOf(deliveries[s], x) => OneOf(deliveries'[s], x)
        /\ x # h /\ x \in group[s].held /\ NoneOf(deliveries[s], x) =>
             \/ /\ fate'[s][x] = fate[s][x]
                /\ \/ OneOf(deliveries'[s], x) /\ x \notin group'[s].held
                   \/ NoneOf(deliveries'[s], x) /\ x \in group'[s].held
             \/ /\ fate'[s][x] = "stale"
                /\ NoneOf(deliveries'[s], x) /\ x \notin group'[s].held
    BY <1>1, <1>3, <1>11, <2>1, DecideMoves DEF Queued, Entries
  <2>3. CASE x = h
    <3>1. Sent(s, x)' \/ Counted(s, x)'
      BY <1>2, <1>4, <2>1, <2>2, <2>3 DEF Queued, Sent, Counted
    <3> QED
      BY <2>1, <2>2, <2>3, <3>1 DEF Placed, Queued
  <2>4. CASE x # h /\ x \notin group[s].held
    BY <1>2, <1>4, <1>9, <2>2, <2>4 DEF Placed, Out, Entering, Queued, Sent, Counted
  <2>5. CASE x # h /\ x \in group[s].held
    <3>1. kind[x] # "ok" => Counted(s, x)
      BY <1>9, <2>5 DEF Placed, Out, Entering, Queued, Sent
    <3>2. ASSUME kind[x] # "ok" PROVE Sent(s, x)' \/ Counted(s, x)' \/ Out(s, x)'
      BY <1>2, <1>4, <2>2, <2>5, <3>1, <3>2 DEF Out, Sent, Counted
    <3> QED
      BY <2>2, <3>1, <3>2 DEF Placed, Counted
  <2> QED
    BY <2>3, <2>4, <2>5
<1> QED
  BY <1>5, <1>10, <1>11

LEMMA TimersEntry ==
    ASSUME Typed, Entries, NEW s \in Services, Timers(s), NEW x \in Events
    PROVE  Entry(s, x)' /\ (group'[s].held # {} => group'[s].open)
<1>1. GroupType /\ DeliveryType /\ group[s] \in Groups /\ Entry(s, x)
  BY DEF Typed, GroupType, Entries
<1>2. /\ ingress' = ingress /\ queue' = queue /\ kind' = kind /\ handlers' = handlers /\ fate' = fate
  BY DEF Timers, TimerFires, TimerFlush, bus, pipe
<1>3. CASE group' = group /\ deliveries' = deliveries
  BY <1>1, <1>2, <1>3, Kept DEF Entries
<1>4. CASE TimerFlush(s) /\ group[s].held = {}
  <2>1. group'[s].held = {} /\ deliveries' = deliveries
    BY <1>1, <1>4 DEF TimerFlush, GroupType, Groups
  <2> QED
    BY <1>1, <1>2, <1>4, <2>1, Kept
<1>5. CASE TimerFlush(s) /\ group[s].held # {}
  <2>1. group'[s].held = {}
    BY <1>1, <1>5 DEF TimerFlush, Flushed, GroupType, NoGroup
  <2>2. /\ deliveries'[s] = deliveries[s] \cup {Delivery("timer", group[s].held)}
        /\ Delivery("timer", group[s].held).events = group[s].held
    BY <1>1, <1>5, FirstAttempt DEF TimerFlush, DeliveryType, Groups
  <2>3. /\ x \notin group[s].held /\ NoneOf(deliveries[s], x) => NoneOf(deliveries'[s], x)
        /\ x \notin group[s].held /\ OneOf(deliveries[s], x) => OneOf(deliveries'[s], x)
        /\ x \in group[s].held /\ NoneOf(deliveries[s], x) => OneOf(deliveries'[s], x)
    BY <2>2, Added
  <2>4. Placed(s, x) => Placed(s, x)'
    BY <1>2, <2>1, <2>3 DEF Placed, Out, Entering, Queued, Sent, Counted
  <2> QED
    BY <1>1, <1>2, <2>1, <2>4, Moved DEF Entry
<1> QED
  BY <1>3, <1>4, <1>5 DEF Timers, TimerFires

LEMMA DeliverEntry ==
    ASSUME Typed, Entries, NEW s \in Services, Deliver(s), NEW x \in Events
    PROVE  Entry(s, x)'
<1>1. DeliveryType /\ FateType /\ Entry(s, x)
  BY DEF Typed, Entries
<1>2. /\ ingress' = ingress /\ queue' = queue /\ kind' = kind /\ handlers' = handlers /\ group' = group
  BY DEF Deliver, bus, pipe, coalescer
<1>3. PICK d \in deliveries[s] : Attempt(s, d) \/ Backoff(s, d) \/ SendOwed(s, d)
  BY DEF Deliver
<1>4. /\ NoneOf(deliveries[s], x) => NoneOf(deliveries[s] \ {d}, x)
      /\ x \notin d.events /\ OneOf(deliveries[s], x) => OneOf(deliveries[s] \ {d}, x)
      /\ x \in d.events /\ OneOf(deliveries[s], x) => NoneOf(deliveries[s] \ {d}, x)
      /\ x \in d.events => ~NoneOf(deliveries[s], x)
  BY Removed
<1>5. ASSUME NEW f \in {"answered", "abandoned"}, Ends(s, d, f) PROVE Entry(s, x)'
  <2>1. /\ deliveries'[s] = deliveries[s] \ {d}
        /\ fate'[s][x] = IF x \in d.events THEN f ELSE fate[s][x]
    BY <1>1, <1>5, Sealed DEF Ends, DeliveryType
  <2>2. Placed(s, x) /\ x \in d.events => Sent(s, x) /\ Out(s, x)'
    BY <1>2, <1>4, <2>1 DEF Placed, Out, Entering, Queued, Sent, Counted
  <2>3. Placed(s, x) /\ x \notin d.events => Placed(s, x)'
    BY <1>2, <1>4, <2>1 DEF Placed, Out, Entering, Queued, Sent, Counted
  <2>4. ASSUME kind[x] # "ok"
        PROVE  Placed(s, x)' /\ (fate[s][x] = "none" => fate'[s][x] = "none")
    BY <1>1, <2>1, <2>2, <2>3, <2>4 DEF Entry, Placed, Sent
  <2> QED
    BY <1>1, <1>2, <2>4, Moved
<1>6. ASSUME NEW c, c.events = d.events, Becomes(s, d, c) PROVE Entry(s, x)'
  <2>1. deliveries'[s] = (deliveries[s] \ {d}) \cup {c} /\ fate' = fate
    BY <1>1, <1>6 DEF Becomes, DeliveryType
  <2>2. /\ NoneOf(deliveries[s], x) => NoneOf(deliveries'[s], x)
        /\ OneOf(deliveries[s], x) => OneOf(deliveries'[s], x)
    BY <1>4, <1>6, <2>1, Added
  <2>3. Placed(s, x) => Placed(s, x)'
    BY <1>2, <2>1, <2>2 DEF Placed, Out, Entering, Queued, Sent, Counted
  <2> QED
    BY <1>1, <1>2, <2>1, <2>3, Moved DEF Entry
<1>7. d \in Deliveries
  BY <1>1 DEF DeliveryType
<1>8. /\ [d EXCEPT !.stage = "waiting"].events = d.events
      /\ [d EXCEPT !.stage = "attempt", !.tries = @ + 1].events = d.events
      /\ [d EXCEPT !.stage = "attempt"].events = d.events
  BY <1>7 DEF Deliveries
<1> QED
  BY <1>3, <1>5, <1>6, <1>8 DEF Attempt, Backoff, SendOwed

LEMMA CloseChannelEntry ==
    ASSUME Typed, Entries, NEW s \in Services, CloseChannel(s), NEW x \in Events
    PROVE  Entry(s, x)' /\ (group'[s].held # {} => group'[s].open)
<1> DEFINE d == [Delivery("close", group[s].held) EXCEPT !.stage = "owed"]
<1>1. GroupType /\ DeliveryType /\ FateType /\ Entry(s, x)
  BY DEF Typed, Entries
<1>2. /\ ingress' = ingress /\ queue' = queue /\ kind' = kind /\ handlers' = handlers /\ fate' = fate
      /\ EndGroups(s, d)
  BY DEF CloseChannel, EndGroups, bus, pipe
<1>3. d.events = group[s].held
  BY <1>1, FirstAttempt DEF GroupType, Groups
<1> HIDE DEF d
<1>4. /\ x \notin group'[s].held
      /\ x \in group[s].held /\ NoneOf(deliveries[s], x) => OneOf(deliveries'[s], x)
      /\ x \notin group[s].held /\ NoneOf(deliveries[s], x) => NoneOf(deliveries'[s], x)
      /\ x \notin group[s].held /\ OneOf(deliveries[s], x) => OneOf(deliveries'[s], x)
  BY <1>1, <1>2, <1>3, EndGroupsMoves
<1>5. group'[s].held = {}
  BY <1>1, <1>2 DEF EndGroups, GroupType, NoGroup
<1>6. Placed(s, x) => Placed(s, x)'
  BY <1>2, <1>4 DEF Placed, Out, Entering, Queued, Sent, Counted
<1> QED
  BY <1>1, <1>2, <1>5, <1>6, Moved DEF Entry

LEMMA OnBusEventEntry ==
    ASSUME Typed, Entries, NEW s \in Services, NEW e \in Events, OnBusEvent(s, e),
           NEW q \in Services, NEW x \in Events
    PROVE  Entry(q, x)'
<1>1. BusType /\ QueueType /\ FateType /\ Entry(q, x) /\ Entry(s, e)
  BY DEF Typed, Entries
<1>2. /\ s \in handlers[e] /\ queue' = queue /\ deliveries' = deliveries /\ group' = group /\ kind' = kind
      /\ handlers'[e] = handlers[e] \ {s} /\ \A y \in Events \ {e} : handlers'[y] = handlers[y]
  BY <1>1 DEF OnBusEvent, BusType, coalescer
<1>3. PICK f \in {"full", "closed", "accepted"} :
         /\ Settle(s, {e}, f)
         /\ f = "accepted" => ingress' = [ingress EXCEPT ![s] = Append(@, e)]
         /\ f # "accepted" => ingress' = ingress
  BY DEF OnBusEvent
<1>4. /\ \A y \in Events : fate'[s][y] = IF y = e THEN f ELSE fate[s][y]
      /\ \A p \in Services \ {s} : fate'[p] = fate[p]
  BY <1>1, <1>3, Sealed
<1>5. \A p \in Services \ {s} : ingress'[p] = ingress[p]
  BY <1>1 DEF OnBusEvent, QueueType
<1>6. CASE q # s
  BY <1>1, <1>2, <1>4, <1>5, <1>6, Kept
<1>7. CASE q = s /\ x # e
  <2>1. /\ NotIn(ingress[s], x) => NotIn(ingress'[s], x)
        /\ OnceIn(ingress[s], x) => OnceIn(ingress'[s], x)
    <3>1. CASE ingress' = ingress
      BY <3>1
    <3>2. CASE ingress' = [ingress EXCEPT ![s] = Append(@, e)]
      <4>1. ingress'[s] = Append(ingress[s], e) /\ ingress[s] \in Seq(Events)
        BY <1>1, <3>2 DEF QueueType
      <4> QED
        BY <1>7, <4>1, Appended
    <3> QED
      BY <3>1, <3>2 DEF OnBusEvent
  <2>2. fate'[s][x] = fate[s][x] /\ handlers'[x] = handlers[x]
    BY <1>2, <1>4, <1>7
  <2>3. Placed(s, x) => Placed(s, x)'
    BY <1>2, <2>1, <2>2 DEF Placed, Out, Entering, Queued, Sent, Counted
  <2> QED
    BY <1>1, <1>2, <1>7, <2>2, <2>3 DEF Entry
<1>8. CASE q = s /\ x = e
  <2> SUFFICES ASSUME kind[e] # "ok" PROVE Entry(s, e)'
    BY <1>2, <1>8 DEF Entry
  <2>1. fate[s][e] = "none" /\ kind[e] = "fail" /\ Out(s, e)
    BY <1>1, <1>2 DEF Entry, Placed, Out, Entering, Queued, Sent, Counted
  <2>2. CASE f # "accepted"
    <3>1. ingress' = ingress
      BY <1>3, <2>2
    <3>2. fate'[s][e] = f
      BY <1>4
    <3>3. Out(s, e)'
      BY <1>2, <2>1, <2>2, <3>1, <3>2 DEF Out
    <3> QED
      BY <1>2, <2>1, <3>3 DEF Entry, Placed
  <2>3. CASE f = "accepted"
    <3>1. Settle(s, {e}, "accepted") /\ ingress' = [ingress EXCEPT ![s] = Append(@, e)]
      BY <1>3, <2>3
    <3>2. fate'[s][e] = "accepted"
      BY <1>1, <3>1, Sealed
    <3>3. OnceIn(ingress'[s], e)
      <4>1. ingress'[s] = Append(ingress[s], e) /\ ingress[s] \in Seq(Events)
        BY <1>1, <3>1 DEF QueueType
      <4> QED
        BY <2>1, <4>1, Appended DEF Out
    <3>4. Entering(s, e)'
      BY <1>2, <2>1, <3>2, <3>3 DEF Out, Entering
    <3> QED
      BY <1>2, <2>1, <3>4 DEF Entry, Placed
  <2> QED
    BY <2>2, <2>3
<1> QED
  BY <1>6, <1>7, <1>8

LEMMA PublishEntry ==
    ASSUME Typed, Entries, NEW e \in Events, NEW k \in {"fail", "ok"}, Publish(e, k), kind[e] = "none",
           NEW q \in Services, NEW x \in Events
    PROVE  Entry(q, x)'
<1>1. BusType /\ Entry(q, x)
  BY DEF Typed, Entries
<1>2. /\ ingress' = ingress /\ queue' = queue /\ deliveries' = deliveries /\ group' = group /\ fate' = fate
  BY DEF Publish, pipe, coalescer
<1>3. Placed(q, x) => Placed(q, x)'
  BY <1>2 DEF Placed, Out, Entering, Queued, Sent, Counted
<1>4. CASE x = e
  BY <1>1, <1>2, <1>3, <1>4 DEF Publish, BusType, Entry
<1>5. CASE x # e
  <2>1. kind'[x] = kind[x] /\ handlers'[x] = handlers[x]
    BY <1>1, <1>5 DEF Publish, BusType
  <2> QED
    BY <1>1, <1>2, <1>3, <2>1 DEF Entry
<1> QED
  BY <1>4, <1>5

\* Events are numbered as they are published, so the next one is new.
Numbered == \E n \in Nat : Published = 1 .. n

LEMMA NextIsNew ==
    ASSUME Typed, Numbered, NEW e \in Events, NEW k \in {"fail", "ok"}, Publish(e, k)
    PROVE  kind[e] = "none" /\ Numbered'
<1>1. PICK n \in Nat : Published = 1 .. n
  BY DEF Numbered
<1>2. Cardinality(1 .. n) = n
  BY FS_Interval
<1>3. e = n + 1
  BY <1>1, <1>2 DEF Publish
<1>4. e \notin Published
  BY <1>1, <1>3
<1>5. Published' = Published \cup {e}
  BY DEF Publish, Published, Typed, BusType
<1>6. 1 .. n + 1 = (1 .. n) \cup {n + 1}
  OBVIOUS
<1> QED
  BY <1>1, <1>3, <1>4, <1>5, <1>6 DEF Numbered, Published

LEMMA EntriesStep == Typed /\ Entries /\ Numbered /\ [Next]_vars => Entries' /\ Numbered'
<1> SUFFICES ASSUME Typed, Entries, Numbered, [Next]_vars PROVE Entries' /\ Numbered'
  OBVIOUS
<1>o. \A q \in Services : group[q].held # {} => group[q].open
  BY DEF Entries
<1>e. \A q \in Services, x \in Events : Entry(q, x)
  BY DEF Entries
<1>1. ASSUME kind' = kind PROVE Numbered'
  BY <1>1 DEF Numbered, Published
<1>2. CASE /\ ingress' = ingress /\ queue' = queue /\ deliveries' = deliveries /\ group' = group
           /\ fate' = fate /\ kind' = kind /\ handlers' = handlers
  BY <1>1, <1>2, <1>e, <1>o, Kept DEF Entries
<1>3. ASSUME NEW e \in Events, NEW k \in {"fail", "ok"}, Publish(e, k) PROVE Entries' /\ Numbered'
  <2>1. kind[e] = "none" /\ Numbered' /\ group' = group
    BY <1>3, NextIsNew DEF Publish, coalescer
  <2>2. \A q \in Services, x \in Events : Entry(q, x)'
    BY <1>3, <2>1, PublishEntry
  <2> QED
    BY <1>o, <2>1, <2>2 DEF Entries
<1>4. ASSUME NEW s \in Services, NEW e \in Events, OnBusEvent(s, e) PROVE Entries' /\ Numbered'
  <2>1. \A q \in Services, x \in Events : Entry(q, x)'
    BY <1>4, OnBusEventEntry
  <2>2. group' = group /\ kind' = kind
    BY <1>4 DEF OnBusEvent, coalescer
  <2> QED
    BY <1>1, <1>o, <2>1, <2>2 DEF Entries
<1>5. ASSUME NEW s \in Services, Dispatch(s) \/ Work(s) \/ Timers(s) \/ Deliver(s) \/ CloseChannel(s)
      PROVE  Entries' /\ Numbered'
  <2>1. kind' = kind
    BY <1>5 DEF Dispatch, Work, Timers, TimerFires, TimerFlush, Deliver, CloseChannel, bus
  <2>2. \A x \in Events : Entry(s, x)'
    BY <1>5, <1>e, DispatchEntry, WorkEntry, TimersEntry, DeliverEntry, CloseChannelEntry
  <2>3. \A q \in Services \ {s}, x \in Events : Entry(q, x)'
    BY <1>5, <1>e, Elsewhere
  <2>4. group'[s].held # {} => group'[s].open
    <3>1. CASE Dispatch(s) \/ Deliver(s)
      BY <1>o, <3>1 DEF Dispatch, Deliver, coalescer
    <3>2. CASE Work(s) \/ Timers(s) \/ CloseChannel(s)
      <4>1. CASE Events = {}
        <5>1. group'[s].held \in SUBSET Events
          BY TypeStep DEF Typed, GroupType, Groups
        <5> QED
          BY <4>1, <5>1
      <4>2. CASE Events # {}
        BY <3>2, <4>2, WorkEntry, TimersEntry, CloseChannelEntry
      <4> QED
        BY <4>1, <4>2
    <3> QED
      BY <1>5, <3>1, <3>2
  <2>5. \A q \in Services \ {s} : group'[q] = group[q]
    <3>1. GroupType
      BY DEF Typed
    <3> QED
      BY <1>5, <3>1 DEF GroupType, Dispatch, Work, ResetTask, EndGroups, Decide, Forward, ForwardAfterDrift,
         ForwardSummary, Suppress, Timers, TimerFires, TimerFlush, Flushed, Deliver, CloseChannel, coalescer
  <2>6. \A q \in Services, x \in Events : Entry(q, x)'
    BY <2>2, <2>3
  <2>7. \A q \in Services : group'[q].held # {} => group'[q].open
    BY <1>o, <2>4, <2>5
  <2> QED
    BY <1>1, <2>1, <2>6, <2>7 DEF Entries
<1>6. CASE Reload \/ Shutdown \/ Tick \/ UNCHANGED vars
  BY <1>2, <1>6 DEF Reload, Swap, Detach, Shutdown, BeginStop, Deadline, StopReturns, Tick, vars,
     bus, pipe, coalescer
<1>7. ASSUME NEW s \in Services,
             DispatchExits(s) \/ WorkerExits(s) \/ CloseIngress(s) \/ CloseInner(s)
      PROVE  Entries' /\ Numbered'
  BY <1>2, <1>7 DEF DispatchExits, WorkerExits, CloseIngress, CloseInner, bus, pipe, coalescer
<1> QED
  BY <1>3, <1>4, <1>5, <1>6, <1>7 DEF Next, Publisher, Pipeline, Stopping

-----------------------------------------------------------------------------
(***************************************************************************)
(* What a stopped service has left.  Its goroutines exit only when there   *)
(* is nothing more to come or the deadline has passed, and it is closed    *)
(* only after both have.                                                   *)
(***************************************************************************)
Stopped(s) ==
    /\ phase[s] \in {"running", "detached"} => dispatching[s] /\ working[s]
    /\ phase[s] \in {"closing", "closed"} => ~dispatching[s] /\ ~working[s] /\ group[s] = NoGroup
    /\ phase[s] = "closed" => deliveries[s] = {}
    /\ IngressClosed(s) /\ ~dispatching[s] => deadline \/ ingress[s] = <<>>
    /\ IngressClosed(s) /\ ~working[s] => deadline \/ (queue[s] = <<>> /\ ~dispatching[s])
\* Only a service that runs is detached.
Runs == /\ shutdown = "no" => phase[live] = "running"
        /\ swapping => shutdown = "no" /\ live - 1 \in Services /\ phase[live - 1] = "running"
StopsClean == Runs /\ \A s \in Services : Stopped(s)

LEMMA RunsStep == Typed /\ StopsClean /\ [Next]_vars => Runs'
<1> SUFFICES ASSUME Typed, StopsClean, [Next]_vars PROVE Runs'
  OBVIOUS
<1>t. LifeType /\ Runs
  BY DEF Typed, StopsClean
<1>1. CASE shutdown' = shutdown /\ live' = live /\ swapping' = swapping /\ phase' = phase
  BY <1>1, <1>t DEF Runs
<1>2. CASE Swap
  <2>1. live \in Nat /\ live + 1 - 1 = live /\ live + 1 # live
    BY <1>t, ConstantFacts DEF LifeType
  <2> QED
    BY <1>2, <1>t, <2>1 DEF Swap, Start, Runs, LifeType
<1>3. CASE Detach
  <2>1. live \in Nat /\ live - 1 # live
    BY <1>t, ConstantFacts DEF LifeType
  <2> QED
    BY <1>3, <1>t, <2>1 DEF Detach, Runs, LifeType
<1>4. CASE Shutdown
  BY <1>4, <1>t DEF Shutdown, BeginStop, Deadline, StopReturns, Runs, LifeType
<1>5. ASSUME NEW s \in Services, Stopping(s) PROVE Runs'
  <2>1. shutdown' = shutdown /\ live' = live /\ swapping' = swapping
    BY <1>5 DEF Stopping, CloseIngress, CloseChannel, CloseInner, owner
  <2>2. \A q \in Services : phase[q] = "running" => phase'[q] = "running"
    BY <1>5, <1>t DEF Stopping, CloseIngress, CloseChannel, CloseInner, LifeType
  <2> QED
    BY <1>t, <2>1, <2>2 DEF Runs, LifeType
<1>6. ASSUME NEW s \in Services, Pipeline(s) \/ Timers(s) \/ Deliver(s) PROVE Runs'
  BY <1>1, <1>6 DEF Pipeline, Dispatch, DispatchExits, Work, WorkerExits, Timers, TimerFires, TimerFlush,
     Deliver, owner
<1>7. CASE Publisher \/ Tick \/ UNCHANGED vars
  BY <1>1, <1>7 DEF Publisher, Publish, OnBusEvent, Tick, vars, owner
<1> QED
  BY <1>2, <1>3, <1>4, <1>5, <1>6, <1>7 DEF Next, Reload

LEMMA StoppedStep ==
    ASSUME Typed, StopsClean, [Next]_vars, NEW s \in Services PROVE Stopped(s)'
<1>t. LifeType /\ QueueType /\ GroupType /\ DeliveryType /\ Runs /\ Stopped(s)
  BY DEF Typed, StopsClean
\* A step that leaves alone what Stopped(s) reads.
<1>1. ASSUME phase'[s] = phase[s], dispatching'[s] = dispatching[s], working'[s] = working[s],
             group'[s] = group[s], deliveries'[s] = deliveries[s], deadline => deadline',
             ingress'[s] = ingress[s], queue'[s] = queue[s]
      PROVE  Stopped(s)'
  BY <1>1, <1>t DEF Stopped, IngressClosed
<1>2. CASE Swap
  BY <1>2, <1>t DEF Swap, Start, Stopped, IngressClosed, LifeType, coalescer
<1>3. CASE Detach
  <2>1. dispatching' = dispatching /\ working' = working /\ ingress' = ingress /\ queue' = queue
        /\ group' = group /\ deliveries' = deliveries /\ deadline' = deadline
    BY <1>3 DEF Detach, pipe, coalescer
  <2>2. CASE s = live - 1
    <3>1. phase'[s] = "detached" /\ phase[s] = "running"
      BY <1>3, <1>t, <2>2 DEF Detach, Runs, LifeType
    <3> QED
      BY <1>t, <2>1, <3>1 DEF Stopped, IngressClosed
  <2>3. CASE s # live - 1
    BY <1>1, <1>3, <1>t, <2>1, <2>3 DEF Detach, LifeType
  <2> QED
    BY <2>2, <2>3
<1>4. CASE BeginStop
  <2>1. dispatching' = dispatching /\ working' = working /\ ingress' = ingress /\ queue' = queue
        /\ group' = group /\ deliveries' = deliveries /\ deadline' = deadline
    BY <1>4 DEF BeginStop, pipe, coalescer
  <2>2. CASE s = live
    <3>1. phase'[s] = "detached" /\ phase[s] = "running"
      BY <1>4, <1>t, <2>2 DEF BeginStop, Runs, LifeType
    <3> QED
      BY <1>t, <2>1, <3>1 DEF Stopped, IngressClosed
  <2>3. CASE s # live
    BY <1>1, <1>4, <1>t, <2>1, <2>3 DEF BeginStop, LifeType
  <2> QED
    BY <2>2, <2>3
<1>5. CASE Deadline \/ StopReturns \/ Tick \/ UNCHANGED vars
  BY <1>1, <1>5 DEF Deadline, StopReturns, Tick, vars, owner, pipe, coalescer
<1>6. CASE \E e \in Events, k \in {"fail", "ok"} : Publish(e, k)
  BY <1>1, <1>6 DEF Publish, owner, pipe, coalescer
<1>7. ASSUME NEW q \in Services, NEW e \in Events, OnBusEvent(q, e) PROVE Stopped(s)'
  <2>1. /\ phase' = phase /\ dispatching' = dispatching /\ working' = working /\ queue' = queue
        /\ group' = group /\ deliveries' = deliveries /\ deadline' = deadline
    BY <1>7 DEF OnBusEvent, owner, coalescer
  <2>2. IngressClosed(s) \/ s # q => ingress'[s] = ingress[s]
    BY <1>7, <1>t DEF OnBusEvent, QueueType
  <2> QED
    BY <1>t, <2>1, <2>2 DEF Stopped, IngressClosed
<1>8. ASSUME NEW q \in Services \ {s},
             Pipeline(q) \/ Timers(q) \/ Deliver(q) \/ Stopping(q)
      PROVE  Stopped(s)'
  <2>1. CASE Pipeline(q)
    <3>1. /\ phase' = phase /\ deadline' = deadline /\ dispatching'[s] = dispatching[s]
          /\ working'[s] = working[s] /\ ingress'[s] = ingress[s] /\ queue'[s] = queue[s]
      BY <1>8, <1>t, <2>1 DEF Pipeline, Dispatch, Enqueue, DispatchExits, Work, WorkerExits, owner,
         LifeType, QueueType
    <3>2. group'[s] = group[s] /\ deliveries'[s] = deliveries[s]
      BY <1>8, <1>t, <2>1 DEF Pipeline, Dispatch, DispatchExits, Work, WorkerExits, ResetTask, EndGroups,
         Decide, Forward, ForwardAfterDrift, ForwardSummary, Suppress, Starts, coalescer,
         GroupType, DeliveryType
    <3> QED
      BY <1>1, <3>1, <3>2
  <2>2. CASE Timers(q) \/ Deliver(q)
    <3>1. group'[s] = group[s]
      BY <1>8, <1>t, <2>2 DEF Timers, TimerFires, TimerFlush, Flushed, Deliver, coalescer, GroupType
    <3>2. deliveries'[s] = deliveries[s]
      BY <1>8, <1>t, <2>2 DEF Timers, TimerFires, TimerFlush, Deliver, Attempt, Backoff, SendOwed,
         Ends, Becomes, DeliveryType
    <3> QED
      BY <1>1, <2>2, <3>1, <3>2 DEF Timers, TimerFires, TimerFlush, Deliver, owner, pipe
  <2>3. CASE Stopping(q)
    <3>1. phase'[s] = phase[s] /\ group'[s] = group[s] /\ deliveries'[s] = deliveries[s]
      BY <1>8, <1>t, <2>3 DEF Stopping, CloseIngress, CloseChannel, CloseInner, EndGroups, coalescer,
         LifeType, GroupType, DeliveryType
    <3> QED
      BY <1>1, <2>3, <3>1 DEF Stopping, CloseIngress, CloseChannel, CloseInner, owner, pipe
  <2> QED
    BY <1>8, <2>1, <2>2, <2>3
<1>9. CASE Dispatch(s)
  <2>1. /\ phase' = phase /\ dispatching' = dispatching /\ working' = working
        /\ group' = group /\ deliveries' = deliveries /\ deadline' = deadline /\ dispatching[s]
    BY <1>9 DEF Dispatch, owner, coalescer
  <2> QED
    BY <1>t, <2>1 DEF Stopped, IngressClosed
<1>10. CASE DispatchExits(s)
  <2>1. /\ phase' = phase /\ working' = working /\ ingress' = ingress /\ queue' = queue
        /\ group' = group /\ deliveries' = deliveries /\ deadline' = deadline
        /\ dispatching[s] /\ ~dispatching'[s] /\ (CtxDone(s) \/ (IngressClosed(s) /\ ingress[s] = <<>>))
    BY <1>10, <1>t DEF DispatchExits, owner, coalescer, LifeType
  <2> QED
    BY <1>t, <2>1 DEF Stopped, IngressClosed, CtxDone
<1>11. CASE Work(s)
  <2>1. /\ phase' = phase /\ dispatching' = dispatching /\ working' = working /\ ingress' = ingress
        /\ deadline' = deadline /\ working[s]
    BY <1>11 DEF Work, owner
  <2> QED
    BY <1>t, <2>1 DEF Stopped, IngressClosed
<1>12. CASE WorkerExits(s)
  <2>1. /\ phase' = phase /\ dispatching' = dispatching /\ ingress' = ingress /\ queue' = queue
        /\ group' = group /\ deliveries' = deliveries /\ deadline' = deadline
        /\ working[s] /\ ~working'[s] /\ (CtxDone(s) \/ (~dispatching[s] /\ queue[s] = <<>>))
    BY <1>12, <1>t DEF WorkerExits, owner, coalescer, LifeType
  <2> QED
    BY <1>t, <2>1 DEF Stopped, IngressClosed, CtxDone
<1>13. CASE Timers(s)
  <2>1. /\ phase' = phase /\ dispatching' = dispatching /\ working' = working /\ ingress' = ingress
        /\ queue' = queue /\ deadline' = deadline
    BY <1>13 DEF Timers, TimerFires, TimerFlush, owner, pipe
  <2>2. ASSUME group[s] = NoGroup PROVE group'[s] = NoGroup /\ deliveries' = deliveries
    <3>1. group[s].held = {}
      BY <2>2 DEF NoGroup
    <3>2. group' = group \/ group' = [group EXCEPT ![s].timer = 0]
      BY <1>13, <3>1 DEF Timers, TimerFires, TimerFlush
    <3>3. [NoGroup EXCEPT !.timer = 0] = NoGroup
      BY DEF NoGroup
    <3> QED
      BY <1>13, <1>t, <2>2, <3>1, <3>2, <3>3 DEF Timers, TimerFires, TimerFlush, GroupType
  <2> QED
    BY <1>t, <2>1, <2>2 DEF Stopped, IngressClosed
<1>14. CASE Deliver(s)
  <2>1. /\ phase' = phase /\ dispatching' = dispatching /\ working' = working /\ ingress' = ingress
        /\ queue' = queue /\ group' = group /\ deadline' = deadline /\ deliveries[s] # {}
    BY <1>14 DEF Deliver, owner, pipe, coalescer
  <2> QED
    BY <1>t, <2>1 DEF Stopped, IngressClosed
<1>15. CASE Stopping(s)
  <2>1. /\ dispatching' = dispatching /\ working' = working /\ ingress' = ingress /\ queue' = queue
        /\ deadline' = deadline
    BY <1>15 DEF Stopping, CloseIngress, CloseChannel, CloseInner, owner, pipe
  <2>2. CASE CloseIngress(s)
    <3>1. phase[s] = "detached" /\ phase'[s] = "draining"
      BY <1>t, <2>2 DEF CloseIngress, LifeType
    <3> QED
      BY <1>t, <2>1, <3>1 DEF Stopped, IngressClosed
  <2>3. CASE CloseChannel(s)
    <3>1. /\ phase[s] = "draining" /\ phase'[s] = "closing" /\ group'[s] = NoGroup
          /\ ~dispatching[s] /\ ~working[s]
      BY <1>t, <2>3 DEF CloseChannel, EndGroups, LifeType, GroupType
    <3> QED
      BY <1>t, <2>1, <3>1 DEF Stopped, IngressClosed
  <2>4. CASE CloseInner(s)
    <3>1. /\ phase[s] = "closing" /\ phase'[s] = "closed" /\ group' = group
          /\ deliveries' = deliveries /\ deliveries[s] = {}
      BY <1>t, <2>4 DEF CloseInner, AllSent, LifeType, coalescer
    <3> QED
      BY <1>t, <2>1, <3>1 DEF Stopped, IngressClosed
  <2> QED
    BY <1>15, <2>2, <2>3, <2>4 DEF Stopping
<1>16. ASSUME NEW q \in Services, Pipeline(q) \/ Timers(q) \/ Deliver(q) \/ Stopping(q)
       PROVE  Stopped(s)'
  <2>1. CASE q = s
    BY <1>9, <1>10, <1>11, <1>12, <1>13, <1>14, <1>15, <1>16, <2>1 DEF Pipeline
  <2> QED
    BY <1>8, <1>16, <2>1
<1> QED
  BY <1>2, <1>3, <1>4, <1>5, <1>6, <1>7, <1>16 DEF Next, Publisher, Reload, Shutdown

LEMMA StopsCleanStep == Typed /\ StopsClean /\ [Next]_vars => StopsClean'
  BY RunsStep, StoppedStep DEF StopsClean

-----------------------------------------------------------------------------
\* From never and once to the counts 0 and 1.
LEMMA CountedInQueue ==
    ASSUME NEW q, NEW e
    PROVE  /\ NotIn(q, e) => Cardinality({i \in DOMAIN q : q[i] = e}) = 0
           /\ OnceIn(q, e) => Cardinality({i \in DOMAIN q : q[i] = e}) = 1
<1>1. NotIn(q, e) => {i \in DOMAIN q : q[i] = e} = {}
  BY DEF NotIn
<1>2. ASSUME OnceIn(q, e) PROVE \E i : {j \in DOMAIN q : q[j] = e} = {i}
  BY <1>2 DEF OnceIn
<1> QED
  BY <1>1, <1>2, FS_EmptySet, FS_Singleton

LEMMA CountedInDeliveries ==
    ASSUME NEW D, NEW e
    PROVE  /\ NoneOf(D, e) => Cardinality({d \in D : e \in d.events}) = 0
           /\ OneOf(D, e) => Cardinality({d \in D : e \in d.events}) = 1
<1>1. NoneOf(D, e) => {d \in D : e \in d.events} = {}
  BY DEF NoneOf
<1>2. ASSUME OneOf(D, e) PROVE \E d : {c \in D : e \in c.events} = {d}
  BY <1>2 DEF OneOf
<1> QED
  BY <1>1, <1>2, FS_EmptySet, FS_Singleton

LEMMA PlacedCounts ==
    ASSUME NEW s, NEW e, Placed(s, e)
    PROVE  InHands(s, e) = (IF fate[s][e] = "accepted" THEN 1 ELSE 0)
<1>i. /\ NotIn(ingress[s], e) => Cardinality({i \in DOMAIN ingress[s] : ingress[s][i] = e}) = 0
      /\ OnceIn(ingress[s], e) => Cardinality({i \in DOMAIN ingress[s] : ingress[s][i] = e}) = 1
  BY CountedInQueue, Zenon
<1>q. /\ NotIn(queue[s], e) => Cardinality({i \in DOMAIN queue[s] : queue[s][i] = e}) = 0
      /\ OnceIn(queue[s], e) => Cardinality({i \in DOMAIN queue[s] : queue[s][i] = e}) = 1
  BY CountedInQueue, Zenon
<1>d. /\ NoneOf(deliveries[s], e) => Cardinality({d \in deliveries[s] : e \in d.events}) = 0
      /\ OneOf(deliveries[s], e) => Cardinality({d \in deliveries[s] : e \in d.events}) = 1
  BY CountedInDeliveries, Zenon
<1>2. CASE Out(s, e)
  BY <1>i, <1>q, <1>d, <1>2 DEF Out, InHands
<1>3. CASE Entering(s, e)
  BY <1>i, <1>q, <1>d, <1>3 DEF Entering, InHands
<1>4. CASE Queued(s, e)
  BY <1>i, <1>q, <1>d, <1>4 DEF Queued, InHands
<1>5. CASE Sent(s, e)
  BY <1>i, <1>q, <1>d, <1>5 DEF Sent, InHands
<1>6. CASE Counted(s, e)
  BY <1>i, <1>q, <1>d, <1>6 DEF Counted, InHands
<1> QED
  BY <1>2, <1>3, <1>4, <1>5, <1>6 DEF Placed

LEMMA InitEntries == Init => Entries /\ Numbered /\ StopsClean
<1> SUFFICES ASSUME Init PROVE Entries /\ Numbered /\ StopsClean
  OBVIOUS
<1>1. ASSUME NEW s \in Services, NEW e \in Events PROVE Entry(s, e)
  <2>1. /\ ingress[s] = <<>> /\ queue[s] = <<>> /\ deliveries[s] = {} /\ group[s].held = {}
        /\ fate[s][e] = "none" /\ handlers[e] = {}
    BY DEF Init, NoGroup
  <2>2. Out(s, e)
    BY <2>1 DEF Out, NotIn, NoneOf
  <2> QED
    BY <2>1, <2>2 DEF Entry, Placed
<1>2. Entries
  BY <1>1 DEF Entries, Init, NoGroup
<1>3. Published = 1 .. 0
  BY DEF Init, Published
<1>4. Numbered
  BY <1>3 DEF Numbered
<1>5. StopsClean
  BY ConstantFacts DEF Init, StopsClean, Runs, Stopped, IngressClosed
<1> QED
  BY <1>2, <1>4, <1>5

\* A failure a service accepted is in its hands exactly once or has met exactly one
\* end, and a closed service holds nothing that the deadline did not cut short.
THEOREM AccountedForOnce == Spec => []AccountedOnce
<1>1. ASSUME Entries, StopsClean PROVE AccountedOnce
  <2>1. ASSUME NEW s \in Services, NEW e \in Events, Fail(e)
        PROVE  InHands(s, e) = (IF fate[s][e] = "accepted" THEN 1 ELSE 0)
    BY <1>1, <2>1, PlacedCounts DEF Entries, Entry, Fail
  <2>2. ASSUME NEW s \in Services, phase[s] = "closed"
        PROVE  /\ deliveries[s] = {} /\ group[s] = NoGroup
               /\ deadline \/ (ingress[s] = <<>> /\ queue[s] = <<>>)
    BY <1>1, <2>2 DEF StopsClean, Stopped, IngressClosed
  <2> QED
    BY <2>1, <2>2 DEF AccountedOnce
<1> QED
  BY <1>1, TypeInit, TypeStep, InitEntries, EntriesStep, StopsCleanStep, PTL DEF Spec

-----------------------------------------------------------------------------
(***************************************************************************)
(* The stop of a service is never stuck.  StopNeverStuck says it with      *)
(* ENABLED, which the prover does not know: here it is said of the guards. *)
(***************************************************************************)
\* What the actions of the stop and of the goroutines it waits for require.
MayStop(s) ==
    \/ phase[s] = "detached"                                       \* CloseIngress
    \/ phase[s] = "draining" /\ ~dispatching[s] /\ ~working[s]     \* CloseChannel
    \/ phase[s] = "closing" /\ AllSent(s)                          \* CloseInner
MayRun(s) ==
    \/ dispatching[s] /\ (ingress[s] # <<>> \/ IngressClosed(s))   \* Dispatch, DispatchExits
    \/ /\ working[s] /\ \A d \in deliveries[s] : d.by # "worker"
       /\ queue[s] # <<>> \/ ~dispatching[s]                       \* Work, WorkerExits
MayDeliver(s) ==
    \E d \in deliveries[s] :
        \/ d.stage \in {"attempt", "waiting"}                      \* Attempt, Backoff
        \/ d.stage = "owed" /\ \A o \in deliveries[s] : o.by # "timer"  \* SendOwed

\* Only Close owes a summary: a timer's summary, which it waits for, waits for nothing.
OwedByClose ==
    \A s \in Services : \A d \in deliveries[s] : d.stage = "owed" => d.by = "close"

LEMMA OwedStep == Typed /\ OwedByClose /\ [Next]_vars => OwedByClose'
<1> SUFFICES ASSUME Typed, OwedByClose, [Next]_vars PROVE OwedByClose'
  OBVIOUS
<1>t. deliveries \in [Services -> SUBSET Deliveries]
  BY DEF Typed, DeliveryType
<1>1. CASE UNCHANGED deliveries
  BY <1>1 DEF OwedByClose
<1>2. ASSUME NEW s \in Services, NEW new, deliveries' = [deliveries EXCEPT ![s] = new],
             \A d \in new : d \in deliveries[s] \/ d.stage # "owed" \/ d.by = "close"
      PROVE  OwedByClose'
  BY <1>2, <1>t DEF OwedByClose
<1>3. ASSUME NEW by, NEW evs
      PROVE  /\ Delivery(by, evs).stage = "attempt"
             /\ [Delivery("close", evs) EXCEPT !.stage = "owed"].by = "close"
  BY DEF Delivery
<1>4. ASSUME NEW s \in Services, NEW d, d.stage # "owed" \/ d.by = "close", EndGroups(s, d)
      PROVE  OwedByClose'
  <2>1. deliveries' = [deliveries EXCEPT ![s] = deliveries[s] \cup Owed(s, d)]
    BY <1>4 DEF EndGroups
  <2>2. \A x \in deliveries[s] \cup Owed(s, d) : x \in deliveries[s] \/ x = d
    BY DEF Owed
  <2> HIDE DEF Owed
  <2> QED
    BY <1>2, <1>4, <2>1, <2>2
<1>5. ASSUME NEW s \in Services, Work(s) PROVE OwedByClose'
  <2>1. CASE ResetTask(s)
    BY <1>3, <1>4, <2>1 DEF ResetTask
  <2>2. CASE \E evs : Starts(s, evs)
    <3>1. PICK evs : Starts(s, evs)
      BY <2>2
    <3>2. deliveries' = [deliveries EXCEPT ![s] = deliveries[s] \cup {Delivery("worker", evs)}]
      BY <3>1 DEF Starts
    <3>3. \A x \in deliveries[s] \cup {Delivery("worker", evs)} :
            x \in deliveries[s] \/ x.stage # "owed" \/ x.by = "close"
      BY <1>3
    <3> QED
      BY <1>2, <3>2, <3>3
  <2>3. CASE Suppress(s, Head(queue[s]))
    BY <1>1, <2>3 DEF Suppress
  <2>4. Decide(s, Head(queue[s])) =>
           Suppress(s, Head(queue[s])) \/ \E evs : Starts(s, evs)
    BY Zenon DEF Decide, Forward, ForwardAfterDrift, ForwardSummary
  <2> QED
    BY <1>5, <2>1, <2>2, <2>3, <2>4 DEF Work
<1>6. ASSUME NEW s \in Services, Timers(s) PROVE OwedByClose'
  <2>1. CASE TimerFires(s)
    BY <1>1, <2>1 DEF TimerFires
  <2>2. CASE TimerFlush(s)
    <3> DEFINE d == Delivery("timer", group[s].held)
    <3>1. \A x \in deliveries[s] \cup {d} :
            x \in deliveries[s] \/ x.stage # "owed" \/ x.by = "close"
      BY <1>3
    <3>2. \/ deliveries' = [deliveries EXCEPT ![s] = deliveries[s] \cup {d}]
          \/ UNCHANGED deliveries
      BY <2>2 DEF TimerFlush
    <3> HIDE DEF d
    <3> QED
      BY <1>1, <1>2, <3>1, <3>2
  <2> QED
    BY <1>6, <2>1, <2>2 DEF Timers
<1>7. ASSUME NEW s \in Services, Deliver(s) PROVE OwedByClose'
  <2>1. PICK d \in deliveries[s] : Attempt(s, d) \/ Backoff(s, d) \/ SendOwed(s, d)
    BY <1>7 DEF Deliver
  <2>2. d \in Deliveries
    BY <1>t, <2>1
  <2>3. ASSUME NEW f, Ends(s, d, f) PROVE OwedByClose'
    <3>1. deliveries' = [deliveries EXCEPT ![s] = deliveries[s] \ {d}]
      BY <2>3 DEF Ends
    <3>2. \A x \in deliveries[s] \ {d} : x \in deliveries[s] \/ x.stage # "owed" \/ x.by = "close"
      OBVIOUS
    <3> QED
      BY <1>2, <3>1, <3>2
  <2>4. ASSUME NEW e, e.stage # "owed", Becomes(s, d, e) PROVE OwedByClose'
    <3>1. deliveries' = [deliveries EXCEPT ![s] = (deliveries[s] \ {d}) \cup {e}]
      BY <2>4 DEF Becomes
    <3>2. \A x \in (deliveries[s] \ {d}) \cup {e} :
            x \in deliveries[s] \/ x.stage # "owed" \/ x.by = "close"
      BY <2>4
    <3> QED
      BY <1>2, <3>1, <3>2
  <2>5. /\ [d EXCEPT !.stage = "waiting"].stage = "waiting"
        /\ [d EXCEPT !.stage = "attempt", !.tries = @ + 1].stage = "attempt"
        /\ [d EXCEPT !.stage = "attempt"].stage = "attempt"
    BY <2>2 DEF Deliveries
  <2> QED
    BY <2>1, <2>3, <2>4, <2>5 DEF Attempt, Backoff, SendOwed
<1>8. ASSUME NEW s \in Services, Stopping(s) PROVE OwedByClose'
  <2>1. CASE CloseChannel(s)
    BY <1>3, <1>4, <2>1 DEF CloseChannel
  <2> QED
    BY <1>1, <1>8, <2>1 DEF Stopping, CloseIngress, CloseInner
<1>9. ASSUME NEW s \in Services, Pipeline(s) PROVE OwedByClose'
  BY <1>1, <1>5, <1>9 DEF Pipeline, Dispatch, DispatchExits, WorkerExits
<1>10. CASE Publisher \/ Reload \/ Shutdown \/ Tick \/ UNCHANGED vars
  BY <1>1, <1>10 DEF Publisher, Publish, OnBusEvent, Reload, Swap, Detach, Shutdown, BeginStop,
     Deadline, StopReturns, Tick, vars
<1> QED
  BY <1>6, <1>7, <1>8, <1>9, <1>10 DEF Next

\* Who has deliveries can go on with one of them.
LEMMA SomeoneDelivers ==
    ASSUME Typed, OwedByClose, NEW s \in Services, deliveries[s] # {}
    PROVE  MayDeliver(s)
<1>1. \A d \in deliveries[s] : d.stage \in {"owed", "attempt", "waiting"}
  BY DEF Typed, DeliveryType, Deliveries
<1>2. CASE \E d \in deliveries[s] : d.stage # "owed"
  BY <1>1, <1>2 DEF MayDeliver
<1>3. CASE \A d \in deliveries[s] : d.stage = "owed"
  <2>1. \A o \in deliveries[s] : o.by # "timer"
    BY <1>3 DEF OwedByClose
  <2> QED
    BY <1>3, <2>1 DEF MayDeliver
<1> QED
  BY <1>2, <1>3

\* A service that is being stopped always has an action whose guard holds, whatever it
\* holds and without the deadline: the waits of dispatcher, worker, summaries and Close
\* form no circle.
THEOREM StopAlwaysGoesOn ==
    Spec => [](\A s \in Services :
                  phase[s] \in {"detached", "draining", "closing"} =>
                      MayStop(s) \/ MayRun(s) \/ MayDeliver(s))
<1> DEFINE A == \A s \in Services :
                   phase[s] \in {"detached", "draining", "closing"} =>
                       MayStop(s) \/ MayRun(s) \/ MayDeliver(s)
<1>1. ASSUME Typed, OwedByClose PROVE A
  <2>1. SUFFICES ASSUME NEW s \in Services, phase[s] \in {"detached", "draining", "closing"},
                        ~MayDeliver(s)
                 PROVE  MayStop(s) \/ MayRun(s)
    OBVIOUS
  <2>2. deliveries[s] = {}
    BY <1>1, <2>1, SomeoneDelivers
  <2>3. CASE phase[s] = "draining"
    <3>1. CASE dispatching[s]
      BY <2>3, <3>1 DEF MayRun, IngressClosed
    <3>2. CASE ~dispatching[s] /\ working[s]
      BY <2>2, <3>2 DEF MayRun
    <3> QED
      BY <2>3, <3>1, <3>2 DEF MayStop
  <2> QED
    BY <2>1, <2>2, <2>3 DEF MayStop, AllSent
<1>2. Init => OwedByClose
  BY DEF Init, OwedByClose
<1>3. Spec => []A
  <2> HIDE DEF A
  <2> QED
    BY <1>1, <1>2, TypeInit, TypeStep, OwedStep, PTL DEF Spec
<1> QED
  BY <1>3

=============================================================================
