------------------------------- MODULE Notify -------------------------------
(***************************************************************************)
(* Notifications: from a published run event to the deliveries of one      *)
(* outbound channel.  The event bus, notify.Service with its dispatcher    *)
(* and worker, the coalescing wrapper around the channel, the retries of   *)
(* a delivery, and liveNotify, which replaces the service on a reload and  *)
(* stops it with the daemon.                                               *)
(*                                                                         *)
(* One task and one fingerprint of its failures; the built-in route sends  *)
(* failures to the channel and nothing else, so a success reaches it only  *)
(* to close the task's group.  Groups of other fingerprints share nothing  *)
(* but the worker.  A count is the set of the events counted.              *)
(***************************************************************************)
EXTENDS Integers, Sequences, FiniteSets

CONSTANTS
    MaxServices,    \* bound: how many services are built, one per reload
    MaxEvents,      \* bound: how many events are published by the time a service is live
    Capacity,       \* DefaultActionQueueSize
    Window,         \* Config.Window
    CoalesceLimit,  \* Config.CoalesceLimit
    MaxTries,       \* bound: attempts until the retry budget is spent
    MaxTime         \* bound: the end of time

Services == 1 .. MaxServices
Events == 1 .. MaxEvents[1]

ASSUME NotifyAssumption ==
    /\ MaxServices \in Nat \ {0}
    /\ MaxEvents \in [Services -> Nat]
    /\ \A s \in Services : MaxEvents[s] <= MaxEvents[1]
    /\ Capacity \in Nat \ {0}
    /\ Window \in Nat \ {0}
    /\ CoalesceLimit \in Nat
    /\ MaxTries \in Nat \ {0}
    /\ MaxTime \in Nat

VARIABLES
    now,
    kind,           \* of each event: "none" until it is published, then "fail" or "ok"
    handlers,       \* per event: the services its publisher has yet to invoke
    copied,         \* history: the live service when the publisher copied the handlers, 0 before
    subscribed,     \* services on the bus
    live,           \* liveNotify.service
    swapping,       \* swap is between next.Start and old.Detach
    shutdown,       \* liveNotify.Stop: "no", "begun", "returned"
    deadline,       \* its ctx has ended
    phase,          \* per service: "new", "running", "detached", "draining", "closing", "closed"
    ingress,        \* ingressCh
    dispatching,    \* runDispatch is alive
    queue,          \* the channel's queue of the dispatcher
    working,        \* the channel's worker is alive
    group,          \* coalesce.Channel.state
    armed,          \* timers the runtime will fire, a stopped one taken out
    fired,          \* timerFlush callbacks waiting for the mutex, by the event that armed them
    deliveries,     \* calls of inner.Execute in progress or owed
    fate            \* of each event at each service; "answered" is delivered, or reported in-app

bus == <<kind, handlers, copied, subscribed>>
owner == <<live, swapping, shutdown, deadline>>
pipe == <<ingress, dispatching, queue, working>>
coalescer == <<group, armed, fired>>
vars == <<now, bus, owner, phase, pipe, coalescer, deliveries, fate>>

\* "full" and "closed": the two ways in which onBusEvent refuses an event.
Fates == {"none", "full", "closed", "accepted", "evicted", "stale", "answered", "abandoned"}
Groups == [open : BOOLEAN, since : Nat, held : SUBSET Events, timer : Events \cup {0}]
NoGroup == [open |-> FALSE, since |-> 0, held |-> {}, timer |-> 0]
Deliveries == [by : {"worker", "timer", "close"}, events : SUBSET Events,
               stage : {"owed", "attempt", "waiting"}, tries : 1 .. MaxTries]

Delivery(by, evs) == [by |-> by, events |-> evs, stage |-> "attempt", tries |-> 1]
Fail(e) == kind[e] = "fail"

\* The fate of a set of events at a service.
Settle(s, evs, f) == fate' = [fate EXCEPT ![s] = [e \in Events |-> IF e \in evs THEN f ELSE @[e]]]

-----------------------------------------------------------------------------
(***************************************************************************)
(* The bus, and a service's ingress                                        *)
(***************************************************************************)
Published == {e \in Events : kind[e] # "none"}

\* Publish copies the list of handlers, then invokes them one by one.
Publish(e, k) ==
    /\ e = Cardinality(Published) + 1 /\ e <= MaxEvents[live]
    /\ kind' = [kind EXCEPT ![e] = k]
    /\ handlers' = [handlers EXCEPT ![e] = subscribed]
    /\ copied' = [copied EXCEPT ![e] = live]
    /\ UNCHANGED <<now, subscribed, owner, phase, pipe, coalescer, deliveries, fate>>

\* Broken variant: Stop waits for the dispatcher without closing its ingress.
IngressClosedLate(s) == phase[s] \in {"closing", "closed"}
IngressClosed(s) == phase[s] \in {"draining", "closing", "closed"}

OnBusEvent(s, e) ==
    /\ s \in handlers[e]
    /\ handlers' = [handlers EXCEPT ![e] = @ \ {s}]
    /\ \/ /\ IngressClosed(s)
          /\ Settle(s, {e}, "closed") /\ UNCHANGED ingress
       \/ /\ ~IngressClosed(s) /\ Len(ingress[s]) >= Capacity
          /\ Settle(s, {e}, "full") /\ UNCHANGED ingress
       \/ /\ ~IngressClosed(s) /\ Len(ingress[s]) < Capacity
          /\ ingress' = [ingress EXCEPT ![s] = Append(@, e)]
          /\ Settle(s, {e}, "accepted")
    /\ UNCHANGED <<now, kind, copied, subscribed, owner, phase, dispatching, queue, working,
                   coalescer, deliveries>>

-----------------------------------------------------------------------------
(***************************************************************************)
(* The dispatcher                                                          *)
(***************************************************************************)
\* The context of a service's goroutines ends when the deadline meets its Stop.
CtxDone(s) == deadline /\ phase[s] \in {"draining", "closing"}

\* Broken variant: the event is sent before room is made for it.
EnqueueUnbounded(s, e) ==
    /\ queue' = [queue EXCEPT ![s] = Append(@, e)]
    /\ UNCHANGED fate
\* enqueue: SendDropOldest sends when there is room.  A queue its first select
\* found full loses its oldest item to the second, even when the worker has made
\* room in between: the queue is only known to hold an item then.
Enqueue(s, e) ==
    \/ /\ Len(queue[s]) < Capacity
       /\ queue' = [queue EXCEPT ![s] = Append(@, e)]
       /\ UNCHANGED fate
    \/ /\ queue[s] # <<>>
       /\ queue' = [queue EXCEPT ![s] = Append(Tail(@), e)]
       /\ Settle(s, {Head(queue[s])}, "evicted")

\* A failure is routed; a success is queued with deliver = false.
Dispatch(s) ==
    /\ dispatching[s] /\ ingress[s] # <<>>
    /\ ingress' = [ingress EXCEPT ![s] = Tail(@)]
    /\ Enqueue(s, Head(ingress[s]))
    /\ UNCHANGED <<now, bus, owner, phase, dispatching, working, coalescer, deliveries>>

\* runDispatch exits; Stop's goroutine, waiting for it, closes the queues.
DispatchExits(s) ==
    /\ dispatching[s]
    /\ CtxDone(s) \/ (IngressClosed(s) /\ ingress[s] = <<>>)
    /\ dispatching' = [dispatching EXCEPT ![s] = FALSE]
    /\ UNCHANGED <<now, bus, owner, phase, ingress, queue, working, coalescer,
                   deliveries, fate>>

-----------------------------------------------------------------------------
(***************************************************************************)
(* The coalescing channel                                                  *)
(***************************************************************************)
\* Broken variant: the timer is stopped, but its group still seems to have one.
StopTimerOnly(g) == g
\* fpState.stopTimer; Disarmed is the runtime's side of it.
StopTimer(g) == [g EXCEPT !.timer = 0]
Disarmed(s) == {t \in armed[s] : t.event # group[s].timer}

Starts(s, evs) == deliveries' = [deliveries EXCEPT ![s] = @ \cup {Delivery("worker", evs)}]

Forward(s, e) ==
    /\ ~group[s].open
    /\ group' = [group EXCEPT ![s] = [NoGroup EXCEPT !.open = TRUE, !.since = now]]
    /\ Starts(s, {e})
    /\ UNCHANGED <<armed, fate>>

\* The window is over although its timer's callback has not run: its count is dropped.
ForwardAfterDrift(s, e) ==
    /\ group[s].open /\ now - group[s].since >= Window
    /\ group' = [group EXCEPT ![s] = StopTimer([@ EXCEPT !.since = now, !.held = {}])]
    /\ armed' = [armed EXCEPT ![s] = Disarmed(s)]
    /\ Settle(s, group[s].held, "stale")
    /\ Starts(s, {e})

InWindow(s) == group[s].open /\ now - group[s].since < Window
AtLimit(s) == CoalesceLimit > 1 /\ Cardinality(group[s].held) + 1 >= CoalesceLimit

ForwardSummary(s, e) ==
    /\ InWindow(s) /\ AtLimit(s)
    /\ group' = [group EXCEPT ![s] = StopTimer([@ EXCEPT !.since = now, !.held = {}])]
    /\ armed' = [armed EXCEPT ![s] = Disarmed(s)]
    /\ Starts(s, group[s].held \cup {e})
    /\ UNCHANGED fate

Suppress(s, e) ==
    /\ InWindow(s) /\ ~AtLimit(s)
    /\ IF group[s].timer = 0
       THEN /\ group' = [group EXCEPT ![s].held = @ \cup {e}, ![s].timer = e]
            /\ armed' = [armed EXCEPT ![s] = @ \cup {[event |-> e, due |-> group[s].since + Window]}]
       ELSE /\ group' = [group EXCEPT ![s].held = @ \cup {e}]
            /\ UNCHANGED armed
    /\ UNCHANGED <<deliveries, fate>>

Decide(s, e) == Forward(s, e) \/ ForwardAfterDrift(s, e) \/ ForwardSummary(s, e) \/ Suppress(s, e)

\* What endGroups returns, as a delivery by its caller.
Owed(s, d) == IF d.events = {} THEN {} ELSE {d}
EndGroups(s, d) ==
    /\ group' = [group EXCEPT ![s] = NoGroup]
    /\ armed' = [armed EXCEPT ![s] = Disarmed(s)]
    /\ deliveries' = [deliveries EXCEPT ![s] = @ \cup Owed(s, d)]
    /\ UNCHANGED fate

ResetTask(s) == EndGroups(s, Delivery("worker", group[s].held))

\* The worker takes an item and, of a failure, makes the decision.
Work(s) ==
    /\ working[s] /\ queue[s] # <<>>
    /\ \A d \in deliveries[s] : d.by # "worker"
    /\ queue' = [queue EXCEPT ![s] = Tail(@)]
    /\ \/ ~Fail(Head(queue[s])) /\ ResetTask(s)
       \/ Fail(Head(queue[s])) /\ Decide(s, Head(queue[s]))
    /\ UNCHANGED <<now, bus, owner, phase, ingress, dispatching, working, fired>>

WorkerExits(s) ==
    /\ working[s] /\ \A d \in deliveries[s] : d.by # "worker"
    /\ CtxDone(s) \/ (~dispatching[s] /\ queue[s] = <<>>)
    /\ working' = [working EXCEPT ![s] = FALSE]
    /\ UNCHANGED <<now, bus, owner, phase, ingress, dispatching, queue, coalescer,
                   deliveries, fate>>

\* A timer's goroutine begins, and from now on Stop comes too late for it.
TimerFires(s) ==
    /\ \E t \in armed[s] :
          /\ t.due <= now
          /\ armed' = [armed EXCEPT ![s] = @ \ {t}]
          /\ fired' = [fired EXCEPT ![s] = @ \cup {t.event}]
    /\ UNCHANGED <<now, bus, owner, phase, pipe, group, deliveries, fate>>

\* Broken variant: the window stays open, and with it what its summary counted.
FlushedInPlace(s) == [group EXCEPT ![s].timer = 0]
\* A group whose summary is sent is forgotten.
Flushed(s) == [group EXCEPT ![s] = NoGroup]

\* timerFlush holds a fingerprint, not a group: whichever group it finds is the
\* one it ends.  Close has ended them all before any callback can find its mark.
TimerFlush(s) ==
    /\ \E c \in fired[s] : fired' = [fired EXCEPT ![s] = @ \ {c}]
    /\ IF group[s].held = {}
       THEN /\ group' = [group EXCEPT ![s].timer = 0]
            /\ UNCHANGED deliveries
       ELSE /\ group' = Flushed(s)
            /\ deliveries' = [deliveries EXCEPT ![s] = @ \cup {Delivery("timer", group[s].held)}]
    /\ UNCHANGED <<now, bus, owner, phase, pipe, armed, fate>>

-----------------------------------------------------------------------------
(***************************************************************************)
(* One delivery: RetryWithBackoff around the channel's own attempt         *)
(***************************************************************************)
Ends(s, d, f) ==
    /\ deliveries' = [deliveries EXCEPT ![s] = @ \ {d}]
    /\ Settle(s, d.events, f)
Becomes(s, d, e) ==
    /\ deliveries' = [deliveries EXCEPT ![s] = (@ \ {d}) \cup {e}]
    /\ UNCHANGED fate

\* The attempt succeeds, fails for good, or fails in a way worth a retry.
Attempt(s, d) ==
    /\ d.stage = "attempt"
    /\ \/ Ends(s, d, "answered")
       \/ CtxDone(s) /\ Ends(s, d, "abandoned")
       \/ ~CtxDone(s) /\ d.tries < MaxTries /\ Becomes(s, d, [d EXCEPT !.stage = "waiting"])

\* The backoff: another attempt, or the end of the context, or of all retries.
Backoff(s, d) ==
    /\ d.stage = "waiting"
    /\ \/ Becomes(s, d, [d EXCEPT !.stage = "attempt", !.tries = @ + 1])
       \/ CtxDone(s) /\ Ends(s, d, "abandoned")
       \/ shutdown # "no" /\ Ends(s, d, "answered")

\* Close sends what it owes when no timer's summary is in flight any more.
SendOwed(s, d) ==
    /\ d.stage = "owed"
    /\ \A o \in deliveries[s] : o.by # "timer"
    /\ Becomes(s, d, [d EXCEPT !.stage = "attempt"])

Deliver(s) ==
    /\ \E d \in deliveries[s] : Attempt(s, d) \/ Backoff(s, d) \/ SendOwed(s, d)
    /\ UNCHANGED <<now, bus, owner, phase, pipe, coalescer>>

-----------------------------------------------------------------------------
(***************************************************************************)
(* The life of a service: reload, shutdown, Stop                           *)
(***************************************************************************)
\* Broken variant: Detach comes first, and the next service subscribes after it.
ListenersSwapped(s, both) == IF both THEN {} ELSE {s}
\* Who is on the bus while service s takes over: both, from s's SubscribeAll to
\* the Detach of the one before, then s alone.
Listeners(s, both) == IF both THEN {s - 1, s} ELSE {s}

Start(s) ==
    /\ phase' = [phase EXCEPT ![s] = "running"]
    /\ subscribed' = Listeners(s, TRUE)
    /\ dispatching' = [dispatching EXCEPT ![s] = TRUE]
    /\ working' = [working EXCEPT ![s] = TRUE]

Swap ==
    /\ shutdown = "no" /\ ~swapping /\ live + 1 \in Services
    /\ Cardinality(Published) <= MaxEvents[live + 1]
    /\ Start(live + 1)
    /\ live' = live + 1 /\ swapping' = TRUE
    /\ UNCHANGED <<now, kind, handlers, copied, shutdown, deadline, ingress, queue, coalescer,
                   deliveries, fate>>

Detach ==
    /\ swapping /\ swapping' = FALSE
    /\ subscribed' = Listeners(live, FALSE)
    /\ phase' = [phase EXCEPT ![live - 1] = "detached"]
    /\ UNCHANGED <<now, kind, handlers, copied, live, shutdown, deadline, pipe, coalescer, deliveries, fate>>

\* liveNotify.Stop: the live service is detached by its own Stop.
BeginStop ==
    /\ shutdown = "no" /\ ~swapping
    /\ shutdown' = "begun"
    /\ subscribed' = {}
    /\ phase' = [phase EXCEPT ![live] = "detached"]
    /\ UNCHANGED <<now, kind, handlers, copied, live, swapping, deadline, pipe, coalescer, deliveries, fate>>

Deadline ==
    /\ shutdown = "begun" /\ ~deadline
    /\ deadline' = TRUE
    /\ UNCHANGED <<now, bus, live, swapping, shutdown, phase, pipe, coalescer, deliveries, fate>>

\* Service.Stop closes the ingress,
CloseIngress(s) ==
    /\ phase[s] = "detached"
    /\ phase' = [phase EXCEPT ![s] = "draining"]
    /\ UNCHANGED <<now, bus, owner, pipe, coalescer, deliveries, fate>>

\* waits for the dispatcher and the worker and closes the channel, which ends its groups,
CloseChannel(s) ==
    /\ phase[s] = "draining" /\ ~dispatching[s] /\ ~working[s]
    /\ phase' = [phase EXCEPT ![s] = "closing"]
    /\ EndGroups(s, [Delivery("close", group[s].held) EXCEPT !.stage = "owed"])
    /\ UNCHANGED <<now, bus, owner, pipe, fired>>

\* c.wg.Wait, and the loop over the owed summaries.
AllSent(s) == deliveries[s] = {}

\* and closes the wrapped channel when nothing is being sent through it.
CloseInner(s) ==
    /\ phase[s] = "closing" /\ AllSent(s)
    /\ phase' = [phase EXCEPT ![s] = "closed"]
    /\ UNCHANGED <<now, bus, owner, pipe, coalescer, deliveries, fate>>

StopReturns ==
    /\ shutdown = "begun"
    /\ \A s \in Services : phase[s] \in {"new", "closed"}
    /\ shutdown' = "returned"
    /\ UNCHANGED <<now, bus, live, swapping, deadline, phase, pipe, coalescer, deliveries, fate>>

-----------------------------------------------------------------------------
Tick ==
    /\ now < MaxTime
    /\ now' = now + 1
    /\ UNCHANGED <<bus, owner, phase, pipe, coalescer, deliveries, fate>>

Init ==
    /\ now = 0
    /\ kind = [e \in Events |-> "none"]
    /\ handlers = [e \in Events |-> {}]
    /\ copied = [e \in Events |-> 0]
    /\ subscribed = {1}
    /\ live = 1 /\ swapping = FALSE /\ shutdown = "no" /\ deadline = FALSE
    /\ phase = [s \in Services |-> IF s = 1 THEN "running" ELSE "new"]
    /\ ingress = [s \in Services |-> <<>>]
    /\ dispatching = [s \in Services |-> s = 1]
    /\ queue = [s \in Services |-> <<>>]
    /\ working = [s \in Services |-> s = 1]
    /\ group = [s \in Services |-> NoGroup]
    /\ armed = [s \in Services |-> {}]
    /\ fired = [s \in Services |-> {}]
    /\ deliveries = [s \in Services |-> {}]
    /\ fate = [s \in Services |-> [e \in Events |-> "none"]]

Publisher == \E e \in Events : \/ \E k \in {"fail", "ok"} : Publish(e, k)
                               \/ \E s \in Services : OnBusEvent(s, e)
Pipeline(s) == Dispatch(s) \/ DispatchExits(s) \/ Work(s) \/ WorkerExits(s)
Timers(s) == TimerFires(s) \/ TimerFlush(s)
Stopping(s) == CloseIngress(s) \/ CloseChannel(s) \/ CloseInner(s)
Reload == Swap \/ Detach
Shutdown == BeginStop \/ Deadline \/ StopReturns

Next ==
    \/ Publisher \/ Reload \/ Shutdown \/ Tick
    \/ \E s \in Services : Pipeline(s) \/ Timers(s) \/ Deliver(s) \/ Stopping(s)

Spec == Init /\ [][Next]_vars

-----------------------------------------------------------------------------
(***************************************************************************)
(* Properties                                                              *)
(***************************************************************************)
TypeOK ==
    /\ now \in 0 .. MaxTime
    /\ kind \in [Events -> {"none", "fail", "ok"}]
    /\ handlers \in [Events -> SUBSET Services]
    /\ copied \in [Events -> Services \cup {0}]
    /\ subscribed \subseteq Services
    /\ live \in Services
    /\ swapping \in BOOLEAN
    /\ shutdown \in {"no", "begun", "returned"}
    /\ deadline \in BOOLEAN
    /\ phase \in [Services -> {"new", "running", "detached", "draining", "closing", "closed"}]
    /\ ingress \in [Services -> Seq(Events)]
    /\ dispatching \in [Services -> BOOLEAN]
    /\ queue \in [Services -> Seq(Events)]
    /\ working \in [Services -> BOOLEAN]
    /\ group \in [Services -> Groups]
    /\ armed \in [Services -> SUBSET [event : Events, due : Nat]]
    /\ fired \in [Services -> SUBSET Events]
    /\ deliveries \in [Services -> SUBSET Deliveries]
    /\ fate \in [Services -> [Events -> Fates]]
    /\ \A s \in Services : Len(ingress[s]) <= Capacity /\ Len(queue[s]) <= Capacity

\* How often a failure is in a service's hands: waiting, counted or being sent.
InHands(s, e) ==
    Cardinality({i \in DOMAIN ingress[s] : ingress[s][i] = e})
    + Cardinality({i \in DOMAIN queue[s] : queue[s][i] = e})
    + Cardinality({d \in deliveries[s] : e \in d.events})
    + (IF e \in group[s].held THEN 1 ELSE 0)

\* A failure a service accepted is in its hands exactly once, or has met exactly
\* one end: it was sent, by itself or within one count, or surfaced in-app, or
\* given up where the code says so (queue full, drifted window, deadline).  A
\* service that closed its channel holds nothing, unless the deadline cut it short.
AccountedOnce ==
    \A s \in Services :
        /\ \A e \in Events :
              Fail(e) => InHands(s, e) = (IF fate[s][e] = "accepted" THEN 1 ELSE 0)
        /\ phase[s] = "closed" => /\ deliveries[s] = {} /\ group[s] = NoGroup
                                  /\ deadline \/ (ingress[s] = <<>> /\ queue[s] = <<>>)

\* Suppressed failures are never left to themselves: a timer of their group is
\* armed, or its callback waits for the mutex, whatever callbacks of earlier
\* groups of the fingerprint do when they come late.
HeldHasTimer ==
    \A s \in Services :
        group[s].held # {} =>
            group[s].timer \in {t.event : t \in armed[s]} \cup fired[s]

\* An event whose publisher has called every service it copied has been put
\* before an open ingress (accepted, or refused for a full one), or a reload came
\* across its publication: another service subscribed after the copy, and the
\* copied one had closed its ingress by the time of the call.  "next subscribes
\* before the old one detaches", so nothing falls between the two.
OfferedOpen(e) == \E s \in Services : fate[s][e] \notin {"none", "closed"}
AcrossSwap(e) == copied[e] < live /\ fate[copied[e]][e] = "closed"
LostOnlyAcrossSwap ==
    shutdown = "no" =>
        \A e \in Published : handlers[e] # {} \/ OfferedOpen(e) \/ AcrossSwap(e)

\* A service that is being stopped always has a step to take, whatever it still
\* holds and without waiting for the deadline: dispatcher, worker, summaries and
\* Close never wait for one another in a circle.
StopNeverStuck ==
    \A s \in Services :
        phase[s] \in {"detached", "draining", "closing"} =>
            ENABLED (Pipeline(s) \/ Deliver(s) \/ Stopping(s))

=============================================================================
