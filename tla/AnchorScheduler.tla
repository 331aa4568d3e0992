--------------------------- MODULE AnchorScheduler ---------------------------
(***************************************************************************)
(* scheduler.py: the periodic publisher of calibration snapshots, its      *)
(* start and stop called by tasks that may overlap, publish_now called by  *)
(* the adopter at any time, and the anchoring store.                       *)
(*                                                                         *)
(* Every call of start makes a new asyncio task with a stop event of its   *)
(* own; both are numbered by that call, and 0 stands for None.  A snapshot *)
(* is the version of the journal it was built from.  The order of the      *)
(* domains is abstracted, and the history of attempts to the result of the *)
(* last attempt of each domain.                                            *)
(***************************************************************************)
EXTENDS Naturals, FiniteSets

CONSTANTS
    Callers,      \* the tasks that call start and stop
    Adopters,     \* the tasks that call publish_now
    Domains,      \* config.decision_classes
    HasKey,       \* is a signing key configured?
    MaxStarts,    \* bound: loops ever created
    MaxVersion    \* bound: versions of the journal

ASSUME AnchorSchedulerAssumption ==
    /\ HasKey \in BOOLEAN
    /\ MaxStarts \in Nat
    /\ MaxVersion \in Nat \ {0}
    /\ Adopters \cap (0 .. MaxStarts) = {}

Loops == 1 .. MaxStarts
Actors == Loops \cup Adopters

VARIABLES
    task,      \* _task
    event,     \* _stop_event
    isSet,     \* the events that are set
    pc,        \* where each publishing task stands
    todo,      \* domains its publish_now has still to visit
    record,    \* the record it is publishing: none, or one
    caller,    \* the task that a stop call of this caller awaits
    asked,     \* the last call begun: "start" or "stop" (history variable)
    version,   \* of the journal
    anchored,  \* the version the store holds of each domain, 0 if none
    result,    \* of the last attempt of each domain
    newest     \* the version a loop put last of each domain (history variable)

control == <<task, event, isSet, caller, asked>>
cycle   == <<pc, todo, record>>
chain   == <<version, anchored, result, newest>>
vars    == <<control, cycle, chain>>

Init ==
    /\ task = 0
    /\ event = 0
    /\ isSet = {}
    /\ pc = [a \in Actors |-> IF a \in Adopters THEN "idle" ELSE "unborn"]
    /\ todo = [a \in Actors |-> {}]
    /\ record = [a \in Actors |-> {}]
    /\ caller = [c \in Callers |-> 0]
    /\ asked = "stop"
    /\ version = 1
    /\ anchored = [d \in Domains |-> 0]
    /\ result = [d \in Domains |-> "none"]
    /\ newest = [d \in Domains |-> 0]
-----------------------------------------------------------------------------
Unborn == {g \in Loops : pc[g] = "unborn"}

\* (mutant)
StartAlways(c) ==
    /\ caller[c] = 0
    /\ asked' = "start"
    /\ \E g \in Unborn :
          /\ \A h \in Unborn : g <= h
          /\ task' = g /\ event' = g
          /\ pc' = [pc EXCEPT ![g] = "ready"]
    /\ UNCHANGED <<isSet, caller, todo, record, chain>>

\* start() does nothing while there is a task, whatever that task is doing.
Start(c) ==
    /\ caller[c] = 0
    /\ asked' = "start"
    /\ IF task # 0
         THEN UNCHANGED <<task, event, pc>>
         ELSE \E g \in Unborn :
                /\ \A h \in Unborn : g <= h
                /\ task' = g /\ event' = g
                /\ pc' = [pc EXCEPT ![g] = "ready"]
    /\ UNCHANGED <<isSet, caller, todo, record, chain>>

\* stop() sets the current event and awaits the current task.
Stop(c) ==
    /\ caller[c] = 0
    /\ asked' = "stop"
    /\ isSet' = isSet \cup ({event} \ {0})
    /\ caller' = [caller EXCEPT ![c] = task]
    /\ UNCHANGED <<task, event, cycle, chain>>

Over(g) == pc[g] \in {"ended", "died"}

\* (mutant)
KeepTask == event' = 0 /\ UNCHANGED task

ClearTask == event' = 0 /\ task' = 0

\* The awaited task is over: stop() clears whatever task and event there are
\* by now, or passes on the exception that ended the task.
StopReturns(c) ==
    /\ caller[c] # 0
    /\ Over(caller[c])
    /\ IF pc[caller[c]] = "ended" THEN ClearTask ELSE UNCHANGED <<task, event>>
    /\ caller' = [caller EXCEPT ![c] = 0]
    /\ UNCHANGED <<isSet, asked, cycle, chain>>
-----------------------------------------------------------------------------
\* (mutant)
WhileEventExists == IF event = 0 THEN "died" ELSE "publish"

\* The test of the while loop reads self._stop_event anew: it raises on None,
\* and it may find another event than the one of this loop.
WhileNotStopped ==
    IF event = 0 THEN "died" ELSE IF event \in isSet THEN "ended" ELSE "publish"

\* The head of publish_now: without a key there is nothing to publish.
Publishing(a) ==
    todo' = [todo EXCEPT ![a] = IF HasKey THEN Domains ELSE {}]

Enter(g) ==
    /\ pc' = [pc EXCEPT ![g] = WhileNotStopped]
    /\ IF WhileNotStopped = "publish" THEN Publishing(g) ELSE UNCHANGED todo
    /\ UNCHANGED <<control, record, chain>>

\* The first step of a new task.  asyncio's ready queue is first in, first
\* out: all the stop calls that awaited an older task return before it.
Begin(g) ==
    /\ pc[g] = "ready"
    /\ \A c \in Callers : caller[c] # 0 => ~Over(caller[c])
    /\ Enter(g)

Finished(a) == pc[a] = "publish" /\ todo[a] = {} /\ record[a] = {}

\* (mutant)
NothingLeft(a) == pc[a] = "publish" /\ todo[a] = {}

CycleDone(a) == Finished(a)

\* The cycle is over: wait for the event, at most an interval.
Sleep(g) ==
    /\ CycleDone(g)
    /\ pc' = [pc EXCEPT ![g] = IF event = 0 THEN "died" ELSE "wait"]
    /\ UNCHANGED <<control, todo, record, chain>>

\* The event was set, or the interval has passed.
Wake(g) ==
    /\ pc[g] = "wait"
    /\ Enter(g)

PublishNow(a) ==
    /\ pc[a] = "idle"
    /\ pc' = [pc EXCEPT ![a] = "publish"]
    /\ Publishing(a)
    /\ UNCHANGED <<control, record, chain>>

PublishNowReturns(a) ==
    /\ CycleDone(a)
    /\ pc' = [pc EXCEPT ![a] = "idle"]
    /\ UNCHANGED <<control, todo, record, chain>>

TakeUp(a, d) ==
    /\ pc[a] = "publish"
    /\ record[a] = {}
    /\ d \in todo[a]
    /\ todo' = [todo EXCEPT ![a] = @ \ {d}]

\* build_snapshot reads the journal, then the store is called.
Build(a, d) ==
    /\ TakeUp(a, d)
    /\ record' = [record EXCEPT ![a] = {[domain |-> d, version |-> version]}]
    /\ UNCHANGED <<control, pc, chain>>

\* build_snapshot raises; the loop goes on with the next domain.
BuildFails(a, d) ==
    /\ TakeUp(a, d)
    /\ result' = [result EXCEPT ![d] = "failed"]
    /\ UNCHANGED <<control, pc, record, version, anchored, newest>>

Put(a, r) ==
    /\ anchored' = [anchored EXCEPT ![r.domain] = r.version]
    /\ newest' = IF a \in Loops THEN [newest EXCEPT ![r.domain] = r.version] ELSE newest

\* (mutant)
DieOnError(a) == pc' = [pc EXCEPT ![a] = "died"]

Continue(a) == UNCHANGED pc

\* publish_calibration returns: the store keeps the last record it was given.
StoreTakes(a) ==
    /\ \E r \in record[a] : Put(a, r) /\ result' = [result EXCEPT ![r.domain] = "ok"]
    /\ record' = [record EXCEPT ![a] = {}]
    /\ UNCHANGED <<control, pc, todo, version>>

\* publish_calibration raises, before or after the store has the record.
StoreFails(a) ==
    /\ \E r \in record[a] :
          /\ Put(a, r) \/ UNCHANGED <<anchored, newest>>
          /\ result' = [result EXCEPT ![r.domain] = "failed"]
    /\ record' = [record EXCEPT ![a] = {}]
    /\ Continue(a)
    /\ UNCHANGED <<control, todo, version>>

\* The rest of the agent appends to the journal.
Grow ==
    /\ version < MaxVersion
    /\ version' = version + 1
    /\ UNCHANGED <<control, cycle, anchored, result, newest>>
-----------------------------------------------------------------------------
Publish(a) ==
    \/ \E d \in Domains : Build(a, d) \/ BuildFails(a, d)
    \/ StoreTakes(a)
    \/ StoreFails(a)

Run(g) == Begin(g) \/ Sleep(g) \/ Wake(g) \/ Publish(g)

Next ==
    \/ \E c \in Callers : Start(c) \/ Stop(c) \/ StopReturns(c)
    \/ \E g \in Loops : Run(g)
    \/ \E a \in Adopters : PublishNow(a) \/ PublishNowReturns(a) \/ Publish(a)
    \/ Grow

Spec == Init /\ [][Next]_vars

\* asyncio runs every ready task, and timers expire.  That the store answers
\* at all is an assumption: publish_calibration is awaited without a timeout.
FairSpec ==
    /\ Spec
    /\ \A g \in Loops : WF_vars(Run(g))
    /\ \A c \in Callers : WF_vars(StopReturns(c))
-----------------------------------------------------------------------------
Live(g) == pc[g] \in {"ready", "publish", "wait"}

States == {"unborn", "ready", "publish", "wait", "ended", "died"}

\* Every variable holds a value of its kind, and a task publishes one record
\* at a time (scheduler.py, the fields of the class and the tasks).
TypeOK ==
    /\ task \in 0 .. MaxStarts
    /\ event \in 0 .. MaxStarts
    /\ isSet \subseteq Loops
    /\ DOMAIN pc = Actors
    /\ \A g \in Loops : pc[g] \in States
    /\ \A a \in Adopters : pc[a] \in {"idle", "publish"}
    /\ todo \in [Actors -> SUBSET Domains]
    /\ record \in [Actors -> SUBSET [domain : Domains, version : 1 .. MaxVersion]]
    /\ \A a \in Actors : Cardinality(record[a]) <= 1
    /\ caller \in [Callers -> 0 .. MaxStarts]
    /\ asked \in {"start", "stop"}
    /\ version \in 1 .. MaxVersion
    /\ anchored \in [Domains -> 0 .. MaxVersion]
    /\ newest \in [Domains -> 0 .. MaxVersion]
    /\ result \in [Domains -> {"none", "ok", "failed"}]

\* No two loops ever publish or wait side by side, and a loop that does is the
\* one that stop() would await (`if self._task is not None: return`,
\* scheduler.py:50).  For one caller; two that restart at once break it.
AtMostOneLoop ==
    \A g \in Loops : pc[g] \in {"publish", "wait"} => task = g /\ event = g

\* Once the last call was a stop and all stops have returned, no loop is in a
\* publish cycle or waiting for the next, and no record of a loop is on its
\* way to the store ("Request a shutdown. Returns after the current publish
\* cycle finishes.", scheduler.py:56).  It holds for one caller; two callers
\* that restart at once leave a loop that no stop awaits.
StopDrains ==
    (asked = "stop" /\ \A c \in Callers : caller[c] = 0) =>
        \A g \in Loops : pc[g] \notin {"publish", "wait"} /\ record[g] = {}

\* Once the last call was a start and no stop is pending, a loop is alive
\* ("Start the periodic publish loop. Idempotent.", scheduler.py:49).  It
\* holds for one caller; a start during a pending stop is lost.
StartedMeansRunning ==
    (asked = "start" /\ \A c \in Callers : caller[c] = 0) =>
        \E g \in Loops : Live(g)

\* What the loops put into the store of a domain never becomes older, over all
\* stops and restarts (each publication is awaited, scheduler.py:100, and the
\* loop that awaits it, scheduler.py:61).  A publish_now beside the loop may
\* still be overtaken by it, or overtake it.
LoopsAnchorInOrder == [][\A d \in Domains : newest'[d] >= newest[d]]_vars

\* A loop that is not told to stop takes up every domain again and again, and
\* gets past it, however builds and publications fail (the try inside the for
\* loop, scheduler.py:86-113).
EveryDomainTried ==
    \A d \in Domains :
        <>[](task # 0 /\ event \notin isSet) =>
            /\ []<>(\E g \in Loops : d \in todo[g])
            /\ []<>(\E g \in Loops : pc[g] = "publish" /\ d \notin todo[g])

\* Every call of stop returns (scheduler.py:55-65).
EveryStopReturns == \A c \in Callers : caller[c] # 0 ~> caller[c] = 0
=============================================================================
