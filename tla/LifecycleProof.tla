--------------------------- MODULE LifecycleProof ----------------------------
(***************************************************************************)
(* Theorems about what starts and stops: AnchorScheduler when one task     *)
(* calls start and stop, for any number of domains, adopters and restarts, *)
(* and AgentHost, whose hooks are such a task, for any number of hooks.    *)
(***************************************************************************)
EXTENDS AnchorScheduler, HostState, FiniteSetTheorems, TLAPS

\* Only one task controls the scheduler, as when the host's hooks do.
OneCaller == \E c : Callers = {c}

Quiet == \A c \in Callers : caller[c] = 0

\* Every loop that is alive is the current task, with the current event.
LoopInv ==
    /\ task = event
    /\ \A g \in Loops : Live(g) => task = g
    /\ \A g \in Loops : pc[g] # "died"
    /\ task # 0 => pc[task] # "unborn"
    /\ task # 0 /\ pc[task] = "ended" => task \in isSet
    /\ \A g \in isSet : pc[g] # "unborn"

\* The event of the current task is set only while a stop awaits that task.
StopInv ==
    /\ \A c \in Callers : caller[c] # 0 => caller[c] = task /\ asked = "stop"
    /\ task \in isSet => ~Quiet
    /\ Quiet => (task = 0 <=> asked = "stop")

\* What a loop is about to put is no older than what the loops have put.
OrderInv ==
    /\ \A g \in Loops : record[g] # {} => pc[g] = "publish"
    /\ \A g \in Loops : \A r \in record[g] :
          newest[r.domain] <= r.version /\ r.version <= version
    /\ \A d \in Domains : newest[d] <= version

IInv == TypeOK /\ LoopInv /\ StopInv /\ OrderInv
-----------------------------------------------------------------------------
LEMMA Constants ==
    /\ MaxStarts \in Nat /\ MaxVersion \in Nat \ {0}
    /\ 0 \notin Loops /\ Loops \subseteq Nat
    /\ \A g \in Loops : g \notin Adopters /\ g \in Actors /\ g \in 0 .. MaxStarts
    /\ \A a \in Adopters : a \notin Loops /\ a \in Actors
  BY AnchorSchedulerAssumption DEF Loops, Actors

LEMMA InvInit == Init => IInv
  <1> SUFFICES ASSUME Init PROVE IInv
    OBVIOUS
  <1> USE Constants DEF Init
  <1>1. TypeOK
    <2>1. \A a \in Actors : record[a] = {} /\ Cardinality(record[a]) <= 1
      BY FS_EmptySet
    <2>2. \A a \in Actors : a \in Loops \/ a \in Adopters
      BY DEF Actors
    <2> QED
      BY <2>1, <2>2 DEF TypeOK, States
  <1>2. LoopInv
    BY DEF LoopInv, Live
  <1>3. StopInv
    BY DEF StopInv, Quiet
  <1>4. OrderInv
    BY DEF OrderInv
  <1> QED
    BY <1>1, <1>2, <1>3, <1>4 DEF IInv

\* A live loop finds its own event (scheduler.py:124-140).
LEMMA OwnEvent ==
    ASSUME IInv, NEW g \in Loops, Live(g)
    PROVE  /\ task = g /\ event = g
           /\ WhileNotStopped \in {"ended", "publish"}
           /\ WhileNotStopped = "ended" <=> g \in isSet
  BY Constants DEF IInv, LoopInv, WhileNotStopped

LEMMA LoopNext ==
    ASSUME OneCaller, IInv, [Next]_vars
    PROVE  LoopInv' /\ StopInv'
  <1>a. PICK h : Callers = {h}
    BY DEF OneCaller
  <1>b. TypeOK /\ LoopInv /\ StopInv
    BY DEF IInv
  <1>c. h \in Callers /\ caller[h] \in 0 .. MaxStarts
    BY <1>a, <1>b DEF TypeOK
  <1> USE Constants, <1>a, <1>b
  <1>0. ASSUME UNCHANGED control, \A g \in Loops : pc'[g] = pc[g]
        PROVE  LoopInv' /\ StopInv'
    <2>1. task \in Loops \/ task = 0
      BY DEF TypeOK, Loops
    <2>2. isSet \subseteq Loops
      BY DEF TypeOK
    <2>3. StopInv'
      BY <1>0 DEF StopInv, Quiet, control
    <2>4. LoopInv'
      BY <1>0, <2>1, <2>2 DEF LoopInv, Live, control
    <2> QED
      BY <2>3, <2>4
  <1>1. CASE Start(h)
    <2>1. CASE task # 0
      <3>1. /\ UNCHANGED <<task, event, isSet, caller, pc>>
            /\ asked' = "start" /\ caller[h] = 0
        BY <1>1, <2>1 DEF Start
      <3> QED
        BY <2>1, <3>1 DEF LoopInv, StopInv, Quiet, Live
    <2>2. CASE task = 0
      <3>1. PICK g \in Unborn : /\ task' = g /\ event' = g
                                /\ pc' = [pc EXCEPT ![g] = "ready"]
        BY <1>1, <2>2 DEF Start
      <3>2. /\ g \in Loops /\ pc[g] = "unborn" /\ g \notin isSet
            /\ pc'[g] = "ready"
            /\ \A k \in Loops \ {g} : pc'[k] = pc[k]
        BY <3>1 DEF Unborn, LoopInv, TypeOK
      <3>3. UNCHANGED <<isSet, caller>> /\ asked' = "start" /\ caller[h] = 0
        BY <1>1 DEF Start
      <3>4. LoopInv'
        BY <2>2, <3>1, <3>2, <3>3 DEF LoopInv, Live, TypeOK
      <3>5. StopInv'
        BY <2>2, <3>1, <3>2, <3>3 DEF StopInv, Quiet
      <3> QED
        BY <3>4, <3>5
    <2> QED
      BY <2>1, <2>2
  <1>2. CASE Stop(h)
    <2>1. /\ isSet' = isSet \cup ({event} \ {0})
          /\ caller' = [caller EXCEPT ![h] = task]
          /\ asked' = "stop" /\ caller[h] = 0
          /\ UNCHANGED <<task, event, pc>>
      BY <1>2 DEF Stop, cycle
    <2>2. caller'[h] = task
      BY <2>1, <1>c DEF TypeOK
    <2>3. LoopInv'
      BY <2>1 DEF LoopInv, Live
    <2>4. StopInv'
      <3>1. 0 \notin isSet'
        BY <2>1 DEF TypeOK
      <3> QED
        BY <2>1, <2>2, <3>1 DEF StopInv, Quiet
    <2> QED
      BY <2>3, <2>4
  <1>3. CASE StopReturns(h)
    <2>1. /\ caller[h] # 0 /\ caller[h] = task /\ asked = "stop"
          /\ pc[task] = "ended"
      BY <1>3, <1>c DEF StopReturns, Over, StopInv, LoopInv, Loops
    <2>2. /\ task' = 0 /\ event' = 0
          /\ caller' = [caller EXCEPT ![h] = 0]
          /\ UNCHANGED <<isSet, asked, pc>>
      BY <1>3, <2>1 DEF StopReturns, ClearTask, cycle
    <2>3. caller'[h] = 0
      BY <2>2, <1>c DEF TypeOK
    <2>4. LoopInv'
      BY <2>1, <2>2 DEF LoopInv, Live
    <2>5. StopInv'
      BY <2>1, <2>2, <2>3 DEF StopInv, Quiet, TypeOK
    <2> QED
      BY <2>4, <2>5
  <1>4. ASSUME NEW g \in Loops, Begin(g) \/ Sleep(g) \/ Wake(g)
        PROVE  LoopInv' /\ StopInv'
    <2>1. Live(g) /\ UNCHANGED control
      BY <1>4 DEF Begin, Sleep, Wake, Enter, Live, CycleDone, Finished
    <2>2. task = g /\ event = g /\ WhileNotStopped \in {"ended", "publish"}
          /\ (WhileNotStopped = "ended" <=> g \in isSet)
      BY <2>1, OwnEvent
    <2>3. \/ pc' = [pc EXCEPT ![g] = "wait"] \/ pc' = [pc EXCEPT ![g] = "publish"]
          \/ pc' = [pc EXCEPT ![g] = "ended"] /\ g \in isSet
      BY <1>4, <2>2 DEF Begin, Sleep, Wake, Enter
    <2>4. /\ pc'[g] \in {"wait", "publish", "ended"}
          /\ pc'[g] = "ended" => g \in isSet
          /\ \A k \in Loops \ {g} : pc'[k] = pc[k]
      BY <2>3 DEF TypeOK
    <2>5. LoopInv'
      BY <2>1, <2>2, <2>4 DEF LoopInv, Live, control, TypeOK
    <2>6. StopInv'
      BY <2>1 DEF StopInv, Quiet, control
    <2> QED
      BY <2>5, <2>6
  <1>5. ASSUME NEW a \in Actors, Publish(a) PROVE LoopInv' /\ StopInv'
    BY <1>5, <1>0
    DEF Publish, Build, BuildFails, StoreTakes, StoreFails, Continue, control
  <1>6. ASSUME NEW a \in Adopters, PublishNow(a) \/ PublishNowReturns(a)
        PROVE  LoopInv' /\ StopInv'
    <2>1. \A g \in Loops : pc'[g] = pc[g]
      BY <1>6 DEF PublishNow, PublishNowReturns, TypeOK
    <2> QED
      BY <1>6, <1>0, <2>1 DEF PublishNow, PublishNowReturns
  <1>7. CASE Grow \/ UNCHANGED vars
    BY <1>7, <1>0 DEF Grow, vars, cycle
  <1> QED
    BY <1>1, <1>2, <1>3, <1>4, <1>5, <1>6, <1>7 DEF Next, Run

\* One step of a publishing task, which leaves its place and its calls alone.
LEMMA PublishTypes ==
    ASSUME TypeOK, NEW a \in Actors, Publish(a)
    PROVE  TypeOK'
  <1> USE Constants
  <1>1. \A b \in Actors : \A r \in record[b] :
            r.domain \in Domains /\ r.version \in 1 .. MaxVersion
    BY DEF TypeOK
  <1>2. ASSUME NEW d \in Domains, Build(a, d) PROVE TypeOK'
    <2> DEFINE r == [domain |-> d, version |-> version]
    <2>1. UNCHANGED <<control, pc, chain>>
      BY <1>2 DEF Build
    <2>2. todo' \in [Actors -> SUBSET Domains]
      BY <1>2 DEF Build, TakeUp, TypeOK
    <2>3. record' = [record EXCEPT ![a] = {r}]
      BY <1>2 DEF Build
    <2>4. r \in [domain : Domains, version : 1 .. MaxVersion]
      BY DEF TypeOK
    <2>5. record' \in [Actors -> SUBSET [domain : Domains, version : 1 .. MaxVersion]]
      BY <2>3, <2>4 DEF TypeOK
    <2>6. \A b \in Actors : Cardinality(record'[b]) <= 1
      <3>1. Cardinality({r}) = 1
        BY FS_Singleton
      <3> QED
        BY <2>3, <3>1 DEF TypeOK
    <2> QED
      BY <2>1, <2>2, <2>5, <2>6 DEF TypeOK, control, chain
  <1>3. ASSUME NEW d \in Domains, BuildFails(a, d) PROVE TypeOK'
    BY <1>3 DEF BuildFails, TakeUp, TypeOK, control
  <1>4. CASE StoreTakes(a) \/ StoreFails(a)
    <2>1. UNCHANGED <<control, pc, todo, version>> /\ record' = [record EXCEPT ![a] = {}]
      BY <1>4 DEF StoreTakes, StoreFails, Continue
    <2>2. PICK r \in record[a] :
            /\ \/ anchored' = [anchored EXCEPT ![r.domain] = r.version]
               \/ UNCHANGED anchored
            /\ \/ newest' = [newest EXCEPT ![r.domain] = r.version]
               \/ UNCHANGED newest
            /\ \/ result' = [result EXCEPT ![r.domain] = "ok"]
               \/ result' = [result EXCEPT ![r.domain] = "failed"]
      BY <1>4 DEF StoreTakes, StoreFails, Put
    <2>3. r.domain \in Domains /\ r.version \in 0 .. MaxVersion
      BY <1>1
    <2>4. /\ anchored' \in [Domains -> 0 .. MaxVersion]
          /\ newest' \in [Domains -> 0 .. MaxVersion]
          /\ result' \in [Domains -> {"none", "ok", "failed"}]
      BY <2>2, <2>3 DEF TypeOK
    <2>5. record' \in [Actors -> SUBSET [domain : Domains, version : 1 .. MaxVersion]]
      BY <2>1 DEF TypeOK
    <2>6. \A b \in Actors : Cardinality(record'[b]) <= 1
      BY <2>1, FS_EmptySet DEF TypeOK
    <2> QED
      BY <2>1, <2>4, <2>5, <2>6 DEF TypeOK, control
  <1> QED
    BY <1>2, <1>3, <1>4 DEF Publish

LEMMA TypeNext ==
    ASSUME TypeOK, [Next]_vars
    PROVE  TypeOK'
  <1> USE Constants
  <1>1. ASSUME NEW c \in Callers, Start(c) PROVE TypeOK'
    BY <1>1 DEF Start, Unborn, TypeOK, States, chain
  <1>2. ASSUME NEW c \in Callers, Stop(c) PROVE TypeOK'
    <2>1. isSet' \subseteq Loops
      BY <1>2 DEF Stop, TypeOK, Loops
    <2> QED
      BY <1>2, <2>1 DEF Stop, TypeOK, cycle, chain
  <1>3. ASSUME NEW c \in Callers, StopReturns(c) PROVE TypeOK'
    BY <1>3 DEF StopReturns, ClearTask, TypeOK, cycle, chain
  <1>4. ASSUME NEW g \in Loops, Begin(g) \/ Sleep(g) \/ Wake(g) PROVE TypeOK'
    <2>1. /\ UNCHANGED <<control, record, chain>>
          /\ todo' \in [Actors -> SUBSET Domains]
      BY <1>4 DEF Begin, Sleep, Wake, Enter, Publishing, TypeOK
    <2>2. \E s \in States : pc' = [pc EXCEPT ![g] = s]
      BY <1>4 DEF Begin, Sleep, Wake, Enter, WhileNotStopped, States
    <2>3. /\ DOMAIN pc' = Actors
          /\ \A k \in Loops : pc'[k] \in States
          /\ \A a \in Adopters : pc'[a] \in {"idle", "publish"}
      BY <2>2 DEF TypeOK
    <2> QED
      BY <2>1, <2>3 DEF TypeOK, control, chain
  <1>5. ASSUME NEW a \in Actors, Publish(a) PROVE TypeOK'
    BY <1>5, PublishTypes
  <1>6. ASSUME NEW a \in Adopters, PublishNow(a) \/ PublishNowReturns(a) PROVE TypeOK'
    BY <1>6 DEF PublishNow, PublishNowReturns, Publishing, TypeOK, control, chain
  <1>7. CASE Grow
    BY <1>7 DEF Grow, TypeOK, control, cycle
  <1>8. CASE UNCHANGED vars
    BY <1>8 DEF vars, TypeOK, control, cycle, chain
  <1> QED
    BY <1>1, <1>2, <1>3, <1>4, <1>5, <1>6, <1>7, <1>8 DEF Next, Run
-----------------------------------------------------------------------------
InOrder == \A d \in Domains : newest'[d] >= newest[d]

\* Only one loop has a record, so what it puts overtakes no other.
LEMMA StoreInOrder ==
    ASSUME IInv, NEW a \in Actors, StoreTakes(a) \/ StoreFails(a)
    PROVE  OrderInv' /\ InOrder
  <1> USE Constants
  <1>0. TypeOK /\ LoopInv /\ OrderInv
    BY DEF IInv
  <1>1. UNCHANGED <<pc, version>> /\ record' = [record EXCEPT ![a] = {}]
    BY DEF StoreTakes, StoreFails, Continue
  <1>2. \A k \in Loops : record'[k] = record[k] \/ record'[k] = {}
    BY <1>0, <1>1 DEF TypeOK
  <1>3. /\ \A d \in Domains : newest[d] \in Nat /\ newest[d] <= version
        /\ version \in Nat
    BY <1>0 DEF TypeOK, OrderInv
  <1>4. CASE UNCHANGED newest
    <2>1. OrderInv'
      BY <1>0, <1>1, <1>2, <1>4 DEF OrderInv
    <2> QED
      BY <1>3, <1>4, <2>1 DEF InOrder
  <1>5. CASE newest' # newest
    <2>1. PICK r \in record[a] :
            a \in Loops /\ newest' = [newest EXCEPT ![r.domain] = r.version]
      BY <1>5 DEF StoreTakes, StoreFails, Put
    <2>2. /\ r.domain \in Domains /\ r.version \in Nat
          /\ newest[r.domain] <= r.version /\ r.version <= version
      BY <1>0, <2>1 DEF OrderInv, TypeOK
    <2>3. \A k \in Loops : record'[k] = {}
      <3> SUFFICES ASSUME NEW k \in Loops, record[k] # {}, k # a PROVE FALSE
        BY <1>1, <1>2, <1>0 DEF TypeOK
      <3>1. pc[k] = "publish" /\ pc[a] = "publish"
        BY <1>0, <2>1 DEF OrderInv
      <3> QED
        BY <1>0, <2>1, <3>1 DEF LoopInv, Live
    <2>4. \A d \in Domains : newest[d] <= newest'[d] /\ newest'[d] <= version
      BY <1>0, <1>3, <2>1, <2>2 DEF TypeOK
    <2>5. \A d \in Domains : newest'[d] \in Nat
      BY <1>0, <1>3, <2>1, <2>2 DEF TypeOK
    <2>6. OrderInv'
      BY <1>1, <2>3, <2>4 DEF OrderInv
    <2> QED
      BY <1>3, <2>4, <2>5, <2>6 DEF InOrder
  <1> QED
    BY <1>4, <1>5

LEMMA OrderNext ==
    ASSUME IInv, [Next]_vars
    PROVE  OrderInv' /\ InOrder
  <1> USE Constants
  <1>0. TypeOK /\ OrderInv
    BY DEF IInv
  <1>n. ASSUME UNCHANGED newest PROVE InOrder
    <2>1. \A d \in Domains : newest[d] \in Nat
      BY <1>0 DEF TypeOK
    <2> QED
      BY <1>n, <2>1 DEF InOrder
  <1>1. ASSUME NEW c \in Callers, Start(c) \/ Stop(c) \/ StopReturns(c)
        PROVE  OrderInv' /\ InOrder
    <2>1. UNCHANGED <<record, version, newest>>
      BY <1>1 DEF Start, Stop, StopReturns, cycle, chain
    <2>2. UNCHANGED pc \/ \E u \in Unborn : pc' = [pc EXCEPT ![u] = "ready"]
      BY <1>1 DEF Start, Stop, StopReturns, cycle
    <2>3. \A g \in Loops : pc[g] = "publish" => pc'[g] = "publish"
      <3>1. CASE UNCHANGED pc
        BY <3>1
      <3>2. ASSUME NEW u \in Unborn, pc' = [pc EXCEPT ![u] = "ready"],
                   NEW g \in Loops, pc[g] = "publish"
            PROVE  pc'[g] = "publish"
        <4>1. u # g /\ g \in DOMAIN pc
          BY <1>0, <3>2 DEF Unborn, TypeOK
        <4> QED
          BY <3>2, <4>1
      <3> QED
        BY <2>2, <3>1, <3>2
    <2>4. OrderInv'
      BY <1>0, <2>1, <2>3 DEF OrderInv
    <2> QED
      BY <1>n, <2>1, <2>4
  <1>2. ASSUME NEW g \in Loops, Begin(g) \/ Sleep(g) \/ Wake(g)
        PROVE  OrderInv' /\ InOrder
    <2>1. record[g] = {} /\ UNCHANGED <<record, version, newest>>
      BY <1>0, <1>2 DEF Begin, Sleep, Wake, Enter, CycleDone, Finished, OrderInv, chain
    <2>2. \A k \in Loops \ {g} : pc'[k] = pc[k]
      BY <1>0, <1>2 DEF Begin, Sleep, Wake, Enter, TypeOK
    <2>3. OrderInv'
      BY <1>0, <2>1, <2>2 DEF OrderInv
    <2> QED
      BY <1>n, <2>1, <2>3
  <1>3. ASSUME NEW a \in Actors, NEW d \in Domains, Build(a, d) \/ BuildFails(a, d)
        PROVE  OrderInv' /\ InOrder
    <2>1. UNCHANGED <<pc, version, newest>> /\ pc[a] = "publish"
      BY <1>3 DEF Build, BuildFails, TakeUp, chain
    <2>2. \/ UNCHANGED record
          \/ record' = [record EXCEPT ![a] = {[domain |-> d, version |-> version]}]
      BY <1>3 DEF Build, BuildFails
    <2>3. newest[d] <= version /\ version <= version
      BY <1>0 DEF OrderInv, TypeOK
    <2>4. OrderInv'
      BY <1>0, <2>1, <2>2, <2>3 DEF OrderInv, TypeOK
    <2> QED
      BY <1>n, <2>1, <2>4
  <1>4. ASSUME NEW a \in Actors, Publish(a) PROVE OrderInv' /\ InOrder
    BY <1>3, <1>4, StoreInOrder DEF Publish
  <1>5. ASSUME NEW a \in Adopters, PublishNow(a) \/ PublishNowReturns(a)
        PROVE  OrderInv' /\ InOrder
    <2>1. UNCHANGED <<record, version, newest>>
      BY <1>5 DEF PublishNow, PublishNowReturns, chain
    <2>2. \A g \in Loops : pc'[g] = pc[g]
      BY <1>0, <1>5 DEF PublishNow, PublishNowReturns, TypeOK
    <2>3. OrderInv'
      BY <1>0, <2>1, <2>2 DEF OrderInv
    <2> QED
      BY <1>n, <2>1, <2>3
  <1>6. CASE Grow
    <2>1. UNCHANGED <<pc, record, newest>> /\ version' = version + 1
      BY <1>6 DEF Grow, cycle
    <2>2. /\ version \in Nat /\ \A d \in Domains : newest[d] \in Nat
          /\ \A g \in Loops : \A r \in record[g] : r.version \in Nat
      BY <1>0 DEF TypeOK
    <2>3. \A d \in Domains : newest[d] <= version + 1
      BY <1>0, <2>2 DEF OrderInv
    <2>4. ASSUME NEW g \in Loops, NEW r \in record[g]
          PROVE  r.version <= version + 1
      <3>1. r.version <= version
        BY <1>0 DEF OrderInv
      <3> QED
        BY <2>2, <3>1
    <2>5. OrderInv'
      BY <1>0, <2>1, <2>3, <2>4 DEF OrderInv
    <2> QED
      BY <1>n, <2>1, <2>5
  <1>7. CASE UNCHANGED vars
    BY <1>0, <1>7, <1>n DEF vars, cycle, chain, OrderInv
  <1> QED
    BY <1>1, <1>2, <1>4, <1>5, <1>6, <1>7 DEF Next, Run
-----------------------------------------------------------------------------
\* One task that calls start and stop keeps the scheduler in order: the
\* current task, its event and its loop belong together, only a pending stop
\* has set that event, and no loop holds a record older than what the loops
\* have anchored (scheduler.py:46-140).
THEOREM SchedulerInvariance == OneCaller => (Spec => []IInv)
  <1> SUFFICES ASSUME OneCaller PROVE Spec => []IInv
    OBVIOUS
  <1>1. Init => IInv
    BY InvInit
  <1>2. IInv /\ [Next]_vars => IInv'
    BY LoopNext, TypeNext, OrderNext DEF IInv
  <1> QED
    BY <1>1, <1>2, PTL DEF Spec

\* Every variable of the scheduler holds a value of its kind, whoever calls
\* start and stop (scheduler.py:28-44).
THEOREM SchedulerTypes == Spec => []TypeOK
  <1>1. Init => TypeOK
    BY InvInit DEF IInv
  <1> QED
    BY <1>1, TypeNext, PTL DEF Spec

\* One caller never has two loops side by side, and stop() awaits the loop
\* that publishes (scheduler.py:50).
THEOREM OneLoopAtMost == OneCaller => (Spec => []AtMostOneLoop)
  <1> SUFFICES ASSUME OneCaller PROVE Spec => []AtMostOneLoop
    OBVIOUS
  <1>1. IInv => AtMostOneLoop
    BY DEF IInv, LoopInv, AtMostOneLoop, Live
  <1> QED
    BY <1>1, SchedulerInvariance, PTL

\* When the stop of the one caller has returned, nothing is on its way to the
\* store from a loop (scheduler.py:56).
THEOREM StopsDrain == OneCaller => (Spec => []StopDrains)
  <1> SUFFICES ASSUME OneCaller PROVE Spec => []StopDrains
    OBVIOUS
  <1>1. IInv => StopDrains
    <2> SUFFICES ASSUME IInv, asked = "stop", Quiet, NEW g \in Loops
                 PROVE  pc[g] \notin {"publish", "wait"} /\ record[g] = {}
      BY DEF StopDrains, Quiet
    <2>1. task = 0
      BY DEF IInv, StopInv
    <2>2. ~Live(g)
      BY <2>1, Constants DEF IInv, LoopInv
    <2> QED
      BY <2>2 DEF Live, IInv, OrderInv
  <1> QED
    BY <1>1, SchedulerInvariance, PTL

\* When the one caller has started the scheduler last, a loop is alive
\* (scheduler.py:49).
THEOREM StartsRun == OneCaller => (Spec => []StartedMeansRunning)
  <1> SUFFICES ASSUME OneCaller PROVE Spec => []StartedMeansRunning
    OBVIOUS
  <1>1. IInv => StartedMeansRunning
    <2> SUFFICES ASSUME IInv, asked = "start", Quiet
                 PROVE  \E g \in Loops : Live(g)
      BY DEF StartedMeansRunning, Quiet
    <2>1. task # 0 /\ task \notin isSet
      BY DEF IInv, StopInv
    <2>2. task \in Loops
      BY <2>1, Constants DEF IInv, TypeOK, Loops
    <2>3. pc[task] \in States /\ pc[task] \notin {"unborn", "ended", "died"}
      BY <2>1, <2>2 DEF IInv, TypeOK, LoopInv
    <2> QED
      BY <2>2, <2>3 DEF Live, States
  <1> QED
    BY <1>1, SchedulerInvariance, PTL

\* With one caller, what the loops anchor of a domain never becomes older,
\* over all stops and restarts (scheduler.py:61, 100).
THEOREM LoopsAnchorForward == OneCaller => (Spec => LoopsAnchorInOrder)
  <1> SUFFICES ASSUME OneCaller PROVE Spec => LoopsAnchorInOrder
    OBVIOUS
  <1>1. IInv /\ [Next]_vars => [\A d \in Domains : newest'[d] >= newest[d]]_vars
    BY OrderNext DEF InOrder
  <1> QED
    BY <1>1, SchedulerInvariance, PTL DEF Spec, LoopsAnchorInOrder
-----------------------------------------------------------------------------
(* The host, which starts and stops a scheduler by its hooks. *)

CONSTANTS AfterStart, BeforeStop

VARIABLES up, exit, hostPc, hook

\* With HostState's server and journal.
Host == INSTANCE AgentHost WITH pc <- hostPc

\* The numbers of hooks are numbers, as AgentHost assumes.
HooksAreCounted == Host!AgentHostAssumption

\* There is neither server nor stop before the start, and a task that is past
\* its wait has seen the server's task end, or ended it.
WaitInv ==
    /\ hostPc["runner"] = "idle" => server = "none" /\ hostPc["stopper"] = "idle"
    /\ \A t \in Host!Tasks : hostPc[t] \in {"close", "returned"} => ServerOver
    /\ JournalClosedLast

HostInv == Host!TypeOK /\ WaitInv

LEMMA HostInit == HooksAreCounted /\ Host!Init => HostInv
  <1> SUFFICES ASSUME HooksAreCounted, Host!Init PROVE HostInv
    OBVIOUS
  <1>1. 0 \in 0 .. AfterStart + BeforeStop
    BY DEF HooksAreCounted, Host!AgentHostAssumption
  <1>2. Host!TypeOK
    BY <1>1 DEF Host!Init, Host!TypeOK, Host!Tasks
  <1>3. WaitInv
    BY DEF Host!Init, WaitInv, JournalClosedLast, Host!Tasks
  <1> QED
    BY <1>2, <1>3 DEF HostInv

\* The two tasks' hooks are counted down from what they were set to.
LEMMA HostTypeNext == HooksAreCounted /\ HostInv /\ [Host!Next]_(Host!vars) => Host!TypeOK'
  <1> SUFFICES ASSUME HooksAreCounted, HostInv, [Host!Next]_(Host!vars) PROVE Host!TypeOK'
    OBVIOUS
  <1>a. Host!TypeOK /\ "runner" \in Host!Tasks /\ "stopper" \in Host!Tasks
    BY DEF HostInv, Host!Tasks
  <1>b. /\ AfterStart \in 0 .. AfterStart + BeforeStop
        /\ BeforeStop \in 0 .. AfterStart + BeforeStop
    BY DEF HooksAreCounted, Host!AgentHostAssumption
  <1> USE <1>a, <1>b DEF Host!TypeOK, Host!Goto, Host!serving
  <1>1. CASE Host!Start \/ Host!ServerUp \/ Host!ServerFails \/ Host!ServerEnds
    BY <1>1 DEF Host!Start, Host!ServerUp, Host!ServerFails, Host!ServerEnds
  <1>2. CASE Host!Started
    BY <1>2 DEF Host!Started, Host!Listening
  <1>3. CASE Host!AfterHook
    <2>1. /\ hook["runner"] - 1 \in 0 .. AfterStart + BeforeStop
      BY <1>3 DEF HooksAreCounted, Host!AgentHostAssumption, Host!AfterHook
    <2> QED
      BY <1>3, <2>1 DEF Host!AfterHook
  <1>4. CASE Host!StartReturns
    BY <1>4 DEF Host!StartReturns
  <1>5. ASSUME NEW t \in Host!Tasks, Host!Stop(t) PROVE Host!TypeOK'
    BY <1>5 DEF Host!Stop
  <1>6. ASSUME NEW t \in Host!Tasks, Host!Stopping(t) PROVE Host!TypeOK'
    <2>1. CASE Host!BeforeHook(t)
      <3>1. hook[t] - 1 \in 0 .. AfterStart + BeforeStop
        BY <2>1 DEF HooksAreCounted, Host!AgentHostAssumption, Host!BeforeHook
      <3> QED
        BY <2>1, <3>1 DEF Host!BeforeHook, Host!HookDone
    <2>2. CASE Host!AskServer(t) \/ Host!Waited(t) \/ Host!TimesOut(t) \/ Host!CloseJournal(t)
      BY <2>2 DEF Host!AskServer, Host!AfterExit, Host!Waited, Host!TimesOut, Host!CloseJournal
    <2> QED
      BY <1>6, <2>1, <2>2 DEF Host!Stopping
  <1>7. CASE UNCHANGED Host!vars
    BY <1>7 DEF Host!vars
  <1> QED
    BY <1>1, <1>2, <1>3, <1>4, <1>5, <1>6, <1>7 DEF Host!Next, Host!Running

LEMMA HostWaitNext == HostInv /\ [Host!Next]_(Host!vars) => WaitInv'
  <1> SUFFICES ASSUME HostInv, [Host!Next]_(Host!vars) PROVE WaitInv'
    OBVIOUS
  <1>a. Host!TypeOK /\ WaitInv /\ "runner" \in Host!Tasks /\ "stopper" \in Host!Tasks
    BY DEF HostInv, Host!Tasks
  <1> USE <1>a DEF Host!TypeOK, WaitInv, JournalClosedLast, ServerOver, Host!ServerOver, Host!Goto,
          Host!serving
  <1>1. CASE Host!Start \/ Host!ServerUp \/ Host!ServerFails \/ Host!ServerEnds
    BY <1>1 DEF Host!Start, Host!ServerUp, Host!ServerFails, Host!ServerEnds
  <1>2. CASE Host!Started \/ Host!AfterHook \/ Host!StartReturns
    BY <1>2 DEF Host!Started, Host!AfterHook, Host!StartReturns
  <1>3. ASSUME NEW t \in Host!Tasks, Host!Stop(t) PROVE WaitInv'
    BY <1>3 DEF Host!Stop
  <1>4. ASSUME NEW t \in Host!Tasks, Host!Stopping(t) PROVE WaitInv'
    <2>1. CASE Host!BeforeHook(t) \/ Host!AskServer(t)
      BY <2>1 DEF Host!BeforeHook, Host!HookDone, Host!AskServer, Host!AfterExit
    <2>2. CASE Host!Waited(t) \/ Host!TimesOut(t)
      BY <2>2 DEF Host!Waited, Host!TimesOut, Host!Tasks
    <2>3. CASE Host!CloseJournal(t)
      BY <2>3 DEF Host!CloseJournal
    <2> QED
      BY <1>4, <2>1, <2>2, <2>3 DEF Host!Stopping
  <1>5. CASE UNCHANGED Host!vars
    BY <1>5 DEF Host!vars
  <1> QED
    BY <1>1, <1>2, <1>3, <1>4, <1>5 DEF Host!Next, Host!Running

\* The invariant from which the others follow (host.py:99-157).
THEOREM HostInvariance == HooksAreCounted => (Host!Spec => []HostInv)
  <1> SUFFICES ASSUME HooksAreCounted PROVE Host!Spec => []HostInv
    OBVIOUS
  <1>1. HostInv /\ [Host!Next]_(Host!vars) => HostInv'
    BY HostTypeNext, HostWaitNext DEF HostInv
  <1>2. Host!Init => HostInv
    BY HostInit
  <1> QED
    BY <1>1, <1>2, PTL DEF Host!Spec

\* The types of the host's variables, and that start() goes past its loop only
\* after the server has listened (host.py:119-127).
THEOREM HostTypes == HooksAreCounted => (Host!Spec => []Host!TypeOK)
  <1> SUFFICES ASSUME HooksAreCounted PROVE Host!Spec => []Host!TypeOK
    OBVIOUS
  <1>1. HostInv => Host!TypeOK
    BY DEF HostInv
  <1> QED
    BY <1>1, HostInvariance, PTL

\* However stops overlap, and whichever hook raises, the journal is not closed
\* under a running server (host.py:138-148).
THEOREM JournalIsClosedLast == HooksAreCounted => (Host!Spec => []JournalClosedLast)
  <1> SUFFICES ASSUME HooksAreCounted PROVE Host!Spec => []JournalClosedLast
    OBVIOUS
  <1>1. HostInv => JournalClosedLast
    BY DEF HostInv, WaitInv
  <1> QED
    BY <1>1, HostInvariance, PTL
=============================================================================
