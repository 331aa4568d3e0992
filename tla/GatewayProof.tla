---------------------------- MODULE GatewayProof ----------------------------
(***************************************************************************)
(* Theorems about Gateway, for any clients, any tokens, any limit and any  *)
(* length of the window.  The requests a client has had through are split  *)
(* by its current window: those in it are as many as it has counted, and   *)
(* those before it are no more than the limit.                             *)
(***************************************************************************)
EXTENDS Gateway, FiniteSetTheorems, TLAPS

USE GatewayAssumption

InWindow(w, reqs)     == {q \in reqs : q.age <= w.age}
BeforeWindow(w, reqs) == {q \in reqs : q.age > w.age}
ThisTick(reqs)        == {q \in reqs : q.age = 0}

Windows == [age : 0 .. Window, count : 0 .. Max + 1]

Requests == [age : 0 .. Window - 1, nth : Nat]

\* While a window is open, as many requests of it as it has counted have got
\* through, up to the limit; once it is over, no more than the limit.  None is
\* of this tick if there is no open window, and those that are, are numbered.
Admitted(w, reqs) ==
    /\ w \in Windows
    /\ reqs \subseteq Requests
    /\ IsFiniteSet(reqs)
    /\ Cardinality(InWindow(w, reqs)) <= Max
    /\ Cardinality(BeforeWindow(w, reqs)) <= Max
    /\ w.age < Window =>
          Cardinality(InWindow(w, reqs)) = IF w.count <= Max THEN w.count ELSE Max
    /\ w.age = Window => ThisTick(reqs) = {}
    /\ \A q \in ThisTick(reqs) : q.nth <= Cardinality(ThisTick(reqs))

IInv ==
    /\ windows \in [Clients -> Windows]
    /\ recent \in [Clients -> SUBSET Requests]
    /\ \A k \in Clients : Admitted(windows[k], recent[k])
    /\ RefusalsAreEarned
    /\ WritesAreAuthorised
-----------------------------------------------------------------------------
(* Sets of requests. *)

Later(q) == [age |-> q.age + 1, nth |-> q.nth]

\* A tick changes no number: a set of requests is as large as what it becomes.
LEMMA LaterCardinality ==
    ASSUME NEW reqs, IsFiniteSet(reqs), reqs \subseteq [age : Nat, nth : Nat]
    PROVE  LET later == {Later(q) : q \in reqs}
           IN  IsFiniteSet(later) /\ Cardinality(later) = Cardinality(reqs)
<1> DEFINE later == {Later(q) : q \in reqs}
           f == [q \in reqs |-> Later(q)]
<1>1. \A q1, q2 \in reqs : Later(q1) = Later(q2) => q1 = q2
  <2> SUFFICES ASSUME NEW q1 \in reqs, NEW q2 \in reqs, Later(q1) = Later(q2)
               PROVE  q1 = q2
    OBVIOUS
  <2>1. q1.age + 1 = q2.age + 1 /\ q1.nth = q2.nth
    BY DEF Later
  <2>2. /\ q1 \in [age : Nat, nth : Nat]
        /\ q2 \in [age : Nat, nth : Nat]
    OBVIOUS
  <2> QED
    BY <2>1, <2>2
<1>2. f \in Surjection(reqs, later) /\ f \in Injection(reqs, later)
  BY <1>1 DEF Surjection, Injection, IsInjective
<1>3. IsFiniteSet(later) /\ Cardinality(later) = Cardinality(reqs)
  BY <1>2, FS_Surjection
<1> QED
  BY <1>3

\* The parts into which a window splits requests are finite, and make up all.
LEMMA Parts ==
    ASSUME NEW w \in Windows, NEW reqs, IsFiniteSet(reqs), reqs \subseteq Requests
    PROVE  /\ IsFiniteSet(InWindow(w, reqs))
           /\ IsFiniteSet(BeforeWindow(w, reqs))
           /\ IsFiniteSet(ThisTick(reqs))
           /\ Cardinality(InWindow(w, reqs)) \in Nat
           /\ Cardinality(BeforeWindow(w, reqs)) \in Nat
           /\ Cardinality(ThisTick(reqs)) \in Nat
           /\ Cardinality(reqs) \in Nat
           /\ Cardinality(InWindow(w, reqs)) <= Cardinality(reqs)
           /\ Cardinality(reqs) <= Cardinality(InWindow(w, reqs)) + Cardinality(BeforeWindow(w, reqs))
<1> DEFINE in == InWindow(w, reqs)
           before == BeforeWindow(w, reqs)
<1>1. in \subseteq reqs /\ before \subseteq reqs /\ ThisTick(reqs) \subseteq reqs
  BY DEF InWindow, BeforeWindow, ThisTick
<1>2. /\ IsFiniteSet(in) /\ IsFiniteSet(before) /\ IsFiniteSet(ThisTick(reqs))
      /\ Cardinality(in) <= Cardinality(reqs)
  BY <1>1, FS_Subset
<1>3. reqs = in \cup before
  BY DEF InWindow, BeforeWindow, Windows, Requests
<1>4. in \cap before = {}
  BY DEF InWindow, BeforeWindow, Windows, Requests
<1>5. Cardinality(reqs) = Cardinality(in) + Cardinality(before) - Cardinality({})
  BY <1>2, <1>3, <1>4, FS_Union
<1>6. /\ Cardinality(in) \in Nat /\ Cardinality(before) \in Nat
      /\ Cardinality(ThisTick(reqs)) \in Nat /\ Cardinality(reqs) \in Nat
      /\ Cardinality({}) = 0
  BY <1>2, FS_CardinalityType, FS_EmptySet
<1> QED
  BY <1>2, <1>5, <1>6
-----------------------------------------------------------------------------
(* One key's window and requests, step by step. *)

\* The time passes: what a window has let through stays in it, or the window
\* is over.
LEMMA TickKeeps ==
    ASSUME NEW w, NEW reqs, Admitted(w, reqs)
    PROVE  Admitted([age |-> Older(w.age), count |-> w.count], Aged(reqs))
<1> DEFINE v == [age |-> Older(w.age), count |-> w.count]
           new == Aged(reqs)
           in == InWindow(w, reqs)
           before == BeforeWindow(w, reqs)
           laterIn == {Later(q) : q \in in}
           laterBefore == {Later(q) : q \in before}
<1>1. /\ w \in Windows /\ reqs \subseteq Requests /\ IsFiniteSet(reqs)
      /\ Window \in Nat \ {0} /\ Max \in Nat \ {0}
  BY DEF Admitted
<1>2. /\ v \in Windows
      /\ v.count = w.count
      /\ w.age < Window => v.age = w.age + 1
      /\ w.age = Window => v.age = Window
  BY <1>1 DEF Windows, Older
<1>3. IsFiniteSet(in) /\ IsFiniteSet(before)
  BY <1>1, Parts
<1>4. /\ IsFiniteSet(laterIn) /\ Cardinality(laterIn) = Cardinality(in)
      /\ IsFiniteSet(laterBefore) /\ Cardinality(laterBefore) = Cardinality(before)
  <2>1. in \subseteq [age : Nat, nth : Nat] /\ before \subseteq [age : Nat, nth : Nat]
    BY <1>1 DEF InWindow, BeforeWindow, Requests
  <2> QED
    BY <1>3, <2>1, LaterCardinality
<1>5. new = {Later(q) : q \in {p \in reqs : p.age + 1 < Window}}
  BY DEF Aged, Later
<1>6. \A q \in reqs : /\ Later(q).age = q.age + 1
                      /\ Later(q).nth = q.nth
                      /\ q.age \in 0 .. Window - 1 /\ q.nth \in Nat
                      /\ q.age + 1 < Window => Later(q) \in Requests
  BY <1>1 DEF Later, Requests
<1>7. new \subseteq Requests /\ ThisTick(new) = {}
  BY <1>5, <1>6 DEF ThisTick
<1>8. InWindow(v, new) \subseteq laterIn
  <2> SUFFICES ASSUME NEW q \in reqs, q.age + 1 < Window, Later(q).age <= v.age
               PROVE  q \in in
    BY <1>5 DEF InWindow
  <2> QED
    BY <1>1, <1>2, <1>6 DEF InWindow, Windows
<1>9. BeforeWindow(v, new) \subseteq laterBefore
  <2> SUFFICES ASSUME NEW q \in reqs, q.age + 1 < Window, Later(q).age > v.age
               PROVE  q \in before
    BY <1>5 DEF BeforeWindow
  <2> QED
    BY <1>1, <1>2, <1>6 DEF BeforeWindow, Windows
<1>10. v.age < Window => laterIn \subseteq InWindow(v, new)
  <2> SUFFICES ASSUME v.age < Window, NEW q \in in
               PROVE  Later(q) \in InWindow(v, new)
    OBVIOUS
  <2>1. q \in reqs /\ q.age <= w.age /\ w.age < Window
    BY <1>1, <1>2 DEF InWindow, Windows
  <2>2. q.age + 1 < Window /\ Later(q).age <= v.age
    BY <1>1, <1>2, <1>6, <2>1 DEF Windows
  <2> QED
    BY <1>5, <2>1, <2>2 DEF InWindow
<1>11. IsFiniteSet(new)
  <2>1. new = InWindow(v, new) \cup BeforeWindow(v, new)
    BY <1>2, <1>7 DEF InWindow, BeforeWindow, Windows, Requests
  <2>2. IsFiniteSet(InWindow(v, new)) /\ IsFiniteSet(BeforeWindow(v, new))
    BY <1>4, <1>8, <1>9, FS_Subset
  <2> QED
    BY <2>1, <2>2, FS_Union
<1>12. /\ Cardinality(InWindow(v, new)) <= Max
       /\ Cardinality(BeforeWindow(v, new)) <= Max
  <2>1. /\ Cardinality(InWindow(v, new)) <= Cardinality(in)
        /\ Cardinality(BeforeWindow(v, new)) <= Cardinality(before)
    BY <1>4, <1>8, <1>9, FS_Subset
  <2>2. /\ Cardinality(InWindow(v, new)) \in Nat
        /\ Cardinality(BeforeWindow(v, new)) \in Nat
    BY <1>2, <1>7, <1>11, Parts
  <2>3. /\ Cardinality(in) \in Nat /\ Cardinality(before) \in Nat
        /\ Cardinality(in) <= Max /\ Cardinality(before) <= Max
    BY <1>1, Parts DEF Admitted
  <2> HIDE DEF in, before, v, new
  <2> QED
    BY <1>1, <2>1, <2>2, <2>3
<1>13. v.age < Window =>
          Cardinality(InWindow(v, new)) = IF v.count <= Max THEN v.count ELSE Max
  <2> SUFFICES ASSUME v.age < Window
               PROVE  Cardinality(InWindow(v, new)) = IF v.count <= Max THEN v.count ELSE Max
    OBVIOUS
  <2>1. InWindow(v, new) = laterIn
    BY <1>8, <1>10
  <2>2. w.age < Window
    BY <1>1, <1>2 DEF Windows
  <2>3. Cardinality(in) = IF w.count <= Max THEN w.count ELSE Max
    BY <2>2 DEF Admitted
  <2> HIDE DEF in, v, new, laterIn
  <2> QED
    BY <1>2, <1>4, <2>1, <2>3
<1> HIDE DEF v, new
<1>14. Admitted(v, new)
  BY <1>2, <1>7, <1>11, <1>12, <1>13 DEF Admitted
<1> QED
  BY <1>14 DEF v, new

\* A request is let through: it is counted in the window it comes in.
LEMMA AdmitKeeps ==
    ASSUME NEW w, NEW reqs, Admitted(w, reqs), Counted(w).count <= Max
    PROVE  Admitted(Capped(Counted(w)), Joined(reqs))
<1> DEFINE v == Capped(Counted(w))
           tick == ThisTick(reqs)
           q0 == [age |-> 0, nth |-> Cardinality(tick) + 1]
           new == reqs \cup {q0}
<1>1. /\ w \in Windows /\ reqs \subseteq Requests /\ IsFiniteSet(reqs)
      /\ Window \in Nat \ {0} /\ Max \in Nat \ {0}
  BY DEF Admitted
<1>2. /\ IsFiniteSet(tick) /\ Cardinality(tick) \in Nat
      /\ IsFiniteSet(InWindow(w, reqs)) /\ Cardinality(InWindow(w, reqs)) \in Nat
  BY <1>1, Parts
<1>3. Joined(reqs) = new
  BY DEF Joined, ThisTick
<1>4. q0 \notin reqs /\ q0 \in Requests /\ q0.age = 0 /\ q0.nth = Cardinality(tick) + 1
  <2>1. q0 \in Requests /\ q0.age = 0 /\ q0.nth = Cardinality(tick) + 1
    BY <1>1, <1>2 DEF Requests
  <2>2. \A q \in tick : q.nth <= Cardinality(tick)
    BY DEF Admitted
  <2>3. q0 \in reqs => q0 \in tick
    BY <2>1 DEF ThisTick
  <2> QED
    BY <1>2, <2>1, <2>2, <2>3
<1> HIDE DEF q0
<1>5. new \subseteq Requests /\ IsFiniteSet(new)
  BY <1>1, <1>4, FS_AddElement
<1>6. \A q \in ThisTick(new) : q.nth <= Cardinality(ThisTick(new))
  <2>1. ThisTick(new) = tick \cup {q0} /\ q0 \notin tick
    BY <1>4 DEF ThisTick
  <2>2. Cardinality(ThisTick(new)) = Cardinality(tick) + 1
    BY <1>2, <2>1, FS_AddElement
  <2>3. \A q \in tick : q.nth \in Nat /\ q.nth <= Cardinality(tick)
    BY <1>1 DEF Admitted, ThisTick, Requests
  <2> HIDE DEF tick, new
  <2> QED
    BY <1>2, <1>4, <2>1, <2>2, <2>3
<1>7. CASE w.age < Window
  <2>1. v = [age |-> w.age, count |-> w.count + 1] /\ w.count + 1 <= Max /\ w.age >= 0
    BY <1>1, <1>7 DEF Counted, Capped, Windows
  <2>2. v \in Windows /\ v.age = w.age /\ v.count = w.count + 1 /\ v.age < Window
    BY <1>1, <1>7, <2>1 DEF Windows
  <2> HIDE DEF v
  <2>3. /\ InWindow(v, new) = InWindow(w, reqs) \cup {q0} /\ q0 \notin InWindow(w, reqs)
        /\ BeforeWindow(v, new) = BeforeWindow(w, reqs)
    BY <1>4, <2>1, <2>2 DEF InWindow, BeforeWindow, Windows
  <2>4. Cardinality(InWindow(v, new)) = Cardinality(InWindow(w, reqs)) + 1
    BY <1>2, <2>3, FS_AddElement
  <2>5. Cardinality(InWindow(w, reqs)) = w.count /\ Cardinality(BeforeWindow(w, reqs)) <= Max
    BY <1>1, <1>7, <2>1 DEF Admitted, Windows
  <2>6. Cardinality(InWindow(v, new)) = v.count /\ v.count <= Max
    BY <2>1, <2>2, <2>4, <2>5
  <2>7. v.age # Window
    BY <1>1, <2>2 DEF Windows
  <2> HIDE DEF new
  <2>8. Admitted(v, new)
    BY <1>1, <1>5, <1>6, <2>2, <2>3, <2>5, <2>6, <2>7 DEF Admitted
  <2> QED
    BY <1>3, <2>8 DEF v
<1>8. CASE w.age = Window
  <2>1. v = [age |-> 0, count |-> 1]
    BY <1>1, <1>8 DEF Counted, Capped, Windows
  <2>2. v \in Windows /\ v.age = 0 /\ v.count = 1 /\ v.age < Window /\ v.count <= Max
    BY <1>1, <2>1 DEF Windows
  <2> HIDE DEF v
  <2>3. tick = {}
    BY <1>8 DEF Admitted
  <2>4. InWindow(v, new) = {q0}
    BY <1>1, <1>4, <2>2, <2>3 DEF InWindow, ThisTick, Requests
  <2>5. Cardinality(InWindow(v, new)) = 1
    BY <2>4, FS_Singleton
  <2>6. BeforeWindow(v, new) \subseteq InWindow(w, reqs)
    BY <1>1, <1>4, <1>8, <2>2 DEF InWindow, BeforeWindow, Requests
  <2>7. Cardinality(BeforeWindow(v, new)) <= Max
    <3>1. /\ Cardinality(BeforeWindow(v, new)) <= Cardinality(InWindow(w, reqs))
          /\ Cardinality(BeforeWindow(v, new)) \in Nat
      BY <1>2, <2>6, FS_Subset, FS_CardinalityType
    <3>2. Cardinality(InWindow(w, reqs)) <= Max
      BY DEF Admitted
    <3> QED
      BY <1>1, <1>2, <3>1, <3>2
  <2>8. v.age # Window
    BY <1>1, <2>2
  <2> HIDE DEF new
  <2>9. Admitted(v, new)
    BY <1>1, <1>5, <1>6, <2>2, <2>5, <2>7, <2>8 DEF Admitted
  <2> QED
    BY <1>3, <2>9 DEF v
<1> QED
  BY <1>1, <1>7, <1>8 DEF Windows

\* A refusal falls into a window that has let through all it may.
LEMMA RefuseKeeps ==
    ASSUME NEW w, NEW reqs, Admitted(w, reqs), ~(Counted(w).count <= Max)
    PROVE  Admitted(Capped(Counted(w)), reqs) /\ Cardinality(reqs) >= Max
<1> DEFINE v == Capped(Counted(w))
<1>1. /\ w \in Windows /\ reqs \subseteq Requests /\ IsFiniteSet(reqs)
      /\ Window \in Nat \ {0} /\ Max \in Nat \ {0}
  BY DEF Admitted
<1>2. w.age < Window /\ w.count + 1 > Max /\ w.count \in 0 .. Max + 1 /\ w.age \in Nat
  BY <1>1 DEF Counted, Windows
<1>3. v = [age |-> w.age, count |-> Max + 1]
  BY <1>1, <1>2 DEF Counted, Capped
<1>4. v \in Windows /\ v.age = w.age /\ v.count = Max + 1
  BY <1>1, <1>3 DEF Windows
<1> HIDE DEF v
<1>5. Cardinality(InWindow(w, reqs)) = Max
  BY <1>1, <1>2 DEF Admitted
<1>6. InWindow(v, reqs) = InWindow(w, reqs) /\ BeforeWindow(v, reqs) = BeforeWindow(w, reqs)
  BY <1>4 DEF InWindow, BeforeWindow
<1>7. Admitted(v, reqs)
  BY <1>1, <1>2, <1>4, <1>5, <1>6 DEF Admitted
<1>8. Cardinality(reqs) >= Max
  BY <1>1, <1>5, Parts
<1> QED
  BY <1>7, <1>8 DEF v
-----------------------------------------------------------------------------
(* The steps of the specification. *)

\* No window is open, and nothing has come through.
LEMMA InitHolds == Init => IInv
<1> SUFFICES ASSUME Init PROVE IInv
  OBVIOUS
<1>1. NoWindow \in Windows /\ NoWindow.age = Window /\ NoWindow.count = 0
  BY DEF NoWindow, Windows
<1>2. Admitted(NoWindow, {})
  <2>1. InWindow(NoWindow, {}) = {} /\ BeforeWindow(NoWindow, {}) = {} /\ ThisTick({}) = {}
    BY DEF InWindow, BeforeWindow, ThisTick
  <2> QED
    BY <1>1, <2>1, FS_EmptySet DEF Admitted
<1>3. RefusalsAreEarned /\ WritesAreAuthorised
  BY DEF Init, RefusalsAreEarned, WritesAreAuthorised
<1> QED
  BY <1>1, <1>2, <1>3 DEF Init, IInv

\* No route answers 429.
LEMMA RoutesDoNotRefuse ==
    ASSUME NEW path, NEW status \in Statuses(path)
    PROVE  status # 429
BY DEF Statuses

\* What a route writes came with the token.
LEMMA RoutesWriteForTheToken ==
    ASSUME NEW path, NEW token, Authorised(path, token), NEW status,
           NEW written \in Written(path, status), written
    PROVE  token \in {Bearer} \ {None}
<1>1. path \in Writes
  BY DEF Written
<1> QED
  BY <1>1 DEF Writes, Protected, Authorised

\* One key's window moves at a time, but for the ticks.
LEMMA NextHolds == IInv /\ [Next]_vars => IInv'
<1> SUFFICES ASSUME IInv, [Next]_vars PROVE IInv'
  OBVIOUS
<1>a. /\ windows \in [Clients -> Windows]
      /\ recent \in [Clients -> SUBSET Requests]
      /\ \A k \in Clients : Admitted(windows[k], recent[k])
      /\ RefusalsAreEarned
      /\ WritesAreAuthorised
  BY DEF IInv
<1>1. CASE Tick
  <2>1. ASSUME NEW k \in Clients
        PROVE  /\ windows'[k] \in Windows /\ recent'[k] \in SUBSET Requests
               /\ Admitted(windows'[k], recent'[k])
    <3>1. /\ windows'[k] = [age |-> Older(windows[k].age), count |-> windows[k].count]
          /\ recent'[k] = Aged(recent[k])
      BY <1>1 DEF Tick
    <3>2. Admitted(windows'[k], recent'[k])
      BY <1>a, <3>1, TickKeeps
    <3> QED
      BY <3>2 DEF Admitted
  <2>2. windows' \in [Clients -> Windows] /\ recent' \in [Clients -> SUBSET Requests]
    BY <1>1, <2>1 DEF Tick
  <2>3. RefusalsAreEarned' /\ WritesAreAuthorised'
    BY <1>a, <1>1 DEF Tick, RefusalsAreEarned, WritesAreAuthorised
  <2> QED
    BY <2>1, <2>2, <2>3 DEF IInv
<1>2. ASSUME NEW k \in Clients, NEW path \in Paths, NEW token \in Tokens, Admit(k, path, token)
      PROVE  IInv'
  <2>1. /\ windows' = [windows EXCEPT ![k] = Capped(Counted(windows[k]))]
        /\ recent' = [recent EXCEPT ![k] = Joined(recent[k])]
    BY <1>2 DEF Admit, CountRequest, Route
  <2>2. Admitted(Capped(Counted(windows[k])), Joined(recent[k]))
    BY <1>a, <1>2, AdmitKeeps DEF Admit, WithinLimit
  <2>3. Capped(Counted(windows[k])) \in Windows /\ Joined(recent[k]) \in SUBSET Requests
    BY <2>2 DEF Admitted
  <2>4. /\ windows' \in [Clients -> Windows] /\ recent' \in [Clients -> SUBSET Requests]
        /\ \A j \in Clients : Admitted(windows'[j], recent'[j])
    BY <1>a, <2>1, <2>2, <2>3
  <2>5. RefusalsAreEarned'
    <3>1. PICK status \in Statuses(path) : last' = [client |-> k, status |-> status]
      BY <1>2 DEF Admit, Route, Answer
    <3>2. last'.status # 429
      BY <3>1, RoutesDoNotRefuse
    <3> QED
      BY <3>2 DEF RefusalsAreEarned
  <2>6. WritesAreAuthorised'
    <3>1. PICK status \in Statuses(path) : \E written \in Written(path, status) :
             journal' = IF written THEN journal \cup {token} ELSE journal
      BY <1>2 DEF Admit, Route
    <3>2. PICK written \in Written(path, status) :
             journal' = IF written THEN journal \cup {token} ELSE journal
      BY <3>1
    <3>3. written => token \in {Bearer} \ {None}
      BY <1>2, RoutesWriteForTheToken DEF Admit
    <3> QED
      BY <1>a, <3>2, <3>3 DEF WritesAreAuthorised
  <2> QED
    BY <2>4, <2>5, <2>6 DEF IInv
<1>3. ASSUME NEW k \in Clients, NEW path \in Paths, NEW token \in Tokens, Refuse(k, path, token)
      PROVE  IInv'
  <2>1. /\ windows' = [windows EXCEPT ![k] = Capped(Counted(windows[k]))]
        /\ recent' = recent /\ journal' = journal
        /\ last' = [client |-> k, status |-> 429]
    BY <1>3 DEF Refuse, CountRequest, Answer
  <2>2. /\ Admitted(Capped(Counted(windows[k])), recent[k])
        /\ Cardinality(recent[k]) >= Max
    BY <1>a, <1>3, RefuseKeeps DEF Refuse, WithinLimit
  <2>3. Capped(Counted(windows[k])) \in Windows
    BY <2>2 DEF Admitted
  <2>4. /\ windows' \in [Clients -> Windows] /\ recent' \in [Clients -> SUBSET Requests]
        /\ \A j \in Clients : Admitted(windows'[j], recent'[j])
    BY <1>a, <2>1, <2>2, <2>3
  <2>5. RefusalsAreEarned' /\ WritesAreAuthorised'
    BY <1>a, <2>1, <2>2 DEF RefusalsAreEarned, WritesAreAuthorised
  <2> QED
    BY <2>4, <2>5 DEF IInv
<1>4. ASSUME NEW k \in Clients, NEW path \in Paths, NEW token \in Tokens, TurnAway(k, path, token)
      PROVE  IInv'
  BY <1>a, <1>4 DEF TurnAway, NotCounted, Answer, IInv, RefusalsAreEarned, WritesAreAuthorised
<1>5. CASE UNCHANGED vars
  BY <1>a, <1>5 DEF vars, IInv, RefusalsAreEarned, WritesAreAuthorised
<1> QED
  BY <1>1, <1>2, <1>3, <1>4, <1>5 DEF Next, Request

\* The invariant from which the others follow (middleware.py, host.py).
THEOREM GatewayInvariance == Spec => []IInv
  BY InitHolds, NextHolds, PTL DEF Spec

\* Whatever the clock does between a client's requests, and whether they are
\* refused or let through, no span of a window's length has more than twice the
\* limit of them at the routes (middleware.py, RateLimitMiddleware.dispatch).
THEOREM NoBurstBeyondTwice == Spec => []AtMostTwice
<1>1. IInv => AtMostTwice
  <2> SUFFICES ASSUME IInv, NEW k \in Clients
               PROVE  Cardinality(recent[k]) <= 2 * Max
    BY DEF AtMostTwice
  <2>1. Admitted(windows[k], recent[k])
    BY DEF IInv
  <2>2. /\ windows[k] \in Windows /\ IsFiniteSet(recent[k]) /\ recent[k] \subseteq Requests
        /\ Cardinality(InWindow(windows[k], recent[k])) <= Max
        /\ Cardinality(BeforeWindow(windows[k], recent[k])) <= Max
    BY <2>1 DEF Admitted
  <2> QED
    BY <2>2, Parts
<1> QED
  BY <1>1, GatewayInvariance, PTL

\* A 429 means that the client's own requests have used its limit up, whatever
\* the token check has turned away before (host.py: "auth runs first, then rate
\* limit").
THEOREM OnlyBusyClientsAreRefused == Spec => []RefusalsAreEarned
<1>1. IInv => RefusalsAreEarned
  BY DEF IInv
<1> QED
  BY <1>1, GatewayInvariance, PTL

\* Nothing gets into the journal over HTTP without the agent's token
\* (middleware.py, _PROTECTED_PREFIXES against routing.py).
THEOREM OnlyAuthorisedWrites == Spec => []WritesAreAuthorised
<1>1. IInv => WritesAreAuthorised
  BY DEF IInv
<1> QED
  BY <1>1, GatewayInvariance, PTL
=============================================================================
