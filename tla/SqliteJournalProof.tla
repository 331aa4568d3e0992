------------------------- MODULE SqliteJournalProof -------------------------
(***************************************************************************)
(* Theorems about SqliteJournal, for any deliberations, lengths of batches *)
(* and number of entries.                                                  *)
(***************************************************************************)
EXTENDS SqliteJournal, FiniteSetTheorems, SequenceTheorems, TLAPS

USE JournalEntriesAssumption

\* An entry carries the number of its call, which is the first of its entries.
Called(m) ==
    /\ IsFiniteSet(m)
    /\ \A e \in m : e.call \in 1 .. Cardinality(m)

\* A call brings all that was ever made for it, and has put into the table or
\* the transaction what it has no longer to insert.
CallInv ==
    /\ In(rows) \cup In(txn) \subseteq made
    /\ calling # <<>> => In(calling) = {e \in made : e.call = calling[1].call}
    /\ In(calling) \subseteq In(rows) \cup In(txn) \cup In(todo)
    /\ In(txn) \subseteq In(calling)

IInv ==
    /\ TypeOK
    /\ Called(made)
    /\ CallInv
    /\ BatchIsWhole
-----------------------------------------------------------------------------
(* Sequences of entries, and the calls that bring them. *)

\* What a sequence holds after each operation the store uses.
LEMMA InSequences ==
    ASSUME NEW S, NEW s \in Seq(S)
    PROVE  /\ In(s) \subseteq S
           /\ In(<<>>) = {}
           /\ s # <<>> <=> In(s) # {}
           /\ \A e \in S : In(Append(s, e)) = In(s) \cup {e}
           /\ \A t \in Seq(S) : In(s \o t) = In(s) \cup In(t)
           /\ s # <<>> => /\ Tail(s) \in Seq(S) /\ Head(s) \in S
                          /\ In(s) = {Head(s)} \cup In(Tail(s))
<1>1. \A t : In(t) = Range(t)
  BY DEF In, Range
<1>2. \A t, u \in Seq(S) : In(t \o u) = In(t) \cup In(u)
  BY <1>1, RangeConcatenation
<1>3. \A e \in S : <<e>> \in Seq(S) /\ In(<<e>>) = {e}
  BY DEF In
<1>4. In(s) \subseteq S /\ In(<<>>) = {}
  BY DEF In
<1>5. s # <<>> <=> In(s) # {}
  <2>1. s # <<>> => 1 \in DOMAIN s
    OBVIOUS
  <2> QED
    BY <1>4, <2>1 DEF In
<1>6. ASSUME NEW e \in S
      PROVE  In(Append(s, e)) = In(s) \cup {e}
  <2> DEFINE one == <<e>>
  <2>1. one \in Seq(S) /\ In(one) = {e} /\ Append(s, e) = s \o one
    BY <1>3, AppendIsConcat
  <2> HIDE DEF one
  <2> QED
    BY <1>2, <2>1
<1>7. ASSUME s # <<>>
      PROVE  /\ Tail(s) \in Seq(S) /\ Head(s) \in S
             /\ In(s) = {Head(s)} \cup In(Tail(s))
  <2> DEFINE one == <<Head(s)>>
  <2>1. /\ Tail(s) \in Seq(S) /\ Head(s) \in S /\ s = one \o Tail(s)
        /\ one \in Seq(S) /\ In(one) = {Head(s)}
    BY <1>3, <1>7
  <2> HIDE DEF one
  <2> QED
    BY <1>2, <2>1
<1> QED
  BY <1>2, <1>4, <1>5, <1>6, <1>7

\* The entries of a new call are not those of an earlier one.
LEMMA NewCallsAreNew ==
    ASSUME NEW m, m \subseteq Entry, Called(m), NEW es \in NewCalls(m)
    PROVE  /\ es \in Seq(Entry) /\ es # <<>>
           /\ \A e \in In(es) : e.call = es[1].call
           /\ \A e \in m : e.call # es[1].call
           /\ Called(m \cup In(es))
<1> DEFINE first == Cardinality(m) + 1
<1>1. IsFiniteSet(m) /\ Cardinality(m) \in Nat
  BY FS_CardinalityType DEF Called
<1>2. PICK n \in BatchSizes : /\ es \in [1 .. n -> Entry]
                              /\ \A i \in 1 .. n : es[i].id = first + i - 1 /\ es[i].call = first
  BY DEF NewCalls
<1>3. n \in Nat /\ n >= 1
  OBVIOUS
<1>4. DOMAIN es = 1 .. n /\ 1 \in 1 .. n
  BY <1>2, <1>3
<1>5. es \in Seq(Entry) /\ es # <<>>
  BY <1>2, <1>3, <1>4
<1>6. \A e \in In(es) : e.call = first
  BY <1>2, <1>4 DEF In
<1>7. es[1].call = first /\ es[1] \in In(es)
  BY <1>2, <1>4 DEF In
<1>8. \A e \in m : e.call # first
  BY <1>1 DEF Called
<1>9. IsFiniteSet(In(es))
  <2>1. es \in Surjection(1 .. n, In(es))
    BY <1>4, <1>5 DEF In, Surjection
  <2> QED
    BY <1>3, <2>1, FS_Interval, FS_Surjection
<1>10. /\ IsFiniteSet(m \cup In(es))
       /\ Cardinality(m \cup In(es)) \in Nat /\ first <= Cardinality(m \cup In(es))
  <2>1. IsFiniteSet(m \cup In(es))
    BY <1>1, <1>9, FS_Union
  <2>2. es[1] \notin m
    BY <1>7, <1>8
  <2>3. IsFiniteSet(m \cup {es[1]}) /\ Cardinality(m \cup {es[1]}) = first
    BY <1>1, <2>2, FS_AddElement
  <2>4. m \cup {es[1]} \subseteq m \cup In(es)
    BY <1>7
  <2>5. Cardinality(m \cup {es[1]}) <= Cardinality(m \cup In(es))
    BY <2>1, <2>4, FS_Subset
  <2> QED
    BY <2>1, <2>3, <2>5, FS_CardinalityType
<1>11. Called(m \cup In(es))
  <2>1. \A e \in m : e.call \in 1 .. Cardinality(m)
    BY DEF Called
  <2>2. 1 .. first \subseteq 1 .. Cardinality(m \cup In(es)) /\ first \in 1 .. first
    BY <1>1, <1>10
  <2>3. 1 .. Cardinality(m) \subseteq 1 .. first
    BY <1>1
  <2> HIDE DEF first
  <2> QED
    BY <1>6, <1>10, <2>1, <2>2, <2>3 DEF Called
<1> QED
  BY <1>5, <1>6, <1>7, <1>8, <1>11
-----------------------------------------------------------------------------
(* The invariant. *)

LEMMA InitInv == Init => IInv
<1> SUFFICES ASSUME Init PROVE IInv
  OBVIOUS
<1>1. In(<<>>) = {} /\ <<>> \in Seq(Entry)
  BY DEF In
<1>2. Called({})
  BY FS_EmptySet DEF Called
<1> QED
  BY <1>1, <1>2 DEF Init, IInv, TypeOK, CallInv, BatchIsWhole, Batch

\* What holds of a call in progress by its type.
LEMMA CallTypes ==
    ASSUME IInv
    PROVE  /\ In(<<>>) = {} /\ <<>> \in Seq(Entry)
           /\ calling = <<>> => todo = <<>> /\ txn = <<>>
           /\ calling # <<>> => /\ Len(calling) \in Nat /\ Len(calling) >= 1
                                /\ calling[1] \in In(calling)
           /\ calling # <<>> /\ ~Batch => In(calling) = {calling[1]} /\ txn = <<>>
<1>1. In(<<>>) = {} /\ <<>> \in Seq(Entry)
  BY DEF In
<1>2. calling = <<>> => todo = <<>> /\ txn = <<>>
  <2> SUFFICES ASSUME calling = <<>> PROVE todo = <<>> /\ txn = <<>>
    OBVIOUS
  <2>1. In(todo) = {} /\ In(txn) = {}
    BY <1>1 DEF IInv, TypeOK, CallInv
  <2> QED
    BY <2>1, InSequences DEF IInv, TypeOK
<1>3. ASSUME calling # <<>>
      PROVE  /\ Len(calling) \in Nat /\ Len(calling) >= 1 /\ DOMAIN calling = 1 .. Len(calling)
             /\ calling[1] \in In(calling)
  <2>1. calling \in Seq(Entry)
    BY DEF IInv, TypeOK
  <2>2. Len(calling) \in Nat /\ Len(calling) >= 1 /\ DOMAIN calling = 1 .. Len(calling)
    BY <1>3, <2>1
  <2> QED
    BY <2>2 DEF In
<1>4. ASSUME calling # <<>>, ~Batch
      PROVE  In(calling) = {calling[1]} /\ txn = <<>>
  <2>1. Len(calling) = 1
    BY <1>3, <1>4 DEF Batch
  <2>2. In(calling) = {calling[1]}
    BY <1>3, <1>4, <2>1 DEF In
  <2> QED
    BY <2>2, <1>4 DEF IInv, TypeOK
<1> QED
  BY <1>1, <1>2, <1>3, <1>4

\* A new call or a repeated one: nothing of it is in the transaction yet.
LEMMA CallStep == IInv /\ Call => IInv'
<1> SUFFICES ASSUME IInv, Call PROVE IInv'
  OBVIOUS
<1> USE DEF IInv, TypeOK, CallInv
<1>1. txn = <<>> /\ In(<<>>) = {}
  BY CallTypes DEF Call, Idle
<1>2. /\ calling' \in Seq(Entry) /\ calling' # <<>>
      /\ \A e \in In(calling') : e.call = calling'[1].call
      /\ \A e \in made : e.call # calling'[1].call
      /\ Called(made \cup In(calling'))
  BY NewCallsAreNew DEF Call
<1>3. In(calling') \subseteq Entry
  BY <1>2, InSequences
<1>4. TypeOK' /\ Called(made)'
  BY <1>1, <1>2, <1>3 DEF Call, Idle, Batch
<1>5. CallInv'
  BY <1>1, <1>2 DEF Call, Idle
<1>6. BatchIsWhole'
  <2> SUFFICES ASSUME NEW e1 \in made', NEW e2 \in made', e1.call = e2.call
               PROVE  e1 \in In(rows) => e2 \in In(rows)
    BY DEF BatchIsWhole, Call
  <2>1. e1 \in made => e2 \in made
    BY <1>2 DEF Call
  <2> QED
    BY <2>1 DEF BatchIsWhole, Call
<1> QED
  BY <1>4, <1>5, <1>6

LEMMA AgainStep == IInv /\ Again => IInv'
<1> SUFFICES ASSUME IInv, Again PROVE IInv'
  OBVIOUS
<1> USE DEF IInv, TypeOK, CallInv
<1>1. txn = <<>> /\ In(<<>>) = {}
  BY CallTypes DEF Again, Idle
<1>2. PICK n \in BatchSizes : calling' \in [1 .. n -> made]
  BY DEF Again, PastCalls
<1>3. n \in Nat /\ n >= 1
  OBVIOUS
<1>4. calling' \in Seq(Entry)
  BY <1>2, <1>3
<1>5. In(calling') = {e \in made : e.call = calling'[1].call}
  BY DEF Again, PastCalls
<1>6. TypeOK'
  BY <1>1, <1>4 DEF Again, Idle, Batch
<1>7. CallInv'
  BY <1>1, <1>5 DEF Again, Idle
<1>8. Called(made)' /\ BatchIsWhole'
  BY DEF Again, BatchIsWhole
<1> QED
  BY <1>6, <1>7, <1>8

\* A row of a batch goes to the transaction, and a single row is its call.
LEMMA InsertStep == IInv /\ Insert => IInv'
<1> SUFFICES ASSUME IInv, Insert PROVE IInv'
  OBVIOUS
<1> USE DEF IInv, TypeOK, CallInv
<1> DEFINE e == Head(todo)
<1>1. /\ todo' \in Seq(Entry) /\ e \in Entry
      /\ In(todo) = {e} \cup In(todo')
  BY InSequences DEF Insert
<1>2. e \in In(calling) /\ calling # <<>> /\ e \in made /\ e.call = calling[1].call
  <2>1. e \in In(calling)
    BY <1>1
  <2>2. calling # <<>>
    BY <2>1, CallTypes
  <2> QED
    BY <2>1, <2>2
<1>3. ASSUME NEW table \in Seq(Entry)
      PROVE  /\ OrIgnore(table, e) \in Seq(Entry)
             /\ In(OrIgnore(table, e)) = In(table) \cup {e}
  BY <1>1, <1>3, InSequences DEF OrIgnore
<1>4. CASE Batch
  <2>1. rows' = rows /\ txn' \in Seq(Entry)
    BY <1>3, <1>4 DEF Insert, InsertRow
  <2>2. In(rows) \cup In(txn') = In(rows) \cup In(txn) \cup {e} /\ In(txn') \subseteq In(txn) \cup {e}
    BY <1>3, <1>4 DEF Insert, InsertRow
  <2>3. TypeOK'
    BY <1>1, <1>4, <2>1 DEF Insert, Batch
  <2>4. CallInv'
    BY <1>1, <1>2, <2>1, <2>2 DEF Insert
  <2> QED
    BY <2>1, <2>3, <2>4 DEF Insert, BatchIsWhole
<1>5. CASE ~Batch
  <2>1. txn' = txn /\ rows' \in Seq(Entry) /\ In(rows') = In(rows) \cup {e}
    BY <1>3, <1>5 DEF Insert, InsertRow
  <2>2. \A f \in made : f.call = e.call => f = e
    BY <1>2, <1>5, CallTypes
  <2>3. TypeOK'
    BY <1>1, <1>5, <2>1 DEF Insert, Batch
  <2>4. CallInv'
    BY <1>1, <1>2, <2>1 DEF Insert
  <2>5. BatchIsWhole'
    BY <1>2, <2>1, <2>2 DEF Insert, BatchIsWhole
  <2> QED
    BY <2>3, <2>4, <2>5 DEF Insert
<1> QED
  BY <1>4, <1>5

\* The COMMIT brings all that its call ever brings.
LEMMA ReturnStep == IInv /\ Return => IInv'
<1> SUFFICES ASSUME IInv, Return PROVE IInv'
  OBVIOUS
<1> USE DEF IInv, TypeOK, CallInv
<1>1. In(<<>>) = {} /\ <<>> \in Seq(Entry)
  BY CallTypes
<1>2. rows' \in Seq(Entry) /\ In(rows') = In(rows) \cup In(txn)
  BY InSequences DEF Return
<1>3. In(calling) \subseteq In(rows')
  BY <1>1, <1>2 DEF Return
<1>4. TypeOK' /\ CallInv'
  BY <1>1, <1>2 DEF Return, Batch
<1>5. BatchIsWhole'
  <2> SUFFICES ASSUME NEW e1 \in made, NEW e2 \in made, e1.call = e2.call, e1 \in In(rows')
               PROVE  e2 \in In(rows')
    BY DEF BatchIsWhole, Return
  <2>1. CASE e1 \in In(rows)
    BY <1>2, <2>1 DEF BatchIsWhole
  <2>2. CASE e1 \in In(txn)
    BY <1>3, <2>2 DEF Return
  <2> QED
    BY <1>2, <2>1, <2>2
<1> QED
  BY <1>4, <1>5 DEF Return

THEOREM SqliteInvariance == Spec => []IInv
<1>1. IInv /\ [Next]_vars => IInv'
  <2> SUFFICES ASSUME IInv, [Next]_vars PROVE IInv'
    OBVIOUS
  <2> USE DEF IInv, TypeOK, CallInv, BatchIsWhole, Batch
  <2>1. In(<<>>) = {} /\ <<>> \in Seq(Entry)
    BY CallTypes
  <2>2. CASE Raise
    BY <2>1, <2>2 DEF Raise, Rollback
  <2>3. CASE Close
    BY <2>3 DEF Close, call
  <2>4. CASE Crash
    BY <2>1, <2>4 DEF Crash
  <2>5. CASE Restart
    BY <2>5 DEF Restart, call
  <2>6. CASE UNCHANGED vars
    BY <2>6 DEF vars, call
  <2> QED
    BY <2>2, <2>3, <2>4, <2>5, <2>6, CallStep, AgainStep, InsertStep, ReturnStep DEF Next
<1> QED
  BY InitInv, <1>1, PTL DEF Spec

\* The types of all variables, for any deliberations, batches and entries
\* (sqlite.py:31-92).
THEOREM SqliteTypes == Spec => []TypeOK
<1>1. IInv => TypeOK
  BY DEF IInv
<1> QED
  BY SqliteInvariance, <1>1, PTL

\* However long the batches, whatever fails or dies and whatever is repeated, a
\* batch is in the table as a whole or not at all (sqlite.py:66-75).
THEOREM BatchesAreWhole == Spec => []BatchIsWhole
<1>1. IInv => BatchIsWhole
  BY DEF IInv
<1> QED
  BY SqliteInvariance, <1>1, PTL
-----------------------------------------------------------------------------
(* The refinement. *)

Distinct(s) == \A i, j \in 1 .. Len(s) : i # j => s[i] # s[j]

\* No entry is in the table or its transaction twice, and what was acknowledged
\* is in the table.
TableInv ==
    /\ Distinct(rows) /\ Distinct(txn)
    /\ In(rows) \cap In(txn) = {}
    /\ acked \subseteq In(rows)

\* The two ways in which the table grows keep its entries apart.
LEMMA DistinctGrows ==
    ASSUME NEW s \in Seq(Entry), NEW t \in Seq(Entry),
           Distinct(s), Distinct(t), In(s) \cap In(t) = {}
    PROVE  Distinct(s \o t)
<1>1. /\ Len(s) \in Nat /\ Len(t) \in Nat /\ Len(s \o t) = Len(s) + Len(t)
      /\ DOMAIN s = 1 .. Len(s) /\ DOMAIN t = 1 .. Len(t)
      /\ \A i \in 1 .. Len(s) + Len(t) :
            (s \o t)[i] = IF i <= Len(s) THEN s[i] ELSE t[i - Len(s)]
  OBVIOUS
<1>2. \A i \in 1 .. Len(s) + Len(t) : i <= Len(s) \/ i - Len(s) \in 1 .. Len(t)
  BY <1>1
<1>3. \A i \in 1 .. Len(s), j \in 1 .. Len(t) : s[i] # t[j]
  BY <1>1 DEF In
<1> SUFFICES ASSUME NEW i \in 1 .. Len(s) + Len(t), NEW j \in 1 .. Len(s) + Len(t), i < j
             PROVE  (s \o t)[i] # (s \o t)[j]
  BY <1>1 DEF Distinct
<1>4. CASE j <= Len(s)
  BY <1>1, <1>4 DEF Distinct
<1>5. CASE i <= Len(s) /\ ~(j <= Len(s))
  BY <1>1, <1>2, <1>3, <1>5
<1>6. CASE ~(i <= Len(s))
  <2>1. i - Len(s) \in 1 .. Len(t) /\ j - Len(s) \in 1 .. Len(t) /\ i - Len(s) # j - Len(s)
    BY <1>1, <1>2, <1>6
  <2>2. (s \o t)[i] = t[i - Len(s)] /\ (s \o t)[j] = t[j - Len(s)]
    BY <1>1, <1>6
  <2> HIDE <1>1
  <2> QED
    BY <2>1, <2>2 DEF Distinct
<1> QED
  BY <1>1, <1>4, <1>5, <1>6

LEMMA OrIgnoreKeeps ==
    ASSUME NEW s \in Seq(Entry), NEW e \in Entry, Distinct(s)
    PROVE  Distinct(OrIgnore(s, e))
<1>1. CASE e \in In(s)
  BY <1>1 DEF OrIgnore
<1>2. CASE e \notin In(s)
  <2> DEFINE one == <<e>>
  <2>1. one \in Seq(Entry) /\ In(one) = {e} /\ Distinct(one)
    BY DEF In, Distinct
  <2>2. OrIgnore(s, e) = s \o one
    BY <1>2, AppendIsConcat DEF OrIgnore
  <2> HIDE DEF one
  <2> QED
    BY <1>2, <2>1, <2>2, DistinctGrows
<1> QED
  BY <1>1, <1>2

LEMMA TableInit == Init => TableInv
<1>1. Distinct(<<>>) /\ In(<<>>) = {}
  BY DEF Distinct, In
<1> QED
  BY <1>1 DEF Init, TableInv

LEMMA TableNext == IInv /\ TableInv /\ [Next]_vars => TableInv'
<1> SUFFICES ASSUME IInv, TableInv, [Next]_vars PROVE TableInv'
  OBVIOUS
<1>1. Distinct(<<>>) /\ In(<<>>) = {} /\ rows \in Seq(Entry) /\ txn \in Seq(Entry)
  BY DEF Distinct, In, IInv, TypeOK
<1>2. CASE Insert
  <2> DEFINE e == Head(todo)
  <2>1. e \in Entry
    BY <1>2, InSequences DEF Insert, IInv, TypeOK
  <2>2. acked' = acked
    BY <1>2 DEF Insert
  <2>3. \A s \in Seq(Entry) : In(OrIgnore(s, e)) = In(s) \cup {e}
    BY <2>1, InSequences DEF OrIgnore
  <2>4. CASE Batch
    <3>1. rows' = rows /\ txn' = IF e \in In(rows) THEN txn ELSE OrIgnore(txn, e)
      BY <1>2, <2>4 DEF Insert, InsertRow
    <3>2. Distinct(txn')
      BY <1>1, <2>1, <3>1, OrIgnoreKeeps DEF TableInv
    <3>3. In(rows) \cap In(txn') = {}
      BY <1>1, <2>3, <3>1 DEF TableInv
    <3> QED
      BY <2>2, <3>1, <3>2, <3>3 DEF TableInv
  <2>5. CASE ~Batch
    <3>1. rows' = OrIgnore(rows, e) /\ txn' = txn /\ txn = <<>>
      BY <1>2, <2>5 DEF Insert, InsertRow, IInv, TypeOK
    <3>2. Distinct(rows')
      BY <1>1, <2>1, <3>1, OrIgnoreKeeps DEF TableInv
    <3>3. In(rows) \subseteq In(rows')
      BY <1>1, <2>3, <3>1
    <3> QED
      BY <1>1, <2>2, <3>1, <3>2, <3>3 DEF TableInv
  <2> QED
    BY <2>4, <2>5
<1>3. CASE Return
  <2>1. rows' = rows \o txn /\ txn' = <<>> /\ acked' = acked \cup In(calling) /\ In(todo) = {}
    BY <1>1, <1>3 DEF Return
  <2>2. In(rows') = In(rows) \cup In(txn)
    BY <1>1, <2>1, InSequences
  <2>3. Distinct(rows')
    BY <1>1, <2>1, DistinctGrows DEF TableInv
  <2>4. In(calling) \subseteq In(rows) \cup In(txn)
    BY <2>1 DEF IInv, CallInv
  <2> QED
    BY <1>1, <2>1, <2>2, <2>3, <2>4 DEF TableInv
<1>4. CASE Call \/ Again \/ Close \/ Restart \/ UNCHANGED vars
  <2>1. UNCHANGED <<rows, txn, acked>>
    BY <1>4 DEF Call, Again, Close, Restart, vars
  <2> QED
    BY <2>1 DEF TableInv
<1>5. CASE Raise \/ Crash
  <2>1. txn' = <<>> /\ UNCHANGED <<rows, acked>>
    BY <1>5 DEF Raise, Rollback, Crash
  <2> QED
    BY <1>1, <2>1 DEF TableInv
<1> QED
  BY <1>2, <1>3, <1>4, <1>5 DEF Next

\* The rows of a deliberation, and how many of them are before one.
At(s, d) == {i \in 1 .. Len(s) : s[i].deliberation = d}

Places(at) == \E n \in Nat : at \subseteq 1 .. n

Below(at, i) == {j \in at : j < i}

Increasing(p, at) ==
    /\ p \in [1 .. Cardinality(at) -> at]
    /\ \A k, l \in 1 .. Cardinality(at) : k < l => p[k] < p[l]

\* Positions are told apart by how many are below them, and they can be put in
\* order.
LEMMA PlacesByOrder ==
    ASSUME NEW at, Places(at)
    PROVE  /\ IsFiniteSet(at) /\ Cardinality(at) \in Nat
           /\ \A i \in at : /\ Cardinality(Below(at, i)) \in 0 .. Cardinality(at) - 1
                            /\ IsFiniteSet(Below(at, i))
           /\ \A i, j \in at : i < j => Cardinality(Below(at, i)) < Cardinality(Below(at, j))
           /\ \E p : Increasing(p, at)
<1> DEFINE m == Cardinality(at)
           N == 1 .. m
           Counts == 0 .. m - 1
           below == [i \in at |-> Cardinality(Below(at, i))]
<1>1. IsFiniteSet(at) /\ m \in Nat
  <2>1. PICK n \in Nat : at \subseteq 1 .. n
    BY DEF Places
  <2>2. 1 \in Int /\ n \in Int
    OBVIOUS
  <2>3. IsFiniteSet(1 .. n)
    BY <2>2, FS_Interval
  <2> QED
    BY <2>1, <2>3, FS_Subset, FS_CardinalityType
<1>2. at \subseteq Nat
  BY DEF Places
<1>3. ASSUME NEW i \in at
      PROVE  IsFiniteSet(Below(at, i)) /\ Cardinality(Below(at, i)) \in Counts
  <2>1. Below(at, i) \subseteq at \ {i}
    BY <1>2 DEF Below
  <2>2. IsFiniteSet(at \ {i}) /\ Cardinality(at \ {i}) = m - 1
    BY <1>1, FS_RemoveElement
  <2>3. IsFiniteSet(Below(at, i)) /\ Cardinality(Below(at, i)) <= m - 1
    BY <2>1, <2>2, FS_Subset
  <2> QED
    BY <1>1, <2>3, FS_CardinalityType
<1>4. ASSUME NEW i \in at, NEW j \in at, i < j
      PROVE  Cardinality(Below(at, i)) < Cardinality(Below(at, j))
  <2>1. Below(at, i) \subseteq Below(at, j) /\ i \in Below(at, j) /\ i \notin Below(at, i)
    <3>1. \A k \in at : k \in Nat
      BY <1>2
    <3>2. (\A k \in at : k < i => k < j) /\ ~(i < i)
      BY <1>4, <3>1
    <3>3. \A k, l : k \in Below(at, l) <=> k \in at /\ k < l
      BY DEF Below
    <3> QED
      BY <1>4, <3>2, <3>3
  <2>2. /\ Cardinality(Below(at, i)) <= Cardinality(Below(at, j))
        /\ Cardinality(Below(at, i)) # Cardinality(Below(at, j))
    BY <1>3, <2>1, FS_Subset
  <2> QED
    BY <1>1, <1>3, <2>2
<1>5. IsFiniteSet(Counts) /\ Cardinality(Counts) = m
  <2>1. 0 \in Int /\ m - 1 \in Int
    BY <1>1
  <2>2. IsFiniteSet(Counts) /\ Cardinality(Counts) = IF 0 > m - 1 THEN 0 ELSE (m - 1) - 0 + 1
    BY <2>1, FS_Interval
  <2> QED
    BY <1>1, <2>2
<1>6. Counts \subseteq Nat /\ \A k \in N : k - 1 \in Counts
  BY <1>1
<1> HIDE DEF m, N, Counts
<1>7. below \in [at -> Counts] /\ \A i, j \in at : i < j => below[i] < below[j]
  BY <1>3, <1>4
<1> HIDE DEF below
<1>8. \A i, j \in at : below[i] = below[j] => i = j
  <2> SUFFICES ASSUME NEW i \in at, NEW j \in at, i < j PROVE below[i] # below[j]
    BY <1>2
  <2>1. below[i] < below[j] /\ below[i] \in Nat /\ below[j] \in Nat
    BY <1>6, <1>7
  <2> QED
    BY <2>1
<1>9. below \in Injection(at, Counts)
  BY <1>7, <1>8 DEF Injection, IsInjective
<1>10. below \in Surjection(at, Counts)
  BY <1>5, <1>9, FS_Injection DEF m
<1> DEFINE p == [k \in N |-> CHOOSE i \in at : below[i] = k - 1]
<1>11. \A k \in N : p[k] \in at /\ below[p[k]] = k - 1
  <2> SUFFICES ASSUME NEW k \in N PROVE p[k] \in at /\ below[p[k]] = k - 1
    OBVIOUS
  <2>1. \E i \in at : below[i] = k - 1
    BY <1>6, <1>10 DEF Surjection
  <2> QED
    BY <2>1
<1>12. p \in [N -> at]
  BY <1>11
<1> HIDE DEF p
<1>13. \A k, l \in N : k < l => p[k] < p[l]
  <2> SUFFICES ASSUME NEW k \in N, NEW l \in N, k < l PROVE p[k] < p[l]
    OBVIOUS
  <2>1. below[p[k]] < below[p[l]] /\ below[p[k]] \in Nat /\ below[p[l]] \in Nat
    <3>1. k \in Int /\ l \in Int
      BY DEF N
    <3> QED
      BY <1>6, <1>7, <1>11, <1>12, <3>1
  <2>2. p[k] \in at /\ p[l] \in at /\ p[k] \in Nat /\ p[l] \in Nat
    BY <1>2, <1>12
  <2>3. ~(p[l] < p[k])
    <3>1. p[l] < p[k] => below[p[l]] < below[p[k]]
      BY <1>7, <2>2
    <3> QED
      BY <2>1, <3>1
  <2>4. p[k] # p[l]
    BY <2>1
  <2> QED
    BY <2>2, <2>3, <2>4
<1>14. Increasing(p, at)
  BY <1>12, <1>13 DEF Increasing, N, m
<1> QED
  BY <1>1, <1>3, <1>4, <1>14 DEF Counts, m

\* Whatever puts positions in order puts the k-th where k - 1 are below it.
LEMMA PlaceByCount ==
    ASSUME NEW at, Places(at), NEW p, Increasing(p, at)
    PROVE  /\ \A k \in 1 .. Cardinality(at) :
                 p[k] \in at /\ Cardinality(Below(at, p[k])) = k - 1
           /\ \A i \in at : \E k \in 1 .. Cardinality(at) : p[k] = i
<1> DEFINE m == Cardinality(at)
           N == 1 .. m
<1>1. /\ IsFiniteSet(at) /\ m \in Nat /\ at \subseteq Nat /\ N \subseteq Nat
      /\ p \in [N -> at] /\ \A k, l \in N : k < l => p[k] < p[l]
  <2>1. IsFiniteSet(at) /\ m \in Nat
    BY PlacesByOrder
  <2> QED
    BY <2>1 DEF Increasing, Places
<1>2. IsFiniteSet(N) /\ Cardinality(N) = m
  <2>1. 1 \in Int /\ m \in Int
    BY <1>1
  <2>2. IsFiniteSet(N) /\ Cardinality(N) = IF 1 > m THEN 0 ELSE m - 1 + 1
    BY <2>1, FS_Interval
  <2> QED
    BY <1>1, <2>2
<1>3. \A k, l \in N : p[k] < p[l] <=> k < l
  <2> SUFFICES ASSUME NEW k \in N, NEW l \in N, p[k] < p[l] PROVE k < l
    BY <1>1
  <2>1. p[k] \in Nat /\ p[l] \in Nat /\ k \in Nat /\ l \in Nat
    BY <1>1
  <2>2. k # l /\ ~(l < k)
    <3>1. l < k => p[l] < p[k]
      BY <1>1
    <3> QED
      BY <2>1, <3>1
  <2> QED
    BY <2>1, <2>2
<1>4. \A k, l \in N : p[k] = p[l] => k = l
  <2> SUFFICES ASSUME NEW k \in N, NEW l \in N, k < l PROVE p[k] # p[l]
    BY <1>1
  <2>1. p[k] < p[l] /\ p[k] \in Nat
    BY <1>1
  <2> QED
    BY <2>1
<1>5. \A i \in at : \E k \in N : p[k] = i
  <2>1. p \in Injection(N, at)
    BY <1>1, <1>4 DEF Injection, IsInjective
  <2>2. p \in Surjection(N, at)
    BY <1>1, <1>2, <2>1, FS_Injection
  <2> QED
    BY <2>2 DEF Surjection
<1>6. ASSUME NEW k \in N
      PROVE  Cardinality(Below(at, p[k])) = k - 1
  <2> DEFINE K == 1 .. k - 1
             q == [j \in K |-> p[j]]
  <2>1. k \in Nat /\ k >= 1 /\ k <= m /\ K \subseteq N /\ \A j \in N : j < k <=> j \in K
    BY <1>1
  <2>2. IsFiniteSet(K) /\ Cardinality(K) = k - 1
    <3>1. 1 \in Int /\ k - 1 \in Int
      BY <2>1
    <3>2. IsFiniteSet(K) /\ Cardinality(K) = IF 1 > k - 1 THEN 0 ELSE (k - 1) - 1 + 1
      BY <3>1, FS_Interval
    <3> QED
      BY <2>1, <3>2
  <2> HIDE DEF K, N
  <2>3. \A i : i \in Below(at, p[k]) <=> \E j \in K : i = p[j]
    <3>1. \A i : i \in Below(at, p[k]) <=> i \in at /\ i < p[k]
      BY DEF Below
    <3>2. \A i : i \in at <=> \E j \in N : i = p[j]
      BY <1>1, <1>5
    <3>3. \A j \in N : p[j] < p[k] <=> j \in K
      BY <1>3, <2>1
    <3> QED
      BY <2>1, <3>1, <3>2, <3>3
  <2>4. q \in Bijection(K, Below(at, p[k]))
    <3>1. q \in [K -> Below(at, p[k])] /\ \A j \in K : q[j] = p[j]
      BY <2>3
    <3>2. \A i, j \in K : q[i] = q[j] => i = j
      BY <1>4, <2>1, <3>1
    <3>3. \A i \in Below(at, p[k]) : \E j \in K : q[j] = i
      BY <2>3, <3>1
    <3> HIDE DEF q
    <3> QED
      BY <3>1, <3>2, <3>3 DEF Bijection, Injection, Surjection, IsInjective
  <2>5. ExistsBijection(K, Below(at, p[k]))
    BY <2>4 DEF ExistsBijection
  <2> QED
    BY <2>2, <2>5, FS_Bijection
<1> QED
  BY <1>1, <1>5, <1>6

\* The rows of a deliberation in a table are found in the order of their places.
Selected(s, d) == Arranged(s, At(s, d), LAMBDA i, j : i < j)

LEMMA SelectedByOrder ==
    ASSUME NEW s \in Seq(Entry), NEW d
    PROVE  /\ Len(s) \in Nat /\ At(s, d) \subseteq 1 .. Len(s) /\ Cardinality(At(s, d)) \in Nat
           /\ Selected(s, d) \in Seq(Entry)
           /\ Len(Selected(s, d)) = Cardinality(At(s, d))
           /\ \E p : /\ Increasing(p, At(s, d))
                     /\ \A k \in 1 .. Cardinality(At(s, d)) : Selected(s, d)[k] = s[p[k]]
<1> DEFINE at == At(s, d)
           N == 1 .. Cardinality(at)
           p == CHOOSE q \in [N -> at] : \A k, l \in N : k < l => q[k] < q[l]
<1>1. Len(s) \in Nat /\ at \subseteq 1 .. Len(s)
  BY DEF At
<1>2. Selected(s, d) = [k \in N |-> s[p[k]]]
  BY Zenon DEF Selected, Arranged
<1> HIDE DEF at
<1>3. Cardinality(at) \in Nat /\ \E q : Increasing(q, at)
  BY <1>1, PlacesByOrder DEF Places
<1>4. Increasing(p, at)
  BY <1>3 DEF Increasing
<1> HIDE DEF p
<1>5. \A k \in N : s[p[k]] \in Entry
  <2>1. \A k \in N : p[k] \in at
    BY <1>4 DEF Increasing
  <2>2. \A i \in 1 .. Len(s) : s[i] \in Entry
    OBVIOUS
  <2> QED
    BY <1>1, <2>1, <2>2
<1>6. Selected(s, d) \in [1 .. Cardinality(at) -> Entry]
  BY <1>2, <1>5
<1>7. Selected(s, d) \in Seq(Entry) /\ Len(Selected(s, d)) = Cardinality(at)
  BY <1>3, <1>6
<1> QED
  BY <1>1, <1>2, <1>3, <1>4, <1>7 DEF at

\* They are the rows of that deliberation, and none is there twice.
LEMMA SelectedRows ==
    ASSUME NEW s \in Seq(Entry), NEW d
    PROVE  /\ In(Selected(s, d)) = {e \in In(s) : e.deliberation = d}
           /\ Distinct(s) => IsInjective(Selected(s, d))
<1> DEFINE at == At(s, d)
           N == 1 .. Cardinality(at)
           t == Selected(s, d)
<1>1. Len(s) \in Nat /\ at \subseteq 1 .. Len(s) /\ DOMAIN t = N /\ DOMAIN s = 1 .. Len(s)
  BY SelectedByOrder
<1>2. PICK p : Increasing(p, at) /\ \A k \in N : t[k] = s[p[k]]
  BY SelectedByOrder
<1>3. \A i : i \in at <=> i \in 1 .. Len(s) /\ s[i].deliberation = d
  BY DEF At
<1> HIDE DEF at, t
<1>4. /\ \A k \in N : p[k] \in at
      /\ \A i \in at : \E k \in N : p[k] = i
  <2>1. Places(at)
    BY <1>1 DEF Places
  <2> QED
    BY <1>2, <2>1, PlaceByCount
<1>5. In(t) = {e \in In(s) : e.deliberation = d}
  <2>1. \A e : e \in In(t) <=> \E k \in N : e = s[p[k]]
    BY <1>1, <1>2 DEF In
  <2>2. \A e : e \in In(s) <=> \E i \in 1 .. Len(s) : e = s[i]
    BY <1>1 DEF In
  <2> HIDE DEF N
  <2>3. \A e : (\E k \in N : e = s[p[k]]) <=> \E i \in at : e = s[i]
    BY <1>4
  <2>4. \A e : (\E i \in at : e = s[i]) <=> e \in In(s) /\ e.deliberation = d
    BY <1>3, <2>2
  <2> QED
    BY <2>1, <2>3, <2>4
<1>6. ASSUME Distinct(s)
      PROVE  IsInjective(t)
  <2>1. \A k, l \in N : t[k] = t[l] => k = l
    <3> SUFFICES ASSUME NEW k \in N, NEW l \in N, k < l PROVE t[k] # t[l]
      BY <1>1
    <3>1. p[k] < p[l] /\ p[k] \in 1 .. Len(s) /\ p[l] \in 1 .. Len(s)
      BY <1>1, <1>2, <1>4 DEF Increasing
    <3>2. p[k] # p[l]
      BY <1>1, <3>1
    <3> QED
      BY <1>2, <1>6, <3>1, <3>2 DEF Distinct
  <2> QED
    BY <1>1, <2>1 DEF IsInjective
<1> QED
  BY <1>5, <1>6 DEF t

\* Rows at the end of the table add to the end of the rows of a deliberation.
LEMMA SelectedGrows ==
    ASSUME NEW s \in Seq(Entry), NEW t \in Seq(Entry), NEW d
    PROVE  IsPrefix(Selected(s, d), Selected(s \o t, d))
<1> DEFINE u == s \o t
           A == At(s, d)
           B == At(u, d)
           M == 1 .. Cardinality(A)
           N == 1 .. Cardinality(B)
<1>1. /\ u \in Seq(Entry) /\ Len(s) \in Nat /\ Len(u) \in Nat
      /\ \A i \in 1 .. Len(s) : u[i] = s[i] /\ i \in 1 .. Len(u)
  OBVIOUS
<1>2. /\ A \subseteq B /\ A \subseteq 1 .. Len(s) /\ B \subseteq 1 .. Len(u)
      /\ \A i \in B : i <= Len(s) => i \in A
  <2>1. \A i : i \in A <=> i \in 1 .. Len(s) /\ s[i].deliberation = d
    BY DEF At
  <2>2. \A i : i \in B <=> i \in 1 .. Len(u) /\ u[i].deliberation = d
    BY DEF At
  <2>3. \A i \in 1 .. Len(u) : i <= Len(s) => i \in 1 .. Len(s)
    BY <1>1
  <2> QED
    BY <1>1, <2>1, <2>2, <2>3
<1> HIDE DEF u
<1>3. /\ Places(A) /\ Places(B)
      /\ Cardinality(A) \in Nat /\ Cardinality(B) \in Nat
      /\ Selected(s, d) \in Seq(Entry) /\ Len(Selected(s, d)) = Cardinality(A)
      /\ Selected(u, d) \in Seq(Entry) /\ Len(Selected(u, d)) = Cardinality(B)
  BY <1>1, <1>2, SelectedByOrder DEF Places
<1>4. PICK p : Increasing(p, A) /\ \A k \in M : Selected(s, d)[k] = s[p[k]]
  BY SelectedByOrder
<1>5. PICK q : Increasing(q, B) /\ \A k \in N : Selected(u, d)[k] = u[q[k]]
  BY <1>1, SelectedByOrder
<1> HIDE DEF A, B
<1>6. Cardinality(A) <= Cardinality(B) /\ M \subseteq N
  <2>1. IsFiniteSet(B)
    BY <1>1, <1>2, <1>3, PlacesByOrder
  <2>2. Cardinality(A) <= Cardinality(B)
    BY <1>2, <2>1, FS_Subset
  <2> QED
    BY <1>3, <2>2
<1>7. \A k \in M : p[k] \in A /\ Cardinality(Below(A, p[k])) = k - 1
  BY <1>3, <1>4, PlaceByCount
<1>8. \A k \in N : q[k] \in B /\ Cardinality(Below(B, q[k])) = k - 1
  BY <1>3, <1>5, PlaceByCount
<1>9. ASSUME NEW i \in A
      PROVE  Below(A, i) = Below(B, i)
  <2>1. i \in Nat /\ i <= Len(s) /\ \A j \in B : j \in Nat
    BY <1>1, <1>2
  <2>2. \A j \in B : j < i => j \in A
    BY <1>1, <1>2, <2>1
  <2> QED
    BY <1>2, <2>2 DEF Below
<1>10. \A i, j \in B : Cardinality(Below(B, i)) = Cardinality(Below(B, j)) => i = j
  <2> SUFFICES ASSUME NEW i \in B, NEW j \in B, i < j
               PROVE  Cardinality(Below(B, i)) # Cardinality(Below(B, j))
    BY <1>1, <1>2
  <2>1. /\ Cardinality(Below(B, i)) < Cardinality(Below(B, j))
        /\ Cardinality(Below(B, i)) \in 0 .. Cardinality(B) - 1
    BY <1>1, <1>2, <1>3, PlacesByOrder
  <2>2. Cardinality(Below(B, i)) \in Nat
    BY <1>3, <2>1
  <2>3. Cardinality(Below(B, j)) \in 0 .. Cardinality(B) - 1
    BY <1>1, <1>2, <1>3, PlacesByOrder
  <2> QED
    BY <1>3, <2>1, <2>2, <2>3
<1>11. \A k \in M : Selected(u, d)[k] = Selected(s, d)[k]
  <2> SUFFICES ASSUME NEW k \in M PROVE Selected(u, d)[k] = Selected(s, d)[k]
    OBVIOUS
  <2>1. p[k] \in A /\ p[k] \in B /\ q[k] \in B /\ k \in N
    BY <1>2, <1>6, <1>7, <1>8
  <2>2. Cardinality(Below(B, p[k])) = Cardinality(Below(B, q[k]))
    BY <1>6, <1>7, <1>8, <1>9, <2>1
  <2>3. p[k] = q[k]
    BY <1>10, <2>1, <2>2
  <2> QED
    BY <1>1, <1>2, <1>4, <1>5, <2>1, <2>3
<1> DEFINE v == Selected(s, d)
           w == Selected(u, d)
<1>12. /\ v \in Seq(Entry) /\ w \in Seq(Entry) /\ Len(v) \in Nat /\ Len(v) <= Len(w)
       /\ \A k \in 1 .. Len(v) : w[k] = v[k]
  BY <1>3, <1>6, <1>11
<1> HIDE DEF v, w
<1>13. IsPrefix(v, w)
  <2>1. /\ SubSeq(v, 1, Len(v)) = [i \in 1 .. Len(v) |-> v[i]]
        /\ SubSeq(w, 1, Len(v)) = [i \in 1 .. Len(v) |-> w[i]]
    BY <1>12
  <2>2. SubSeq(v, 1, Len(v)) = SubSeq(w, 1, Len(v))
    BY <1>12, <2>1
  <2> QED
    BY <1>12, <2>2 DEF IsPrefix
<1> QED
  BY <1>13 DEF u, v, w

\* A step leaves the table as it is or puts entries at its end.
LEMMA TableGrows ==
    ASSUME IInv, [Next]_vars
    PROVE  \E t \in Seq(Entry) : rows' = rows \o t
<1>1. rows \in Seq(Entry) /\ txn \in Seq(Entry) /\ <<>> \in Seq(Entry) /\ rows = rows \o <<>>
  BY ConcatEmptySeq DEF IInv, TypeOK
<1>2. CASE rows' = rows
  BY <1>1, <1>2
<1>3. CASE Return
  BY <1>1, <1>3 DEF Return
<1>4. CASE Insert
  <2> DEFINE e == Head(todo)
  <2>1. e \in Entry
    BY <1>4, InSequences DEF Insert, IInv, TypeOK
  <2>2. rows' = rows \/ rows' = Append(rows, e)
    BY <1>4 DEF Insert, InsertRow, OrIgnore
  <2>3. <<e>> \in Seq(Entry) /\ Append(rows, e) = rows \o <<e>>
    BY <1>1, <2>1, AppendIsConcat
  <2> QED
    BY <1>2, <2>2, <2>3
<1> QED
  BY <1>2, <1>3, <1>4 DEF Next, Call, Again, Raise, Close, Crash, Restart, vars

\* Every step of the store is one its promise allows.
LEMMA StepsAreTakes ==
    ASSUME IInv, IInv', TableInv, TableInv', [Next]_vars
    PROVE  Store!Take
<1> DEFINE log == [d \in Deliberations |-> RowsOf(d)]
<1>1. rows \in Seq(Entry) /\ rows' \in Seq(Entry)
  BY DEF IInv, TypeOK
<1>2. \A d : RowsOf(d) = Selected(rows, d) /\ RowsOf(d)' = Selected(rows', d)
  BY Zenon DEF RowsOf, Selected, Arranged, At
<1>3. \A d \in Deliberations : log[d] = Selected(rows, d) /\ log'[d] = Selected(rows', d)
  BY <1>2
<1>4. PICK t \in Seq(Entry) : rows' = rows \o t
  BY TableGrows
<1>5. \A d \in Deliberations : IsPrefix(log[d], log'[d]) /\ IsInjective(log'[d])
  <2>1. \A d \in Deliberations : IsPrefix(log[d], log'[d])
    BY <1>1, <1>3, <1>4, SelectedGrows
  <2>2. \A d \in Deliberations : IsInjective(log'[d])
    BY <1>1, <1>3, SelectedRows DEF TableInv
  <2> QED
    BY <2>1, <2>2
<1>6. acked \subseteq acked'
  BY DEF Next, Call, Again, Insert, Return, Raise, Close, Crash, Restart, vars
<1>7. acked' \subseteq UNION {In(log'[d]) : d \in Deliberations}
  <2> SUFFICES ASSUME NEW e \in acked' PROVE \E d \in Deliberations : e \in In(log'[d])
    OBVIOUS
  <2>1. e \in In(rows') /\ e \in Entry
    BY <1>1, InSequences DEF TableInv
  <2>2. e.deliberation \in Deliberations
    BY <2>1 DEF Entry
  <2>3. e \in In(Selected(rows', e.deliberation))
    BY <1>1, <2>1, SelectedRows
  <2> QED
    BY <1>3, <2>2, <2>3
<1>8. DOMAIN log' = Deliberations
  OBVIOUS
<1> HIDE DEF log
<1>9. Store!Held(log') = UNION {In(log'[d]) : d \in Deliberations}
  BY DEF Store!Held, In, Store!In
<1>10. \A d \in Deliberations : Store!IsPrefix(log[d], log'[d]) /\ Store!IsInjective(log'[d])
  BY <1>5 DEF IsPrefix, Store!IsPrefix, IsInjective, Store!IsInjective
<1> QED
  BY <1>6, <1>7, <1>8, <1>9, <1>10 DEF Store!Take, log

\* Whatever fails or dies and whatever is repeated, the table is a JournalStore,
\* and nothing breaks it (sqlite.py against store.py:30-41).
THEOREM SqliteImplementsStore == Spec => ImplementsJournalStore
<1>1. Init => Store!Init
  <2> SUFFICES ASSUME Init PROVE Store!Init
    OBVIOUS
  <2>1. ASSUME NEW d
        PROVE  RowsOf(d) = <<>>
    <3>1. rows = <<>> /\ rows \in Seq(Entry) /\ Len(rows) = 0
      BY DEF Init
    <3>2. At(rows, d) = {} /\ Cardinality({}) = 0
      BY <3>1, FS_EmptySet DEF At
    <3>3. Selected(rows, d) \in Seq(Entry) /\ Len(Selected(rows, d)) = 0
      BY <3>1, <3>2, SelectedByOrder
    <3>4. RowsOf(d) = Selected(rows, d)
      BY Zenon DEF RowsOf, Selected, Arranged, At
    <3> QED
      BY <3>3, <3>4
  <2> QED
    BY <2>1 DEF Init, Store!Init
<1>2. IInv /\ IInv' /\ TableInv /\ TableInv' /\ [Next]_vars =>
         [Store!Take \/ Store!Break]_<<[d \in Deliberations |-> RowsOf(d)], acked, FALSE>>
  BY StepsAreTakes
<1> QED
  BY <1>1, <1>2, SqliteInvariance, TableInit, TableNext, PTL
  DEF Spec, ImplementsJournalStore, Store!Spec

\* An entry whose append or append_batch returned is in the table for ever, also
\* after errors, repeated calls, crashes and close, and no entry is in it twice
\* (INSERT OR IGNORE and COMMIT, sqlite.py:62-94).
THEOREM NothingIsForgotten ==
    Spec => [](acked \subseteq In(rows) /\ \A i, j \in 1 .. Len(rows) : i # j => rows[i] # rows[j])
<1>1. TableInv => acked \subseteq In(rows) /\ \A i, j \in 1 .. Len(rows) : i # j => rows[i] # rows[j]
  BY DEF TableInv, Distinct
<1> QED
  BY <1>1, SqliteInvariance, TableInit, TableNext, PTL DEF Spec
=============================================================================
