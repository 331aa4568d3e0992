-------------------------- MODULE JsonlJournalProof --------------------------
(***************************************************************************)
(* Theorems about JsonlJournal, for any deliberations, lengths of batches  *)
(* and number of entries: what writes that stop part-way, crashes and      *)
(* restarts can do to the files.                                           *)
(***************************************************************************)
EXTENDS JsonlJournal, FiniteSetTheorems, TLAPS

USE JournalEntriesAssumption, JsonlJournalAssumption

FileType == [lines : Seq(Text), tail : Text]

\* Entries are numbered from 1, and the call that brings them by the first.
Numbered(m) ==
    /\ IsFiniteSet(m)
    /\ \A e \in m : e.id \in 1 .. Cardinality(m) /\ e.call \in 1 .. Cardinality(m)
    /\ \A e1, e2 \in m : e1.id = e2.id => e1 = e2

\* What is left of the call in progress: its last entries, in their order.
TodoInv ==
    /\ In(todo) \subseteq made
    /\ \A i, j \in DOMAIN todo : i < j => todo[i].id < todo[j].id
    /\ \A i \in DOMAIN todo : todo[i].call = todo[1].call
    /\ todo # <<>> => \A e \in made :
          e.call = todo[1].call => e \in In(todo) \/ e.id < todo[1].id

\* While the store loads: the disk holds every entry of the call before the
\* current one, which a repeated call has written again, and the current one
\* from its write on.
DiskInv ==
    /\ OnDisk \subseteq made
    /\ acked \subseteq OnDisk
    /\ written => Head(todo) \in OnDisk
    /\ todo # <<>> => \A e \in made :
          e.call = todo[1].call /\ e.id < todo[1].id => e \in OnDisk
    /\ \A e1, e2 \in made :
          (e1.call = e2.call /\ e1.id < e2.id /\ e2 \in OnDisk) => e1 \in OnDisk

IInv ==
    /\ TypeOK
    /\ Numbered(made)
    /\ TodoInv
    /\ Loads => DiskInv
-----------------------------------------------------------------------------
(* Sequences of entries, and the calls that bring them. *)

\* What a sequence holds after each operation the store uses.
LEMMA InSequences ==
    ASSUME NEW S, NEW s \in Seq(S)
    PROVE  /\ In(s) \subseteq S
           /\ In(<<>>) = {}
           /\ s # <<>> <=> In(s) # {}
           /\ \A e : In(Append(s, e)) = In(s) \cup {e}
           /\ \A t \in Seq(S) : In(s \o t) = In(s) \cup In(t)
           /\ s # <<>> => /\ Tail(s) \in Seq(S) /\ Head(s) \in S
                          /\ In(s) = {Head(s)} \cup In(Tail(s))
<1>1. In(s) \subseteq S
  BY DEF In
<1>2. In(<<>>) = {}
  BY DEF In
<1>3. s # <<>> <=> In(s) # {}
  <2>1. s # <<>> => 1 \in DOMAIN s
    OBVIOUS
  <2> QED
    BY <1>2, <2>1 DEF In
<1>4. ASSUME NEW e
      PROVE  In(Append(s, e)) = In(s) \cup {e}
  <2>1. DOMAIN Append(s, e) = 1 .. Len(s) + 1 /\ DOMAIN s = 1 .. Len(s)
    OBVIOUS
  <2>2. \A i \in 1 .. Len(s) : Append(s, e)[i] = s[i]
    OBVIOUS
  <2>3. Append(s, e)[Len(s) + 1] = e
    OBVIOUS
  <2>4. Len(s) \in Nat /\ 1 .. Len(s) + 1 = 1 .. Len(s) \cup {Len(s) + 1}
    OBVIOUS
  <2> QED
    BY <2>1, <2>2, <2>3, <2>4 DEF In
<1>5. ASSUME NEW t \in Seq(S)
      PROVE  In(s \o t) = In(s) \cup In(t)
  <2>1. DOMAIN (s \o t) = 1 .. Len(s) + Len(t) /\ DOMAIN s = 1 .. Len(s) /\ DOMAIN t = 1 .. Len(t)
    OBVIOUS
  <2>2. \A i \in 1 .. Len(s) : (s \o t)[i] = s[i] /\ i \in 1 .. Len(s) + Len(t)
    OBVIOUS
  <2>3. \A i \in 1 .. Len(t) : (s \o t)[Len(s) + i] = t[i] /\ Len(s) + i \in 1 .. Len(s) + Len(t)
    OBVIOUS
  <2>4. \A i \in 1 .. Len(s) + Len(t) :
           i \in 1 .. Len(s) \/ \E j \in 1 .. Len(t) : i = Len(s) + j
    <3> SUFFICES ASSUME NEW i \in 1 .. Len(s) + Len(t), i \notin 1 .. Len(s)
                 PROVE  \E j \in 1 .. Len(t) : i = Len(s) + j
      OBVIOUS
    <3> i - Len(s) \in 1 .. Len(t) /\ i = Len(s) + (i - Len(s))
      OBVIOUS
    <3> QED
      OBVIOUS
  <2>5. In(s \o t) \subseteq In(s) \cup In(t)
    <3> SUFFICES ASSUME NEW i \in 1 .. Len(s) + Len(t)
                 PROVE  (s \o t)[i] \in In(s) \cup In(t)
      BY <2>1 DEF In
    <3>1. CASE i \in 1 .. Len(s)
      BY <2>1, <2>2, <3>1 DEF In
    <3>2. ASSUME NEW j \in 1 .. Len(t), i = Len(s) + j
          PROVE  (s \o t)[i] \in In(s) \cup In(t)
      BY <2>1, <2>3, <3>2 DEF In
    <3> QED
      BY <2>4, <3>1, <3>2
  <2>6. In(s) \subseteq In(s \o t)
    BY <2>1, <2>2 DEF In
  <2>7. In(t) \subseteq In(s \o t)
    BY <2>1, <2>3 DEF In
  <2> QED
    BY <2>5, <2>6, <2>7
<1>6. ASSUME s # <<>>
      PROVE  /\ Tail(s) \in Seq(S) /\ Head(s) \in S
             /\ In(s) = {Head(s)} \cup In(Tail(s))
  <2>1. /\ Tail(s) \in Seq(S) /\ Head(s) \in S /\ Head(s) = s[1]
        /\ Len(s) \in Nat /\ Len(s) >= 1
        /\ DOMAIN s = 1 .. Len(s) /\ DOMAIN Tail(s) = 1 .. Len(s) - 1
        /\ \A i \in 1 .. Len(s) - 1 : Tail(s)[i] = s[i + 1]
    BY <1>6
  <2>2. \A i \in 1 .. Len(s) : i = 1 \/ (i - 1 \in 1 .. Len(s) - 1 /\ s[i] = Tail(s)[i - 1])
    BY <2>1
  <2>3. \A i \in 1 .. Len(s) - 1 : i + 1 \in 1 .. Len(s)
    BY <2>1
  <2>4. In(s) \subseteq {Head(s)} \cup In(Tail(s))
    <3> SUFFICES ASSUME NEW i \in 1 .. Len(s)
                 PROVE  s[i] \in {Head(s)} \cup In(Tail(s))
      BY <2>1 DEF In
    <3>1. CASE i = 1
      BY <3>1, <2>1
    <3>2. CASE i # 1
      BY <3>2, <2>1, <2>2 DEF In
    <3> QED
      BY <3>1, <3>2
  <2>5. In(Tail(s)) \subseteq In(s)
    BY <2>1, <2>3 DEF In
  <2>6. Head(s) \in In(s)
    BY <2>1 DEF In
  <2> QED
    BY <2>1, <2>4, <2>5, <2>6
<1> QED
  BY <1>1, <1>2, <1>3, <1>4, <1>5, <1>6

\* A new call continues the numbering, and brings entries that are not those of
\* an earlier call.
LEMMA NewCallsAreNew ==
    ASSUME NEW m, m \subseteq Entry, Numbered(m), NEW es \in NewCalls(m)
    PROVE  /\ es \in Seq(Entry) /\ es # <<>>
           /\ \A i, j \in DOMAIN es : i < j => es[i].id < es[j].id
           /\ \A i \in DOMAIN es : es[i].call = es[1].call
           /\ \A e \in In(es) : e.call = es[1].call
           /\ \A e \in m : e.call # es[1].call
           /\ Numbered(m \cup In(es))
<1> DEFINE first == Cardinality(m) + 1
<1>1. Cardinality(m) \in Nat
  BY FS_CardinalityType DEF Numbered
<1>2. PICK n \in BatchSizes : /\ es \in [1 .. n -> Entry]
                              /\ \A i \in 1 .. n : es[i].id = first + i - 1 /\ es[i].call = first
  BY DEF NewCalls
<1>3. n \in Nat /\ n >= 1
  OBVIOUS
<1>4. es \in Seq(Entry) /\ es # <<>> /\ DOMAIN es = 1 .. n /\ 1 \in 1 .. n
  <2>1. DOMAIN es = 1 .. n /\ 1 \in 1 .. n
    BY <1>2, <1>3
  <2>2. es # <<>>
    BY <2>1
  <2>3. es \in Seq(Entry)
    BY <1>2, <1>3
  <2> QED
    BY <2>1, <2>2, <2>3
<1>9. /\ \A i, j \in DOMAIN es : i < j => es[i].id < es[j].id
      /\ \A i \in DOMAIN es : es[i].call = es[1].call
  <2>1. ASSUME NEW i \in 1 .. n, NEW j \in 1 .. n, i < j
        PROVE  es[i].id < es[j].id
    <3>1. first + i - 1 < first + j - 1
      BY <1>1, <1>3, <2>1
    <3> HIDE DEF first
    <3> QED
      BY <1>2, <3>1
  <2>2. ASSUME NEW i \in 1 .. n
        PROVE  es[i].call = es[1].call
    BY <1>2, <1>4
  <2> QED
    BY <1>4, <2>1, <2>2
<1>5. \A e \in In(es) : e.call = es[1].call
  BY <1>2, <1>4 DEF In
<1>6. \A e \in m : e.call # es[1].call
  BY <1>1, <1>2, <1>4 DEF Numbered
<1>7. IsFiniteSet(In(es)) /\ Cardinality(In(es)) = n
  <2>1. IsFiniteSet(1 .. n) /\ Cardinality(1 .. n) = n
    BY <1>3, FS_Interval
  <2>2. \A i, j \in 1 .. n : es[i] = es[j] => i = j
    <3> TAKE i, j \in 1 .. n
    <3> HAVE es[i] = es[j]
    <3>1. first + i - 1 = first + j - 1
      BY <1>2
    <3> QED
      BY <3>1, <1>1, <1>3
  <2>3. es \in [1 .. n -> In(es)] /\ \A e \in In(es) : \E i \in 1 .. n : es[i] = e
    BY <1>2, <1>4 DEF In
  <2>4. es \in Bijection(1 .. n, In(es))
    BY <2>2, <2>3, <1>4 DEF Bijection, Injection, Surjection, IsInjective
  <2> QED
    BY <2>1, <2>4, FS_Bijection DEF ExistsBijection
<1>8. Numbered(m \cup In(es))
  <2>1. m \cap In(es) = {}
    BY <1>5, <1>6
  <2>2. IsFiniteSet({}) /\ Cardinality({}) = 0
    BY FS_EmptySet
  <2>3. IsFiniteSet(m \cup In(es)) /\ Cardinality(m \cup In(es)) = Cardinality(m) + n
    <3>1. IsFiniteSet(m)
      BY DEF Numbered
    <3>2. /\ IsFiniteSet(m \cup In(es))
          /\ Cardinality(m \cup In(es)) =
                Cardinality(m) + Cardinality(In(es)) - Cardinality(m \cap In(es))
      BY <1>7, <3>1, FS_Union, Zenon
    <3>3. Cardinality(m) + n - 0 = Cardinality(m) + n
      BY <1>1, <1>3
    <3> QED
      BY <1>7, <2>1, <2>2, <3>2, <3>3
  <2>4. \A e \in m : /\ e.id \in 1 .. Cardinality(m)
                     /\ e.id \in 1 .. Cardinality(m) + n
                     /\ e.call \in 1 .. Cardinality(m) + n
    BY <1>1, <1>3 DEF Numbered
  <2>5. \A i \in 1 .. n : /\ es[i].id \in 1 .. Cardinality(m) + n
                          /\ es[i].id \notin 1 .. Cardinality(m)
                          /\ es[i].call \in 1 .. Cardinality(m) + n
    <3> SUFFICES ASSUME NEW i \in 1 .. n
                 PROVE  /\ first + i - 1 \in 1 .. Cardinality(m) + n
                        /\ first + i - 1 \notin 1 .. Cardinality(m)
                        /\ first \in 1 .. Cardinality(m) + n
      BY <1>2
    <3> QED
      BY <1>1, <1>3
  <2>6. \A e \in In(es) : \E i \in 1 .. n : e = es[i]
    BY <1>4 DEF In
  <2>7. ASSUME NEW e1 \in m \cup In(es), NEW e2 \in m \cup In(es), e1.id = e2.id
        PROVE  e1 = e2
    <3>1. CASE e1 \in m /\ e2 \in m
      BY <2>7, <3>1 DEF Numbered
    <3>2. CASE e1 \in In(es) /\ e2 \in In(es)
      <4>1. PICK i, j \in 1 .. n : e1 = es[i] /\ e2 = es[j]
        BY <2>6, <3>2
      <4>2. first + i - 1 = first + j - 1
        BY <1>2, <2>7, <4>1
      <4>3. i = j
        BY <1>1, <1>3, <4>2
      <4> QED
        BY <4>1, <4>3
    <3>3. CASE ~(e1 \in m <=> e2 \in m)
      BY <2>4, <2>5, <2>6, <2>7, <3>3
    <3> QED
      BY <3>1, <3>2, <3>3
  <2>8. \A e \in In(es) : /\ e.id \in 1 .. Cardinality(m) + n
                          /\ e.call \in 1 .. Cardinality(m) + n
    BY <2>5, <2>6
  <2> QED
    BY <2>3, <2>4, <2>7, <2>8 DEF Numbered
<1> QED
  BY <1>4, <1>5, <1>6, <1>8, <1>9
-----------------------------------------------------------------------------
(* One write. *)

\* A file parses, and is whole, by the texts on its lines.
LEMMA ByItsTexts ==
    ASSUME NEW f \in FileType
    PROVE  /\ f.lines \in Seq(Text) /\ Lines(f) \in Seq(Text)
           /\ LinesParse(f) <=> Garbage \notin In(Lines(f))
           /\ Whole(f) <=> f.tail = Empty /\ In(f.lines) \subseteq Entry
<1>1. f.lines \in Seq(Text) /\ f.tail \in Text
  BY DEF FileType
<1>2. Lines(f) \in Seq(Text)
  BY <1>1 DEF Lines
<1>3. LinesParse(f) <=> Garbage \notin In(Lines(f))
  <2>1. DOMAIN Lines(f) = 1 .. Len(Lines(f))
    BY <1>2
  <2> QED
    BY <2>1 DEF LinesParse, In
<1>4. Whole(f) <=> f.tail = Empty /\ In(f.lines) \subseteq Entry
  <2>1. DOMAIN f.lines = 1 .. Len(f.lines)
    BY <1>1
  <2> QED
    BY <2>1 DEF Whole, In
<1> QED
  BY <1>1, <1>2, <1>3, <1>4

\* A file that is whole holds entries.
LEMMA WholeLines ==
    ASSUME NEW f \in FileType, Whole(f)
    PROVE  f.lines \in Seq(Entry)
<1>1. f.lines \in Seq(Text) /\ \A i \in 1 .. Len(f.lines) : f.lines[i] \in Entry
  BY DEF FileType, Whole
<1> QED
  BY <1>1

\* A write that completes: its line, if it can be read, is the entry.
LEMMA AppendedFiles ==
    ASSUME NEW f \in FileType, NEW e \in Entry
    PROVE  /\ Appended(f, e) \in FileType
           /\ LinesParse(Appended(f, e)) =>
                 LinesParse(f) /\ Lines(Appended(f, e)) = Append(Lines(f), e)
           /\ Whole(Appended(f, e)) => Whole(f) /\ Appended(f, e).lines = Append(f.lines, e)
<1> DEFINE g == Appended(f, e)
<1>1. /\ f.lines \in Seq(Text) /\ f.tail \in Text /\ Join(f.tail, e) \in Text
      /\ Garbage \notin Entry /\ Empty \in Text
  BY DEF FileType, Join, Text
<1>2. /\ g.lines = Append(f.lines, Join(f.tail, e)) /\ g.tail = Empty
      /\ Lines(g) = g.lines /\ g \in FileType
  BY <1>1 DEF Appended, Lines, FileType
<1>3. In(g.lines) = In(f.lines) \cup {Join(f.tail, e)}
  BY <1>1, <1>2, InSequences
<1>4. CASE f.tail = Empty
  <2>1. Join(f.tail, e) = e /\ Lines(f) = f.lines
    BY <1>4 DEF Join, Lines
  <2> QED
    BY <1>2, <1>3, <1>4, <2>1, ByItsTexts
<1>5. CASE f.tail # Empty
  <2>1. Garbage \in In(g.lines)
    BY <1>3, <1>5 DEF Join
  <2> QED
    BY <1>1, <1>2, <2>1, ByItsTexts
<1> QED
  BY <1>4, <1>5

\* A write that stops part-way: if its file can still be read, it has the entry
\* without its newline, or nothing of it.
LEMMA PartlyFiles ==
    ASSUME NEW f \in FileType, NEW e \in Entry, NEW g \in Partly(f, e)
    PROVE  /\ g \in FileType
           /\ LinesParse(g) =>
                 LinesParse(f) /\ (Lines(g) = Lines(f) \/ Lines(g) = Append(Lines(f), e))
           /\ Whole(g) => g = f
<1>1. /\ f.lines \in Seq(Text) /\ f.tail \in Text /\ Join(f.tail, e) \in {e, Garbage}
      /\ Garbage \in Text /\ e \in Text /\ Garbage # Empty /\ e # Empty
  BY DEF FileType, Join, Text
<1>2. CASE g = f
  BY <1>2
<1>3. CASE g = Torn(f)
  <2>1. /\ g \in FileType /\ g.tail = Garbage
        /\ Lines(g) = Append(f.lines, Garbage)
    BY <1>1, <1>3 DEF Torn, FileType, Lines
  <2>2. Garbage \in In(Lines(g))
    BY <1>1, <2>1, InSequences
  <2> QED
    BY <1>1, <2>1, <2>2, ByItsTexts
<1>4. CASE g = Unterminated(f, e)
  <2>1. /\ g \in FileType /\ g.tail = Join(f.tail, e)
        /\ Lines(g) = Append(f.lines, Join(f.tail, e))
    BY <1>1, <1>4 DEF Unterminated, FileType, Lines
  <2>2. In(Lines(g)) = In(f.lines) \cup {Join(f.tail, e)}
    BY <1>1, <2>1, InSequences
  <2>3. ~Whole(g)
    BY <1>1, <2>1 DEF Whole
  <2>4. CASE f.tail = Empty
    <3>1. Join(f.tail, e) = e /\ Lines(f) = f.lines
      BY <2>4 DEF Join, Lines
    <3> QED
      BY <2>1, <2>2, <2>3, <3>1, ByItsTexts
  <2>5. CASE f.tail # Empty
    <3>1. Garbage \in In(Lines(g))
      BY <2>2, <2>5 DEF Join
    <3> QED
      BY <2>1, <2>3, <3>1, ByItsTexts
  <2> QED
    BY <2>4, <2>5
<1> QED
  BY <1>2, <1>3, <1>4 DEF Partly

-----------------------------------------------------------------------------
(* The invariant. *)

\* The entry a call is about to write, and its file.
LEMMA HeadOfCall ==
    ASSUME IInv, todo # <<>>
    PROVE  /\ Head(todo) \in Entry /\ Head(todo) = todo[1] /\ 1 \in DOMAIN todo
           /\ Head(todo).deliberation \in Deliberations
           /\ Head(todo) \in made
           /\ File(Head(todo)) \in FileType
<1>1. todo \in Seq(Entry) /\ files \in [Deliberations -> FileType]
  BY DEF IInv, TypeOK, FileType
<1>2. Head(todo) \in Entry /\ Head(todo) = todo[1] /\ 1 \in DOMAIN todo
  BY <1>1
<1>3. Head(todo).deliberation \in Deliberations
  BY <1>2 DEF Entry
<1>4. Head(todo) \in made
  BY <1>2 DEF IInv, TodoInv, In
<1> QED
  BY <1>1, <1>2, <1>3, <1>4 DEF File

\* Whatever a write leaves, if the store loads afterwards.
LEMMA DiskStep ==
    ASSUME IInv, todo # <<>>, ~written, Loads',
           NEW g \in Partly(File(Head(todo)), Head(todo)) \cup {Appended(File(Head(todo)), Head(todo))},
           files' = [files EXCEPT ![Head(todo).deliberation] = g]
    PROVE  /\ Loads
           /\ OnDisk' = OnDisk \/ OnDisk' = OnDisk \cup {Head(todo)}
           /\ g = Appended(File(Head(todo)), Head(todo)) => Head(todo) \in OnDisk'
           /\ \A e1, e2 \in made :
                 (e1.call = e2.call /\ e1.id < e2.id /\ e2 \in OnDisk') => e1 \in OnDisk'
<1> DEFINE e == Head(todo)
           d0 == e.deliberation
           f == files[d0]
<1>1. /\ e \in Entry /\ d0 \in Deliberations /\ f \in FileType /\ f = File(e)
      /\ e \in made /\ e = todo[1]
  BY HeadOfCall DEF File
<1>2. /\ files'[d0] = g
      /\ \A d \in Deliberations \ {d0} : files'[d] = files[d]
  BY <1>1 DEF IInv, TypeOK
<1>3. \A d \in Deliberations : LinesParse(files'[d])
  BY DEF Loads
<1>4. /\ LinesParse(f)
      /\ Lines(g) = Lines(f) \/ Lines(g) = Append(Lines(f), e)
      /\ g = Appended(f, e) => Lines(g) = Append(Lines(f), e)
  BY <1>1, <1>2, <1>3, AppendedFiles, PartlyFiles
<1>5. Loads
  BY <1>2, <1>3, <1>4 DEF Loads
<1>6. Lines(f) \in Seq(Text)
  BY <1>1, ByItsTexts
<1>7. In(Append(Lines(f), e)) = In(Lines(f)) \cup {e}
  BY <1>6, InSequences
<1>8. OnDisk' = UNION {In(Lines(files'[d])) : d \in Deliberations}
  BY DEF OnDisk
<1>9. CASE Lines(g) = Lines(f)
  <2>1. \A d \in Deliberations : Lines(files'[d]) = Lines(files[d])
    BY <1>2, <1>9
  <2>2. OnDisk' = OnDisk
    BY <1>8, <2>1 DEF OnDisk
  <2>3. g = Appended(f, e) => e \in OnDisk
    <3>1. g = Appended(f, e) => e \in In(Lines(f))
      BY <1>4, <1>7, <1>9
    <3> QED
      BY <1>1, <3>1 DEF OnDisk
  <2> QED
    BY <1>1, <1>5, <2>2, <2>3 DEF IInv, DiskInv
<1>10. CASE Lines(g) = Append(Lines(f), e)
  <2>1. In(Lines(files'[d0])) = In(Lines(f)) \cup {e}
    BY <1>2, <1>7, <1>10
  <2>2. OnDisk' = OnDisk \cup {e}
    BY <1>1, <1>2, <1>8, <2>1 DEF OnDisk
  <2>3. ASSUME NEW e1 \in made, NEW e2 \in made, e1.call = e2.call, e1.id < e2.id, e2 \in OnDisk'
        PROVE  e1 \in OnDisk'
    <3>1. CASE e2 = e
      BY <1>1, <1>5, <2>2, <2>3, <3>1 DEF IInv, DiskInv
    <3>2. CASE e2 \in OnDisk
      BY <1>5, <2>2, <2>3, <3>2 DEF IInv, DiskInv
    <3> QED
      BY <2>2, <2>3, <3>1, <3>2
  <2> QED
    BY <1>5, <2>2, <2>3
<1> QED
  BY <1>4, <1>9, <1>10

\* The disk is as it was, and so is what was acknowledged.
LEMMA SameDisk ==
    ASSUME UNCHANGED files
    PROVE  OnDisk' = OnDisk /\ (Loads' <=> Loads)
BY DEF OnDisk, Loads

\* Nothing in a sequence that is in the order of making was made before its first.
LEMMA NoneBefore ==
    ASSUME NEW es \in Seq(Entry), es # <<>>,
           \A i, j \in DOMAIN es : i < j => es[i].id < es[j].id
    PROVE  \A e \in In(es) : ~(e.id < es[1].id)
<1> SUFFICES ASSUME NEW i \in DOMAIN es, es[i].id < es[1].id PROVE FALSE
  BY DEF In
<1>1. i \in Nat /\ i >= 1 /\ 1 \in DOMAIN es /\ es[1] \in Entry /\ es[i] \in Entry
  OBVIOUS
<1>2. es[1].id \in Nat /\ es[i].id \in Nat
  BY <1>1 DEF Entry
<1>3. CASE i = 1
  BY <1>2, <1>3
<1>4. CASE 1 < i
  <2>1. es[1].id < es[i].id
    BY <1>1, <1>4
  <2> QED
    BY <1>2, <2>1
<1> QED
  BY <1>1, <1>3, <1>4

LEMMA InitInv == Init => IInv
<1> SUFFICES ASSUME Init PROVE IInv
  OBVIOUS
<1>1. In(<<>>) = {} /\ <<>> \in Seq(Entry) /\ <<>> \in Seq(Text)
  BY DEF In
<1>2. Numbered({})
  BY FS_EmptySet DEF Numbered
<1>3. \A d \in Deliberations : Lines(files[d]) = <<>>
  BY DEF Init, NoFile, Lines
<1>4. OnDisk = {}
  BY <1>1, <1>3 DEF OnDisk
<1>5. TypeOK
  BY <1>1 DEF Init, TypeOK, NoFile, Text
<1> QED
  BY <1>1, <1>2, <1>4, <1>5 DEF Init, IInv, TodoInv, DiskInv

LEMMA CallStep == IInv /\ Call => IInv'
<1> SUFFICES ASSUME IInv, Call PROVE IInv'
  OBVIOUS
<1>1. /\ todo' \in Seq(Entry) /\ todo' # <<>>
      /\ \A i, j \in DOMAIN todo' : i < j => todo'[i].id < todo'[j].id
      /\ \A i \in DOMAIN todo' : todo'[i].call = todo'[1].call
      /\ \A e \in In(todo') : e.call = todo'[1].call
      /\ \A e \in made : e.call # todo'[1].call
      /\ Numbered(made')
  BY NewCallsAreNew DEF Call, IInv, TypeOK
<1>2. In(todo') \subseteq Entry /\ made' = made \cup In(todo')
  BY <1>1, InSequences DEF Call
<1>3. written = FALSE /\ written' = FALSE /\ UNCHANGED <<phase, files, index, acked, astray>>
  BY DEF Call, Quiet, IInv, TypeOK
<1>4. TypeOK'
  BY <1>1, <1>2, <1>3 DEF IInv, TypeOK
<1>5. TodoInv'
  BY <1>1, <1>2 DEF TodoInv
<1>6. ASSUME Loads' PROVE DiskInv'
  <2>1. OnDisk' = OnDisk /\ Loads /\ OnDisk \subseteq made /\ acked \subseteq OnDisk
    BY <1>3, <1>6, SameDisk DEF IInv, DiskInv
  <2>2. \A e \in made' : e.call = todo'[1].call /\ e.id < todo'[1].id => e \in OnDisk'
    BY <1>1, <1>2, NoneBefore
  <2>3. \A e1, e2 \in made' :
           (e1.call = e2.call /\ e1.id < e2.id /\ e2 \in OnDisk') => e1 \in OnDisk'
    BY <1>1, <1>2, <2>1 DEF IInv, DiskInv
  <2> QED
    BY <1>2, <1>3, <2>1, <2>2, <2>3 DEF DiskInv
<1> QED
  BY <1>1, <1>4, <1>5, <1>6 DEF IInv

LEMMA AgainStep == IInv /\ Again => IInv'
<1> SUFFICES ASSUME IInv, Again PROVE IInv'
  OBVIOUS
<1>1. /\ written = FALSE /\ written' = FALSE
      /\ UNCHANGED <<phase, files, index, made, acked, astray>>
  BY DEF Again, Quiet, IInv, TypeOK
<1>2. PICK n \in BatchSizes : todo' \in [1 .. n -> made]
  BY DEF Again, PastCalls
<1>3. /\ In(todo') = {e \in made : e.call = todo'[1].call}
      /\ \A i, j \in DOMAIN todo' : i < j => todo'[i].id < todo'[j].id
  BY DEF Again, PastCalls
<1>4. /\ DOMAIN todo' = 1 .. n /\ n \in Nat /\ n >= 1
      /\ \A i \in DOMAIN todo' : todo'[i] \in In(todo')
  BY <1>2 DEF In
<1>5. todo' \in Seq(Entry) /\ todo' # <<>>
  <2>1. made \subseteq Entry
    BY DEF IInv, TypeOK
  <2> QED
    BY <1>2, <1>4, <2>1
<1>6. TypeOK'
  BY <1>1, <1>5 DEF IInv, TypeOK
<1>7. \A i \in DOMAIN todo' : todo'[i].call = todo'[1].call
  BY <1>3, <1>4
<1>8. TodoInv'
  BY <1>1, <1>3, <1>7 DEF TodoInv
<1>9. ASSUME Loads' PROVE DiskInv'
  <2>1. OnDisk' = OnDisk /\ Loads
    BY <1>1, <1>9, SameDisk
  <2>2. \A e \in made : e.call = todo'[1].call /\ e.id < todo'[1].id => e \in OnDisk'
    BY <1>3, <1>5, NoneBefore
  <2> QED
    BY <1>1, <2>1, <2>2 DEF IInv, DiskInv
<1> QED
  BY <1>1, <1>6, <1>8, <1>9 DEF IInv

\* A file that is written keeps its type.
LEMMA FilesType ==
    ASSUME IInv, todo # <<>>,
           NEW g \in Partly(File(Head(todo)), Head(todo)) \cup {Appended(File(Head(todo)), Head(todo))},
           files' = [files EXCEPT ![Head(todo).deliberation] = g]
    PROVE  files' \in [Deliberations -> [lines : Seq(Text), tail : Text]]
<1>1. g \in FileType
  BY HeadOfCall, AppendedFiles, PartlyFiles
<1> QED
  BY <1>1 DEF FileType, IInv, TypeOK

LEMMA WriteStep == IInv /\ Write => IInv'
<1> SUFFICES ASSUME IInv, Write PROVE IInv'
  OBVIOUS
<1> DEFINE e == Head(todo)
           g == Appended(File(e), e)
<1>1. todo # <<>> /\ ~written /\ files' = [files EXCEPT ![e.deliberation] = g]
  BY DEF Write
<1>2. TypeOK' /\ TodoInv' /\ Numbered(made)'
  BY <1>1, FilesType DEF Write, IInv, TypeOK, TodoInv
<1>3. ASSUME Loads' PROVE DiskInv'
  <2>1. /\ Loads
        /\ OnDisk' = OnDisk \/ OnDisk' = OnDisk \cup {e}
        /\ e \in OnDisk'
        /\ \A e1, e2 \in made :
              (e1.call = e2.call /\ e1.id < e2.id /\ e2 \in OnDisk') => e1 \in OnDisk'
    BY <1>1, <1>3, DiskStep
  <2>2. e \in made /\ e = todo[1] /\ e \in Entry
    BY <1>1, HeadOfCall
  <2> QED
    BY <1>1, <2>1, <2>2 DEF Write, IInv, DiskInv
<1> QED
  BY <1>2, <1>3 DEF IInv

LEMMA IndexStep == IInv /\ Index => IInv'
<1> SUFFICES ASSUME IInv, Index PROVE IInv'
  OBVIOUS
<1> DEFINE e == Head(todo)
<1>1. /\ todo \in Seq(Entry) /\ todo # <<>> /\ written
      /\ todo' = Tail(todo) /\ written' = FALSE /\ acked' = acked \cup {e}
      /\ UNCHANGED <<phase, files, made, astray>>
  BY DEF Index, Proceed, IInv, TypeOK
<1>2. /\ Len(todo) \in Nat /\ todo' \in Seq(Entry)
      /\ DOMAIN todo = 1 .. Len(todo) /\ DOMAIN todo' = 1 .. Len(todo) - 1
      /\ \A i \in 1 .. Len(todo) - 1 : todo'[i] = todo[i + 1] /\ i + 1 \in 1 .. Len(todo)
      /\ In(todo) = {e} \cup In(todo')
  <2>1. In(todo) = {e} \cup In(todo')
    BY <1>1, InSequences
  <2> QED
    BY <1>1, <2>1
<1>3. e \in made /\ e = todo[1] /\ e \in Entry /\ 1 \in DOMAIN todo /\ e.id \in Nat
  BY <1>1, HeadOfCall DEF Entry
<1>4. DOMAIN index' = Deliberations
  BY DEF Index, IInv, TypeOK
<1>5. TypeOK'
  BY <1>1, <1>2, <1>3, <1>4 DEF IInv, TypeOK
<1>6. \A i \in DOMAIN todo' : e.id < todo'[i].id /\ todo'[i].call = e.call
  <2> TAKE i \in DOMAIN todo'
  <2>1. i + 1 \in DOMAIN todo /\ todo'[i] = todo[i + 1] /\ 1 < i + 1
    BY <1>2
  <2> QED
    BY <1>3, <2>1 DEF IInv, TodoInv
<1>7. TodoInv'
  <2>1. \A i, j \in DOMAIN todo' : i < j => todo'[i].id < todo'[j].id
    <3> SUFFICES ASSUME NEW i \in DOMAIN todo', NEW j \in DOMAIN todo', i < j
                 PROVE  todo'[i].id < todo'[j].id
      OBVIOUS
    <3>1. /\ i + 1 \in DOMAIN todo /\ todo'[i] = todo[i + 1]
          /\ j + 1 \in DOMAIN todo /\ todo'[j] = todo[j + 1]
          /\ i + 1 < j + 1
      BY <1>2
    <3> QED
      BY <3>1 DEF IInv, TodoInv
  <2>2. \A i \in DOMAIN todo' : todo'[i].call = todo'[1].call
    <3> TAKE i \in DOMAIN todo'
    <3>1. 1 \in DOMAIN todo'
      BY <1>2
    <3> QED
      BY <1>6, <3>1
  <2>3. ASSUME todo' # <<>>, NEW x \in made, x.call = todo'[1].call, x \notin In(todo')
        PROVE  x.id < todo'[1].id
    <3>1. 1 \in DOMAIN todo'
      BY <1>2, <2>3
    <3>2. todo'[1].call = e.call /\ e.id < todo'[1].id /\ todo'[1] \in Entry
      BY <1>2, <1>6, <3>1
    <3>3. x = e \/ x.id < e.id
      BY <1>1, <1>2, <1>3, <2>3, <3>2 DEF IInv, TodoInv
    <3>4. x.id \in Nat /\ todo'[1].id \in Nat
      BY <3>2 DEF IInv, TypeOK, Entry
    <3> QED
      BY <1>3, <3>2, <3>3, <3>4
  <2> QED
    BY <1>1, <1>2, <2>1, <2>2, <2>3 DEF IInv, TodoInv
<1>8. ASSUME Loads' PROVE DiskInv'
  <2>1. OnDisk' = OnDisk /\ Loads /\ DiskInv
    BY <1>1, <1>8, SameDisk DEF IInv
  <2>2. e \in OnDisk
    BY <1>1, <2>1 DEF DiskInv
  <2>3. ASSUME todo' # <<>>, NEW x \in made, x.call = todo'[1].call, x.id < todo'[1].id
        PROVE  x \in OnDisk
    <3>1. 1 \in DOMAIN todo'
      BY <1>2, <2>3
    <3>2. x.call = e.call
      BY <1>6, <2>3, <3>1
    <3>3. x \notin In(todo')
      BY <1>2, <1>7, <2>3, NoneBefore DEF TodoInv
    <3>4. x = e \/ x.id < e.id
      BY <1>1, <1>2, <1>3, <2>3, <3>2, <3>3 DEF IInv, TodoInv
    <3> QED
      BY <1>1, <1>3, <2>1, <2>2, <3>2, <3>4 DEF DiskInv
  <2> QED
    BY <1>1, <2>1, <2>2, <2>3 DEF DiskInv
<1> QED
  BY <1>1, <1>5, <1>7, <1>8 DEF IInv

\* A call that raises or dies leaves what it had left to nobody.
LEMMA WriteRaisesStep == IInv /\ WriteRaises => IInv'
<1> SUFFICES ASSUME IInv, WriteRaises PROVE IInv'
  OBVIOUS
<1>1. /\ todo # <<>> /\ ~written /\ todo' = <<>>
      /\ UNCHANGED <<phase, index, written, made, acked>>
  BY DEF WriteRaises, Raise
<1>2. PICK g \in Partly(File(Head(todo)), Head(todo)) \cup {Appended(File(Head(todo)), Head(todo))} :
         files' = [files EXCEPT ![Head(todo).deliberation] = g]
  BY DEF WriteRaises, WriteStops
<1>3. In(todo') = {} /\ todo' \in Seq(Entry) /\ DOMAIN todo' = {}
  BY <1>1 DEF In
<1>6. astray' \subseteq Deliberations
  BY DEF WriteRaises, IInv, TypeOK
<1>4. TypeOK' /\ TodoInv' /\ Numbered(made)'
  BY <1>1, <1>2, <1>3, <1>6, FilesType DEF IInv, TypeOK, TodoInv
<1>5. ASSUME Loads' PROVE DiskInv'
  <2>1. /\ Loads
        /\ OnDisk' = OnDisk \/ OnDisk' = OnDisk \cup {Head(todo)}
        /\ \A e1, e2 \in made :
              (e1.call = e2.call /\ e1.id < e2.id /\ e2 \in OnDisk') => e1 \in OnDisk'
    BY <1>1, <1>2, <1>5, DiskStep
  <2>2. Head(todo) \in made
    BY <1>1, HeadOfCall
  <2> QED
    BY <1>1, <1>3, <2>1, <2>2 DEF IInv, DiskInv
<1> QED
  BY <1>4, <1>5 DEF IInv

LEMMA CrashStep == IInv /\ Crash => IInv'
<1> SUFFICES ASSUME IInv, Crash PROVE IInv'
  OBVIOUS
<1>1. /\ todo' = <<>> /\ written' = FALSE /\ phase' = "down"
      /\ DOMAIN index' = Deliberations /\ astray' = {}
      /\ UNCHANGED <<made, acked>>
  BY DEF Crash
<1>2. In(todo') = {} /\ todo' \in Seq(Entry) /\ DOMAIN todo' = {}
  BY <1>1 DEF In
<1>3. CASE todo # <<>> /\ ~written
  <2>1. PICK g \in Partly(File(Head(todo)), Head(todo)) \cup {Appended(File(Head(todo)), Head(todo))} :
           files' = [files EXCEPT ![Head(todo).deliberation] = g]
    BY <1>3 DEF Crash, WriteStops
  <2>2. TypeOK' /\ TodoInv' /\ Numbered(made)'
    BY <1>1, <1>2, <1>3, <2>1, FilesType DEF IInv, TypeOK, TodoInv
  <2>3. ASSUME Loads' PROVE DiskInv'
    <3>1. /\ Loads
          /\ (OnDisk' = OnDisk \/ OnDisk' = OnDisk \cup {Head(todo)})
          /\ \A e1, e2 \in made :
                (e1.call = e2.call /\ e1.id < e2.id /\ e2 \in OnDisk') => e1 \in OnDisk'
      BY <1>3, <2>1, <2>3, DiskStep
    <3>2. Head(todo) \in made
      BY <1>3, HeadOfCall
    <3> QED
      BY <1>1, <1>2, <3>1, <3>2 DEF IInv, DiskInv
  <2> QED
    BY <2>2, <2>3 DEF IInv
<1>4. CASE ~(todo # <<>> /\ ~written)
  <2>1. UNCHANGED files
    BY <1>4 DEF Crash
  <2>2. TypeOK' /\ TodoInv' /\ Numbered(made)'
    BY <1>1, <1>2, <2>1 DEF IInv, TypeOK, TodoInv
  <2>3. ASSUME Loads' PROVE DiskInv'
    BY <1>1, <1>2, <2>1, <2>3, SameDisk DEF IInv, DiskInv
  <2> QED
    BY <2>2, <2>3 DEF IInv
<1> QED
  BY <1>3, <1>4

THEOREM JsonlInvariance == Spec => []IInv
<1>1. IInv /\ [Next]_vars => IInv'
  <2> SUFFICES ASSUME IInv, [Next]_vars PROVE IInv'
    OBVIOUS
  <2>1. CASE Restart
    <3>1. UNCHANGED <<files, todo, written, made, acked, astray>>
      BY <2>1 DEF Restart, call
    <3>2. TypeOK'
      BY <2>1, <3>1 DEF Restart, IInv, TypeOK
    <3>3. TodoInv' /\ Numbered(made)'
      BY <3>1 DEF IInv, TodoInv
    <3>4. Loads' => DiskInv'
      BY <3>1, SameDisk DEF IInv, DiskInv
    <3> QED
      BY <3>2, <3>3, <3>4 DEF IInv
  <2>2. CASE UNCHANGED vars
    <3>1. UNCHANGED <<phase, files, index, todo, written, made, acked, astray>>
      BY <2>2 DEF vars, call
    <3>2. TypeOK' /\ TodoInv' /\ Numbered(made)'
      BY <3>1 DEF IInv, TypeOK, TodoInv
    <3>3. Loads' => DiskInv'
      BY <3>1, SameDisk DEF IInv, DiskInv
    <3> QED
      BY <3>2, <3>3 DEF IInv
  <2> QED
    BY <2>1, <2>2, CallStep, AgainStep, WriteStep, IndexStep, WriteRaisesStep, CrashStep DEF Next
<1> QED
  BY InitInv, <1>1, PTL DEF Spec

\* An acknowledged entry is on disk as long as the store loads, whatever was
\* written in part, and however often the process died (jsonl.py:50-55 against
\* jsonl.py:141-152).
THEOREM LossesAreLoud == Spec => []LossIsLoud
<1>1. IInv => LossIsLoud
  BY DEF IInv, DiskInv, LossIsLoud
<1> QED
  BY JsonlInvariance, <1>1, PTL

\* However long a batch, and however often it is tried again, what is on disk
\* of it is its first entries (append_batch, jsonl.py:45-48).
THEOREM BatchesArePrefixes == Spec => []BatchIsPrefix
<1>1. IInv => BatchIsPrefix
  BY DEF IInv, DiskInv, BatchIsPrefix
<1> QED
  BY JsonlInvariance, <1>1, PTL
-----------------------------------------------------------------------------
(* The refinement. *)

\* A sequence is a prefix of itself and of what is appended to it.
LEMMA AppendedPrefixes ==
    ASSUME NEW s \in Seq(Text), NEW e \in Text
    PROVE  IsPrefix(s, s) /\ IsPrefix(s, Append(s, e))
<1>1. IsPrefix(s, s)
  BY DEF IsPrefix
<1>2. IsPrefix(s, Append(s, e))
  <2> DEFINE t == Append(s, e)
  <2>1. t \in Seq(Text) /\ Len(t) = Len(s) + 1 /\ Len(s) \in Nat
        /\ \A i \in 1 .. Len(s) : t[i] = s[i]
    OBVIOUS
  <2>2. /\ SubSeq(s, 1, Len(s)) = [i \in 1 .. Len(s) |-> s[i]]
        /\ SubSeq(t, 1, Len(s)) = [i \in 1 .. Len(s) |-> t[i]]
    BY <2>1
  <2>3. SubSeq(s, 1, Len(s)) = SubSeq(t, 1, Len(s))
    BY <2>1, <2>2
  <2> QED
    BY <2>1, <2>3 DEF IsPrefix
<1> QED
  BY <1>1, <1>2

\* A step leaves every file whole that it finds whole, and adds to its end, or
\* breaks one for good.
LEMMA WholeFilesGrow ==
    ASSUME IInv, [Next]_vars, NEW d \in Deliberations, Whole(files'[d])
    PROVE  Whole(files[d]) /\ IsPrefix(files[d].lines, files'[d].lines)
<1> DEFINE e == Head(todo)
<1>1. files \in [Deliberations -> FileType] /\ files[d] \in FileType /\ files[d].lines \in Seq(Text)
  BY DEF IInv, TypeOK, FileType
<1>2. CASE files' = files
  <2>1. Empty \in Text
    BY DEF Text
  <2> QED
    BY <1>1, <1>2, <2>1, AppendedPrefixes
<1>3. ASSUME todo # <<>>, NEW g \in Partly(File(e), e) \cup {Appended(File(e), e)},
             files' = [files EXCEPT ![e.deliberation] = g]
      PROVE  Whole(files[d]) /\ IsPrefix(files[d].lines, files'[d].lines)
  <2>1. e \in Entry /\ e \in Text /\ File(e) \in FileType
    BY <1>3, HeadOfCall DEF Text
  <2>2. CASE e.deliberation = d
    <3>1. files'[d] = g /\ File(e) = files[d]
      BY <1>1, <1>3, <2>2 DEF File
    <3>2. CASE g = Appended(files[d], e)
      <4>1. Whole(files[d]) /\ g.lines = Append(files[d].lines, e)
        BY <1>1, <2>1, <3>1, <3>2, AppendedFiles
      <4> QED
        BY <1>1, <2>1, <3>1, <4>1, AppendedPrefixes
    <3>3. CASE g \in Partly(files[d], e)
      <4>1. g = files[d]
        BY <1>1, <2>1, <3>1, <3>3, PartlyFiles
      <4> QED
        BY <1>1, <2>1, <3>1, <4>1, AppendedPrefixes
    <3> QED
      BY <1>3, <3>1, <3>2, <3>3
  <2>3. CASE e.deliberation # d
    BY <1>1, <1>3, <2>1, <2>3, AppendedPrefixes
  <2> QED
    BY <2>2, <2>3
<1>4. CASE Write
  BY <1>3, <1>4 DEF Write
<1>5. CASE WriteRaises
  BY <1>3, <1>5 DEF WriteRaises, WriteStops
<1>6. CASE Crash
  BY <1>2, <1>3, <1>6 DEF Crash, WriteStops
<1>7. CASE Call \/ Again \/ Index \/ Restart \/ UNCHANGED vars
  BY <1>2, <1>7 DEF Call, Again, Index, Restart, vars
<1> QED
  BY <1>4, <1>5, <1>6, <1>7 DEF Next

Broken == \E d \in Deliberations : ~Whole(files[d])

\* A step that breaks no file is one a store may take.
LEMMA StepsAreTakes ==
    ASSUME IInv, IInv', [Next]_vars, ~Broken'
    PROVE  Store!Take
<1> DEFINE log == [d \in Deliberations |-> files[d].lines]
<1>1. \A d \in Deliberations : Whole(files'[d])
  BY DEF Broken
<1>2. \A d \in Deliberations : Whole(files[d]) /\ IsPrefix(files[d].lines, files'[d].lines)
  BY <1>1, WholeFilesGrow
<1>3. files' \in [Deliberations -> FileType]
  BY DEF IInv, TypeOK, FileType
<1>4. \A d \in Deliberations : Lines(files'[d]) = files'[d].lines /\ LinesParse(files'[d])
  <2> TAKE d \in Deliberations
  <2>1. /\ files'[d].tail = Empty /\ In(files'[d].lines) \subseteq Entry
        /\ LinesParse(files'[d]) <=> Garbage \notin In(Lines(files'[d]))
    BY <1>1, <1>3, ByItsTexts
  <2>2. Lines(files'[d]) = files'[d].lines
    BY <2>1 DEF Lines
  <2> QED
    BY <2>1, <2>2
<1>5. DiskInv'
  BY <1>4 DEF IInv, Loads
<1>6. acked' \subseteq Store!Held(log')
  <2>1. acked' \subseteq UNION {In(Lines(files'[d])) : d \in Deliberations}
    BY <1>5 DEF DiskInv, OnDisk
  <2> QED
    BY <1>4, <2>1 DEF Store!Held, In, Store!In
<1>8. acked \subseteq acked'
  BY DEF Next, vars, Call, Again, Write, Index, WriteRaises, Crash, Restart
<1>9. ~Broken
  BY <1>2 DEF Broken
<1>10. \A d \in Deliberations : Store!IsPrefix(log[d], log'[d])
  BY <1>2 DEF IsPrefix, Store!IsPrefix
<1>11. DOMAIN log' = Deliberations
  OBVIOUS
<1> QED
  BY <1>6, <1>8, <1>9, <1>10, <1>11 DEF Store!Take, Broken

\* Whatever fails, tears, dies or is repeated, the files are a JournalStore until
\* a line is torn, and only that breaks them (jsonl.py against store.py:30-41).
THEOREM JsonlImplementsStore == Spec => ImplementsJournalStore
<1>1. Init => Store!Init
  <2> SUFFICES ASSUME Init PROVE Store!Init
    OBVIOUS
  <2>1. \A d \in Deliberations : files[d].lines = <<>> /\ Whole(files[d])
    BY DEF Init, NoFile, Whole
  <2> QED
    BY <2>1 DEF Init, Store!Init
<1>2. IInv /\ IInv' /\ [Next]_vars =>
         [Store!Take \/ Store!Break]_<<[d \in Deliberations |-> files[d].lines], acked, Broken>>
  BY StepsAreTakes DEF Store!Break, Broken
<1> QED
  BY <1>1, <1>2, JsonlInvariance, PTL DEF Spec, ImplementsJournalStore, Store!Spec, Broken
-----------------------------------------------------------------------------
(* What a restart changes. *)

\* t has the entries of s in another order, which keeps that of equal times.
Rearranged(s, t) ==
    /\ s \in Seq(Entry) /\ t \in Seq(Entry) /\ Len(s) = Len(t)
    /\ \E p \in [1 .. Len(s) -> 1 .. Len(s)] :
          /\ \A i \in 1 .. Len(s) : \E k \in 1 .. Len(s) : p[k] = i
          /\ \A k, l \in 1 .. Len(s) : p[k] = p[l] => k = l
          /\ \A k \in 1 .. Len(s) : t[k] = s[p[k]]
          /\ \A k, l \in 1 .. Len(s) :
                k < l /\ t[k].timestamp = t[l].timestamp => p[k] < p[l]

\* The queries cannot tell them apart.
LEMMA RearrangedAnswers ==
    ASSUME NEW s, NEW t, Rearranged(s, t)
    PROVE  /\ GetOutcome(s) = GetOutcome(t)
           /\ ScoringPairs(s) = ScoringPairs(t)
           /\ \A since : EntriesSince(s, since) = EntriesSince(t, since)
<1> DEFINE N == 1 .. Len(s)
<1>1. PICK p \in [N -> N] :
         /\ \A i \in N : \E k \in N : p[k] = i
         /\ \A k, l \in N : p[k] = p[l] => k = l
         /\ \A k \in N : t[k] = s[p[k]]
         /\ \A k, l \in N : k < l /\ t[k].timestamp = t[l].timestamp => p[k] < p[l]
  BY DEF Rearranged
<1>2. /\ s \in Seq(Entry) /\ t \in Seq(Entry) /\ Len(t) = Len(s) /\ N \subseteq Nat
      /\ \A i \in N : s[i] \in Entry /\ s[i].timestamp \in Nat
  <2>1. s \in Seq(Entry) /\ t \in Seq(Entry) /\ Len(t) = Len(s) /\ N \subseteq Nat
    BY DEF Rearranged
  <2>2. \A i \in N : s[i] \in Entry
    BY <2>1
  <2>3. \A e \in Entry : e.timestamp \in Nat
    BY DEF Entry
  <2> QED
    BY <2>1, <2>2, <2>3
<1>7. IsFiniteSet(N)
  BY <1>2, FS_Interval
<1> HIDE DEF N
<1>3. ASSUME NEW kind
      PROVE  LatestAt(s, Positions(s, kind)) = LatestAt(t, Positions(t, kind))
  <2> DEFINE S == Positions(s, kind)
             T == Positions(t, kind)
             First(u, at, k) == \A j \in at : /\ u[j].timestamp <= u[k].timestamp
                                              /\ j < k => u[j].timestamp # u[k].timestamp
  <2>1. S \subseteq N /\ T \subseteq N
    BY <1>2 DEF Positions, N
  <2>2. \A k \in N : k \in T <=> p[k] \in S
    BY <1>1, <1>2 DEF Positions, N
  <2>3. \A x : x \in LatestAt(s, S) <=> \E i \in S : First(s, S, i) /\ x = s[i]
    BY DEF LatestAt
  <2>4. \A x : x \in LatestAt(t, T) <=> \E k \in T : First(t, T, k) /\ x = t[k]
    BY DEF LatestAt
  <2>5. ASSUME NEW k \in T
        PROVE  First(t, T, k) <=> First(s, S, p[k])
    <3>1. ASSUME First(t, T, k), NEW j \in S
          PROVE  /\ s[j].timestamp <= s[p[k]].timestamp
                 /\ j < p[k] => s[j].timestamp # s[p[k]].timestamp
      <4>1. PICK l \in N : p[l] = j
        BY <1>1, <2>1
      <4>2. l \in T /\ t[l] = s[j] /\ t[k] = s[p[k]]
        BY <1>1, <2>1, <2>2, <4>1
      <4>3. t[l].timestamp <= t[k].timestamp /\ (l < k => t[l].timestamp # t[k].timestamp)
        BY <3>1, <4>2
      <4>4. ASSUME j < p[k], s[j].timestamp = s[p[k]].timestamp
            PROVE  FALSE
        <5>1. t[k].timestamp = t[l].timestamp /\ p[l] \in Nat /\ p[k] \in Nat /\ p[l] < p[k]
          BY <1>1, <1>2, <2>1, <4>1, <4>2, <4>4
        <5>2. k < l \/ l < k \/ k = l
          <6>1. k \in Nat /\ l \in Nat
            BY <1>2, <2>1
          <6> QED
            BY <6>1
        <5>3. ~(l < k)
          BY <4>3, <5>1
        <5>4. ~(k < l)
          <6>1. k < l => p[k] < p[l]
            BY <1>1, <2>1, <5>1
          <6> QED
            BY <5>1, <6>1
        <5> QED
          BY <5>1, <5>2, <5>3, <5>4
      <4> QED
        BY <4>2, <4>3, <4>4
    <3>2. ASSUME First(s, S, p[k]), NEW l \in T
          PROVE  /\ t[l].timestamp <= t[k].timestamp
                 /\ l < k => t[l].timestamp # t[k].timestamp
      <4>1. p[l] \in S /\ t[l] = s[p[l]] /\ t[k] = s[p[k]]
        BY <1>1, <2>1, <2>2
      <4>2. /\ s[p[l]].timestamp <= s[p[k]].timestamp
            /\ p[l] < p[k] => s[p[l]].timestamp # s[p[k]].timestamp
        BY <3>2, <4>1
      <4>3. l < k /\ t[l].timestamp = t[k].timestamp => p[l] < p[k]
        BY <1>1, <2>1
      <4> QED
        BY <4>1, <4>2, <4>3
    <3> QED
      BY <3>1, <3>2
  <2>6. ASSUME NEW x \in LatestAt(s, S)
        PROVE  x \in LatestAt(t, T)
    <3>1. PICK i \in S : First(s, S, i) /\ x = s[i]
      BY <2>3
    <3>2. PICK k \in N : p[k] = i
      BY <1>1, <2>1
    <3>3. k \in T /\ x = t[k]
      BY <1>1, <2>2, <3>1, <3>2
    <3>4. First(t, T, k)
      BY <2>5, <3>1, <3>2, <3>3
    <3> HIDE DEF First
    <3> QED
      BY <2>4, <3>3, <3>4
  <2>7. ASSUME NEW x \in LatestAt(t, T)
        PROVE  x \in LatestAt(s, S)
    <3>1. PICK k \in T : First(t, T, k) /\ x = t[k]
      BY <2>4
    <3>2. p[k] \in S /\ x = s[p[k]]
      BY <1>1, <2>1, <2>2, <3>1
    <3>3. First(s, S, p[k])
      BY <2>5, <3>1
    <3> HIDE DEF First
    <3> QED
      BY <2>3, <3>2, <3>3
  <2> QED
    BY <2>6, <2>7
<1>4. GetOutcome(s) = GetOutcome(t)
  BY <1>3 DEF GetOutcome
<1>5. ASSUME NEW S, NEW T, S \subseteq N, T \subseteq N, \A k \in N : k \in T <=> p[k] \in S
      PROVE  BagAt(s, S) = BagAt(t, T)
  <2>1. {s[i] : i \in S} = {t[k] : k \in T}
    BY <1>1, <1>5
  <2>2. ASSUME NEW e
        PROVE  Cardinality({i \in S : s[i] = e}) = Cardinality({k \in T : t[k] = e})
    <3> DEFINE A == {k \in T : t[k] = e}
               B == {i \in S : s[i] = e}
               f == [k \in A |-> p[k]]
    <3>1. /\ A \subseteq N /\ \A k \in A : p[k] \in B
          /\ \A i \in B : \E k \in A : p[k] = i
      BY <1>1, <1>5
    <3>2. f \in Bijection(A, B)
      BY <1>1, <3>1 DEF Bijection, Injection, Surjection, IsInjective
    <3>3. IsFiniteSet(A)
      BY <1>7, <3>1, FS_Subset
    <3> HIDE DEF A, B, f
    <3>4. Cardinality(A) = Cardinality(B)
      BY <3>2, <3>3, FS_Bijection DEF ExistsBijection
    <3> QED
      BY <3>4 DEF A, B
  <2> QED
    BY <2>1, <2>2 DEF BagAt
<1>8. ScoringPairs(s) = ScoringPairs(t)
  <2>1. \A k \in N : k \in Positions(t, "proposal") <=> p[k] \in Positions(s, "proposal")
    BY <1>1, <1>2 DEF Positions, N
  <2>2. Positions(s, "proposal") \subseteq N /\ Positions(t, "proposal") \subseteq N
    BY <1>2 DEF Positions, N
  <2>3. BagAt(s, Positions(s, "proposal")) = BagAt(t, Positions(t, "proposal"))
    BY <1>5, <2>1, <2>2
  <2> QED
    BY <1>4, <2>3 DEF ScoringPairs
<1>6. ASSUME NEW since
      PROVE  EntriesSince(s, since) = EntriesSince(t, since)
  <2> DEFINE S == {k \in N : s[k].timestamp >= since}
             T == {k \in N : t[k].timestamp >= since}
  <2>1. EntriesSince(s, since) = BagAt(s, S) /\ EntriesSince(t, since) = BagAt(t, T)
    BY <1>2 DEF EntriesSince, N
  <2>2. S \subseteq N /\ T \subseteq N /\ \A k \in N : k \in T <=> p[k] \in S
    BY <1>1
  <2> HIDE DEF S, T
  <2> QED
    BY <1>5, <2>1, <2>2
<1> QED
  BY <1>4, <1>6, <1>8

\* One more entry at the end of both changes nothing of that.
LEMMA RearrangedGrows ==
    ASSUME NEW s, NEW t, Rearranged(s, t), NEW e \in Entry
    PROVE  Rearranged(Append(s, e), Append(t, e))
<1> DEFINE n == Len(s)
           N == 1 .. n
           M == 1 .. n + 1
<1>1. s \in Seq(Entry) /\ t \in Seq(Entry) /\ n \in Nat /\ Len(t) = n
  BY DEF Rearranged
<1>2. PICK p \in [N -> N] :
         /\ \A i \in N : \E k \in N : p[k] = i
         /\ \A k, l \in N : p[k] = p[l] => k = l
         /\ \A k \in N : t[k] = s[p[k]]
         /\ \A k, l \in N : k < l /\ t[k].timestamp = t[l].timestamp => p[k] < p[l]
  BY DEF Rearranged
<1> DEFINE a == Append(s, e)
           b == Append(t, e)
           q == [k \in M |-> IF k = n + 1 THEN n + 1 ELSE p[k]]
<1>3. /\ a \in Seq(Entry) /\ b \in Seq(Entry) /\ Len(a) = n + 1 /\ Len(b) = n + 1
      /\ a[n + 1] = e /\ b[n + 1] = e
      /\ \A k \in N : a[k] = s[k] /\ b[k] = t[k]
  BY <1>1
<1>4. n \in Nat /\ n + 1 \in M /\ N \subseteq M /\ \A k \in M : k # n + 1 => k \in N
  BY <1>1
<1>5. \A k \in N : k \in Nat /\ k < n + 1 /\ k # n + 1
  BY <1>1
<1> HIDE DEF n, N, M, a, b
<1>6. q \in [M -> M] /\ q[n + 1] = n + 1 /\ \A k \in N : q[k] = p[k] /\ q[k] \in N
  BY <1>2, <1>4, <1>5
<1>7. \A i \in M : \E k \in M : q[k] = i
  <2> SUFFICES ASSUME NEW i \in M PROVE \E k \in M : q[k] = i
    OBVIOUS
  <2>1. CASE i = n + 1
    BY <1>4, <1>6, <2>1
  <2>2. CASE i \in N
    <3>1. PICK k \in N : p[k] = i
      BY <1>2, <2>2
    <3> QED
      BY <1>4, <1>6, <3>1
  <2> QED
    BY <1>4, <2>1, <2>2
<1>12. \A k, l \in M : q[k] = q[l] => k = l
  BY <1>2, <1>4, <1>5, <1>6
<1>8. \A k \in M : b[k] = a[q[k]]
  <2> SUFFICES ASSUME NEW k \in M PROVE b[k] = a[q[k]]
    OBVIOUS
  <2>1. CASE k = n + 1
    BY <1>3, <1>6, <2>1
  <2>2. CASE k \in N
    BY <1>2, <1>3, <1>6, <2>2
  <2> QED
    BY <1>4, <2>1, <2>2
<1>9. \A k, l \in M : k < l /\ b[k].timestamp = b[l].timestamp => q[k] < q[l]
  <2> SUFFICES ASSUME NEW k \in M, NEW l \in M, k < l, b[k].timestamp = b[l].timestamp
               PROVE  q[k] < q[l]
    OBVIOUS
  <2>1. k \in N
    BY <1>1, <1>4 DEF M, N
  <2>2. CASE l = n + 1
    BY <1>5, <1>6, <2>1, <2>2
  <2>3. CASE l \in N
    BY <1>2, <1>3, <1>6, <2>1, <2>3
  <2> QED
    BY <1>4, <2>2, <2>3
<1> HIDE DEF q
<1>10. \E r \in [1 .. Len(a) -> 1 .. Len(a)] :
          /\ \A i \in 1 .. Len(a) : \E k \in 1 .. Len(a) : r[k] = i
          /\ \A k, l \in 1 .. Len(a) : r[k] = r[l] => k = l
          /\ \A k \in 1 .. Len(a) : b[k] = a[r[k]]
          /\ \A k, l \in 1 .. Len(a) :
                k < l /\ b[k].timestamp = b[l].timestamp => r[k] < r[l]
  <2>1. 1 .. Len(a) = M
    BY <1>3 DEF M
  <2> QED
    BY <1>6, <1>7, <1>8, <1>9, <1>12, <2>1
<1>11. Rearranged(a, b)
  BY <1>3, <1>10 DEF Rearranged
<1> QED
  BY <1>11 DEF a, b

\* The order of a stable sort by time, and how many come before an entry in it.
Before(s, i, j) ==
    \/ s[i].timestamp < s[j].timestamp
    \/ s[i].timestamp = s[j].timestamp /\ i < j

Earlier(s, i) == {j \in 1 .. Len(s) : Before(s, j, i)}

\* There is one way to put a sequence into that order.
LEMMA OrderExists ==
    ASSUME NEW s \in Seq(Entry)
    PROVE  \E p \in [1 .. Len(s) -> 1 .. Len(s)] :
              \A k, l \in 1 .. Len(s) : k < l => Before(s, p[k], p[l])
<1> DEFINE n == Len(s)
           N == 1 .. n
           rank == [i \in N |-> Cardinality(Earlier(s, i))]
<1>1. /\ n \in Nat /\ N \subseteq Nat /\ IsFiniteSet(N) /\ Cardinality(N) = n
      /\ \A i \in N : s[i].timestamp \in Nat
  <2>1. n \in Nat /\ N \subseteq Nat /\ \A i \in N : s[i] \in Entry
    OBVIOUS
  <2>2. IsFiniteSet(N) /\ Cardinality(N) = n
    <3>1. 1 \in Int /\ n \in Int
      BY <2>1
    <3>2. IsFiniteSet(N) /\ Cardinality(N) = IF 1 > n THEN 0 ELSE n - 1 + 1
      BY <3>1, FS_Interval
    <3> QED
      BY <2>1, <3>2
  <2>3. \A e \in Entry : e.timestamp \in Nat
    BY DEF Entry
  <2> QED
    BY <2>1, <2>2, <2>3
<1>2. \A i \in N : Earlier(s, i) \subseteq N
  BY DEF Earlier
<1>3. /\ \A i \in N : ~Before(s, i, i)
      /\ \A i, j \in N : i = j \/ Before(s, i, j) \/ Before(s, j, i)
      /\ \A i, j, k \in N : Before(s, i, j) /\ Before(s, j, k) => Before(s, i, k)
  BY <1>1 DEF Before
<1> DEFINE Counts == 0 .. n - 1
<1>4. IsFiniteSet(Counts) /\ Cardinality(Counts) = n
  <2>1. 0 \in Int /\ n - 1 \in Int
    BY <1>1
  <2>2. IsFiniteSet(Counts) /\ Cardinality(Counts) = IF 0 > n - 1 THEN 0 ELSE (n - 1) - 0 + 1
    BY <2>1, FS_Interval
  <2> QED
    BY <1>1, <2>2
<1>5. ASSUME NEW i \in N
      PROVE  IsFiniteSet(Earlier(s, i)) /\ Cardinality(Earlier(s, i)) \in Counts
  <2>1. i \notin Earlier(s, i)
    BY <1>3 DEF Earlier
  <2>2. Earlier(s, i) \subseteq N \ {i}
    BY <1>2, <2>1
  <2>3. IsFiniteSet(N \ {i}) /\ Cardinality(N \ {i}) = n - 1
    <3> HIDE DEF N
    <3>1. IsFiniteSet(N) /\ Cardinality(N) = n /\ i \in N
      BY <1>1
    <3> QED
      BY <3>1, FS_RemoveElement, Zenon
  <2>4. IsFiniteSet(Earlier(s, i)) /\ Cardinality(Earlier(s, i)) <= n - 1
    BY <2>2, <2>3, FS_Subset
  <2> QED
    BY <1>1, <2>4, FS_CardinalityType
<1>6. ASSUME NEW i \in N, NEW j \in N, Before(s, i, j)
      PROVE  Cardinality(Earlier(s, i)) < Cardinality(Earlier(s, j))
  <2>1. Earlier(s, i) \subseteq Earlier(s, j)
    BY <1>3, <1>6 DEF Earlier
  <2>2. i \in Earlier(s, j) /\ i \notin Earlier(s, i)
    BY <1>3, <1>6 DEF Earlier
  <2>3. /\ Cardinality(Earlier(s, i)) <= Cardinality(Earlier(s, j))
        /\ Cardinality(Earlier(s, i)) # Cardinality(Earlier(s, j))
    BY <1>5, <2>1, <2>2, FS_Subset
  <2> QED
    BY <1>1, <1>5, <2>3
<1> HIDE DEF n, N, Counts
<1>7. rank \in [N -> Counts] /\ \A i \in N : rank[i] = Cardinality(Earlier(s, i))
  BY <1>5
<1>8. Counts \subseteq Nat /\ \A k \in N : k - 1 \in Counts
  BY <1>1 DEF N, Counts
<1> HIDE DEF rank
<1>9. \A i, j \in N : Before(s, i, j) => rank[i] < rank[j]
  BY <1>6, <1>7
<1>10. rank \in Injection(N, Counts)
  <2>1. \A i, j \in N : rank[i] = rank[j] => i = j
    <3> SUFFICES ASSUME NEW i \in N, NEW j \in N, i # j PROVE rank[i] # rank[j]
      OBVIOUS
    <3>1. rank[i] < rank[j] \/ rank[j] < rank[i]
      BY <1>3, <1>9
    <3>2. rank[i] \in Nat /\ rank[j] \in Nat
      BY <1>7, <1>8
    <3> QED
      BY <3>1, <3>2
  <2> QED
    BY <1>7, <2>1 DEF Injection, IsInjective
<1>11. rank \in Surjection(N, Counts)
  BY <1>1, <1>4, <1>10, FS_Injection
<1> DEFINE p == [k \in N |-> CHOOSE i \in N : rank[i] = k - 1]
<1>12. \A k \in N : p[k] \in N /\ rank[p[k]] = k - 1
  <2> SUFFICES ASSUME NEW k \in N PROVE p[k] \in N /\ rank[p[k]] = k - 1
    OBVIOUS
  <2>1. \E i \in N : rank[i] = k - 1
    BY <1>8, <1>11 DEF Surjection
  <2> QED
    BY <2>1
<1>13. p \in [N -> N]
  BY <1>12
<1> HIDE DEF p
<1>14. \A k, l \in N : k < l => Before(s, p[k], p[l])
  <2> SUFFICES ASSUME NEW k \in N, NEW l \in N, k < l PROVE Before(s, p[k], p[l])
    OBVIOUS
  <2>1. rank[p[k]] < rank[p[l]] /\ rank[p[k]] \in Nat /\ rank[p[l]] \in Nat
    BY <1>1, <1>7, <1>8, <1>12
  <2>2. p[k] # p[l] /\ ~Before(s, p[l], p[k])
    BY <1>9, <1>13, <2>1
  <2> QED
    BY <1>3, <1>13, <2>2
<1> QED
  BY <1>13, <1>14 DEF N, n

\* Sorting by time rearranges a sequence in that sense.
LEMMA SortedRearranges ==
    ASSUME NEW s \in Seq(Entry)
    PROVE  Rearranged(s, Sorted(s))
<1> DEFINE N == 1 .. Len(s)
           p == CHOOSE q \in [N -> N] : \A k, l \in N : k < l => Before(s, q[k], q[l])
           t == [k \in N |-> s[p[k]]]
<1>1. /\ Len(s) \in Nat /\ N \subseteq Nat /\ IsFiniteSet(N) /\ Cardinality(N) = Len(s)
      /\ \A i \in N : s[i] \in Entry
  <2>1. Len(s) \in Nat /\ N \subseteq Nat /\ \A i \in N : s[i] \in Entry
    OBVIOUS
  <2>2. 1 \in Int /\ Len(s) \in Int
    BY <2>1
  <2>3. IsFiniteSet(N) /\ Cardinality(N) = IF 1 > Len(s) THEN 0 ELSE Len(s) - 1 + 1
    BY <2>2, FS_Interval
  <2> QED
    BY <2>1, <2>3
<1>2. Sorted(s) = t
  <2> DEFINE q(M) == CHOOSE r \in [M -> N] : \A k, l \in M : k < l => Before(s, r[k], r[l])
  <2>1. Sorted(s) = [k \in 1 .. Cardinality(N) |-> s[q(1 .. Cardinality(N))[k]]]
    BY Zenon DEF Sorted, Arranged, Before
  <2> QED
    BY <1>1, <2>1
<1>3. p \in [N -> N] /\ \A k, l \in N : k < l => Before(s, p[k], p[l])
  BY OrderExists
<1> HIDE DEF p
<1>4. t \in Seq(Entry) /\ Len(t) = Len(s) /\ \A k \in N : t[k] = s[p[k]]
  <2>1. t \in [1 .. Len(s) -> Entry]
    BY <1>1, <1>3
  <2> QED
    BY <1>1, <2>1
<1>5. \A i \in N : s[i].timestamp \in Nat
  <2>1. \A e \in Entry : e.timestamp \in Nat
    BY DEF Entry
  <2> QED
    BY <1>1, <2>1
<1> HIDE DEF t
<1>6. ASSUME NEW k \in N, NEW l \in N, k < l, t[k].timestamp = t[l].timestamp
      PROVE  p[k] < p[l]
  <2>1. Before(s, p[k], p[l]) /\ s[p[k]].timestamp = s[p[l]].timestamp
    BY <1>3, <1>4, <1>6
  <2> QED
    BY <1>3, <1>5, <2>1 DEF Before
<1>7. /\ \A i \in N : \E k \in N : p[k] = i
      /\ \A k, l \in N : p[k] = p[l] => k = l
  <2>1. \A k, l \in N : p[k] = p[l] => k = l
    <3> SUFFICES ASSUME NEW k \in N, NEW l \in N, k < l PROVE p[k] # p[l]
      BY <1>1
    <3>1. Before(s, p[k], p[l])
      BY <1>3
    <3>2. p[k] \in Nat /\ s[p[k]].timestamp \in Nat
      BY <1>1, <1>3, <1>5
    <3> QED
      BY <3>1, <3>2 DEF Before
  <2>2. p \in Injection(N, N)
    BY <1>3, <2>1 DEF Injection, IsInjective
  <2>3. p \in Surjection(N, N)
    BY <1>1, <2>2, FS_Injection
  <2> QED
    BY <2>1, <2>3 DEF Surjection
<1>8. Rearranged(s, t)
  BY <1>3, <1>4, <1>6, <1>7 DEF Rearranged
<1> QED
  BY <1>2, <1>8

\* What the index has of a deliberation once the entry that was just written is in it.
Indexed(d) ==
    IF written /\ Head(todo).deliberation = d THEN Append(index[d], Head(todo)) ELSE index[d]

\* Calls are made while the store runs, and then the index has the lines of a
\* whole file, as appended or as loaded, unless an append left one and raised.
IndexInv ==
    /\ phase # "running" => todo = <<>>
    /\ phase = "running" =>
          \A d \in Deliberations \ astray :
             Whole(files[d]) => Rearranged(files[d].lines, Indexed(d))

\* A call in progress writes to one file, and only a complete write leaves it
\* whole and changed.
LEMMA WritesAppend ==
    ASSUME IInv, todo # <<>>, NEW d \in Deliberations,
           NEW g \in Partly(File(Head(todo)), Head(todo)) \cup {Appended(File(Head(todo)), Head(todo))},
           files' = [files EXCEPT ![Head(todo).deliberation] = g], Whole(files'[d])
    PROVE  /\ Whole(files[d])
           /\ d # Head(todo).deliberation => files'[d] = files[d]
           /\ g = Appended(File(Head(todo)), Head(todo)) /\ d = Head(todo).deliberation =>
                 files'[d].lines = Append(files[d].lines, Head(todo))
           /\ g \in Partly(File(Head(todo)), Head(todo)) => files'[d] = files[d]
<1> DEFINE e == Head(todo)
<1>1. /\ e \in Entry /\ e.deliberation \in Deliberations /\ File(e) \in FileType
      /\ files \in [Deliberations -> FileType]
  BY HeadOfCall DEF IInv, TypeOK, FileType
<1> HIDE DEF e
<1>2. CASE d # e.deliberation
  BY <1>1, <1>2 DEF e
<1>3. CASE d = e.deliberation
  <2>1. files'[d] = g /\ File(e) = files[d]
    BY <1>1, <1>3 DEF File, e
  <2>2. CASE g = Appended(files[d], e)
    <3>1. Whole(files[d]) /\ g.lines = Append(files[d].lines, e)
      BY <1>1, <2>1, <2>2, AppendedFiles
    <3>2. g \in Partly(files[d], e) => g = files[d]
      BY <1>1, <2>1, PartlyFiles
    <3> QED
      BY <1>3, <2>1, <2>2, <3>1, <3>2 DEF e
  <2>3. CASE g \in Partly(files[d], e) /\ g # Appended(files[d], e)
    <3>1. g = files[d]
      BY <1>1, <2>1, <2>3, PartlyFiles
    <3> QED
      BY <1>3, <2>1, <2>3, <3>1 DEF e
  <2> QED
    BY <2>1, <2>2, <2>3 DEF e
<1> QED
  BY <1>2, <1>3

\* One step per action: Write puts its entry into the file and Index into the
\* list, a restart sorts, and nothing else touches either.
LEMMA IndexNext == IInv /\ IndexInv /\ [Next]_vars => IndexInv'
<1> SUFFICES ASSUME IInv, IndexInv, [Next]_vars PROVE IndexInv'
  OBVIOUS
<1> DEFINE e == Head(todo)
<1>1. /\ files \in [Deliberations -> FileType] /\ DOMAIN index = Deliberations
      /\ written => todo # <<>>
  BY DEF IInv, TypeOK, FileType
<1>2. CASE Call \/ Again
  <2>1. /\ phase = "running" /\ todo = <<>> /\ written' = written
        /\ UNCHANGED <<phase, files, index, astray>>
    BY <1>2 DEF Call, Again, Quiet
  <2>2. \A d \in Deliberations : Indexed(d)' = index[d] /\ Indexed(d) = index[d]
    BY <1>1, <2>1 DEF Indexed
  <2> QED
    BY <2>1, <2>2 DEF IndexInv
<1>3. CASE Write
  <2>1. /\ todo # <<>> /\ ~written /\ written' /\ phase = "running"
        /\ UNCHANGED <<todo, index, phase, astray>>
        /\ files' = [files EXCEPT ![e.deliberation] = Appended(File(e), e)]
    BY <1>3 DEF Write, IndexInv
  <2>2. e \in Entry
    BY <2>1, HeadOfCall
  <2> SUFFICES ASSUME NEW d \in Deliberations \ astray', Whole(files'[d])
               PROVE  Rearranged(files'[d].lines, Indexed(d)')
    BY <2>1 DEF IndexInv
  <2>3. Whole(files[d]) /\ Indexed(d) = index[d]
    BY <2>1, WritesAppend DEF Indexed
  <2>4. Rearranged(files[d].lines, index[d])
    BY <2>1, <2>3 DEF IndexInv
  <2>5. CASE e.deliberation = d
    <3>1. files'[d].lines = Append(files[d].lines, e)
      BY <2>1, <2>5, WritesAppend
    <3>2. Indexed(d)' = Append(index[d], e)
      BY <2>1, <2>5 DEF Indexed
    <3> QED
      BY <2>2, <2>4, <3>1, <3>2, RearrangedGrows
  <2>6. CASE e.deliberation # d
    <3>1. files'[d] = files[d]
      BY <2>1, <2>6, WritesAppend
    <3>2. Indexed(d)' = index[d]
      BY <2>1, <2>6 DEF Indexed
    <3> QED
      BY <2>4, <3>1, <3>2
  <2> QED
    BY <2>5, <2>6
<1>4. CASE Index
  <2>1. /\ written /\ ~written' /\ UNCHANGED <<phase, files, astray>>
        /\ index' = [index EXCEPT ![e.deliberation] = Append(@, e)]
    BY <1>4 DEF Index, Proceed
  <2>2. phase = "running"
    BY <1>1, <2>1 DEF IndexInv
  <2>3. ASSUME NEW d \in Deliberations
        PROVE  Indexed(d)' = Indexed(d)
    <3>1. Indexed(d)' = index'[d]
      BY <2>1 DEF Indexed
    <3>2. index'[d] = IF e.deliberation = d THEN Append(index[d], e) ELSE index[d]
      BY <1>1, <2>1
    <3> QED
      BY <2>1, <3>1, <3>2 DEF Indexed
  <2> QED
    BY <2>1, <2>2, <2>3 DEF IndexInv
<1>5. CASE WriteRaises
  <2>1. /\ todo # <<>> /\ ~written /\ ~written' /\ todo' = <<>>
        /\ index' = index /\ phase' = phase /\ phase = "running"
    BY <1>5 DEF WriteRaises, Raise, IndexInv
  <2>2. PICK g \in Partly(File(e), e) \cup {Appended(File(e), e)} :
           files' = [files EXCEPT ![e.deliberation] = g]
    BY <1>5 DEF WriteRaises, WriteStops
  <2> SUFFICES ASSUME NEW d \in Deliberations \ astray', Whole(files'[d])
               PROVE  Rearranged(files'[d].lines, Indexed(d)')
    BY <2>1 DEF IndexInv
  <2>5. d \notin astray /\ files'[d].lines = files[d].lines
    BY <1>5 DEF WriteRaises
  <2>3. Whole(files[d])
    BY <2>1, <2>2, WritesAppend
  <2>4. Indexed(d)' = index[d] /\ Indexed(d) = index[d]
    BY <2>1 DEF Indexed
  <2> QED
    BY <2>1, <2>3, <2>4, <2>5 DEF IndexInv
<1>6. CASE Crash
  BY <1>6 DEF Crash, IndexInv
<1>7. CASE Restart
  <2>1. phase = "down" /\ UNCHANGED <<files, todo, written, astray>> /\ todo = <<>> /\ ~written
    BY <1>1, <1>7 DEF Restart, call, IndexInv
  <2> SUFFICES ASSUME phase' = "running", NEW d \in Deliberations, Whole(files[d])
               PROVE  Rearranged(files[d].lines, Indexed(d)')
    BY <2>1 DEF IndexInv
  <2>2. index' = [c \in Deliberations |-> Loaded(files[c])]
    BY <1>7 DEF Restart
  <2>3. Indexed(d)' = Loaded(files[d])
    BY <2>1, <2>2 DEF Indexed
  <2>4. Loaded(files[d]) = Sorted(files[d].lines)
    BY DEF Loaded, Lines, Whole
  <2>5. files[d].lines \in Seq(Entry)
    BY <1>1, WholeLines
  <2> QED
    BY <2>3, <2>4, <2>5, SortedRearranges
<1>8. CASE UNCHANGED vars
  <2>1. UNCHANGED <<phase, files, index, todo, written, astray>>
    BY <1>8 DEF vars, call
  <2>2. \A d \in Deliberations : Indexed(d)' = Indexed(d)
    BY <2>1 DEF Indexed
  <2> QED
    BY <2>1, <2>2 DEF IndexInv
<1> QED
  BY <1>2, <1>3, <1>4, <1>5, <1>6, <1>7, <1>8 DEF Next

\* However clocks were set back and in whatever order and however often entries
\* came, a store whose lines are whole, and all in its index, answers as it would
\* after a restart (jsonl.py:55 against 151).
THEOREM RestartsChangeNoAnswer == Spec => []RestartChangesNoAnswer
<1>1. Init => IndexInv
  <2> SUFFICES ASSUME Init PROVE IndexInv
    OBVIOUS
  <2>1. Rearranged(<<>>, <<>>)
    <3>1. <<>> \in Seq(Entry) /\ Len(<<>>) = 0 /\ 1 .. 0 = {}
      OBVIOUS
    <3>2. [i \in {} |-> i] \in [{} -> {}]
      OBVIOUS
    <3> QED
      BY <3>1, <3>2 DEF Rearranged
  <2>2. \A d \in Deliberations : files[d].lines = <<>> /\ Indexed(d) = <<>>
    BY DEF Init, NoFile, Indexed
  <2> QED
    BY <2>1, <2>2 DEF Init, IndexInv
<1>2. IInv /\ IndexInv => RestartChangesNoAnswer
  <2> SUFFICES ASSUME IInv, IndexInv, Quiet, NEW d \in Deliberations \ astray, Whole(files[d])
               PROVE  LET now == index[d]
                          reloaded == Loaded(files[d])
                      IN  /\ GetOutcome(now) = GetOutcome(reloaded)
                          /\ ScoringPairs(now) = ScoringPairs(reloaded)
                          /\ \A t \in Times : EntriesSince(now, t) = EntriesSince(reloaded, t)
    BY DEF RestartChangesNoAnswer
  <2>1. Rearranged(files[d].lines, index[d])
    BY DEF IndexInv, Quiet, Indexed, IInv, TypeOK
  <2>2. Loaded(files[d]) = Sorted(files[d].lines)
    BY DEF Loaded, Lines, Whole
  <2>3. Rearranged(files[d].lines, Sorted(files[d].lines))
    <3>1. files[d].lines \in Seq(Entry)
      BY WholeLines DEF IInv, TypeOK, FileType
    <3> QED
      BY <3>1, SortedRearranges
  <2> QED
    BY <2>1, <2>2, <2>3, RearrangedAnswers
<1> QED
  BY <1>1, <1>2, JsonlInvariance, IndexNext, PTL DEF Spec
=============================================================================
