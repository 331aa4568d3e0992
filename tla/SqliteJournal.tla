---------------------------- MODULE SqliteJournal ----------------------------
(***************************************************************************)
(* journal/sqlite.py: one table of entries keyed by their id, each append  *)
(* committed by itself and a batch in one transaction, with statements     *)
(* that fail, the death of the process, and the host that closes the       *)
(* connection at any time between two calls.                               *)
(*                                                                         *)
(* The table is the sequence of its rows in the order of insertion, which  *)
(* is also the order in which rows of equal timestamps are returned.  The  *)
(* calls of a store run one at a time, under its lock.                     *)
(***************************************************************************)
EXTENDS JournalEntries

VARIABLES
    phase,    \* "open", "closed", or "down"
    rows,     \* the committed rows
    txn,      \* the rows inserted by the transaction that is open
    calling,  \* the entries of the call in progress
    todo,     \* those still to be inserted
    made,     \* the entries made so far (history variable)
    acked     \* those whose append has returned (history variable)

call == <<calling, todo>>
vars == <<phase, rows, txn, call, made, acked>>

Init ==
    /\ phase = "open"
    /\ rows = <<>>
    /\ txn = <<>>
    /\ calling = <<>>
    /\ todo = <<>>
    /\ made = {}
    /\ acked = {}

Idle == phase = "open" /\ calling = <<>>

Batch == Len(calling) > 1

\* append (one entry) or append_batch (BEGIN) of new entries.
Call ==
    /\ Idle
    /\ calling' \in NewCalls(made)
    /\ todo' = calling'
    /\ made' = made \cup In(calling')
    /\ UNCHANGED <<phase, rows, txn, acked>>

\* A caller repeats a call that may have succeeded.
Again ==
    /\ Idle
    /\ calling' \in PastCalls(made)
    /\ todo' = calling'
    /\ UNCHANGED <<phase, rows, txn, made, acked>>

\* (mutant)
OrReplace(table, e) == Append(Remove(table, e), e)

\* INSERT OR IGNORE.
OrIgnore(table, e) == IF e \in In(table) THEN table ELSE Append(table, e)

\* (mutant)
InsertEach(e) == rows' = OrIgnore(rows, e) /\ UNCHANGED txn

\* Within BEGIN the row waits for the COMMIT; otherwise it is committed.
InsertRow(e) ==
    IF Batch
      THEN /\ txn' = IF e \in In(rows) THEN txn ELSE OrIgnore(txn, e)
           /\ UNCHANGED rows
      ELSE rows' = OrIgnore(rows, e) /\ UNCHANGED txn

Insert ==
    /\ todo # <<>>
    /\ InsertRow(Head(todo))
    /\ todo' = Tail(todo)
    /\ UNCHANGED <<phase, calling, made, acked>>

\* COMMIT, if it is a batch, and the call returns.
Return ==
    /\ calling # <<>>
    /\ todo = <<>>
    /\ rows' = rows \o txn
    /\ txn' = <<>>
    /\ acked' = acked \cup In(calling)
    /\ calling' = <<>>
    /\ UNCHANGED <<phase, todo, made>>

Rollback == txn' = <<>>

\* A statement raises (the disk is full, an entry does not serialise).
Raise ==
    /\ calling # <<>>
    /\ todo # <<>> \/ Batch
    /\ Rollback
    /\ calling' = <<>>
    /\ todo' = <<>>
    /\ UNCHANGED <<phase, rows, made, acked>>

\* close(); every later call raises before it changes anything.
Close ==
    /\ Idle
    /\ phase' = "closed"
    /\ UNCHANGED <<rows, txn, call, made, acked>>

\* The process dies; SQLite drops the transaction that was open.
Crash ==
    /\ phase \in {"open", "closed"}
    /\ phase' = "down"
    /\ txn' = <<>>
    /\ calling' = <<>>
    /\ todo' = <<>>
    /\ UNCHANGED <<rows, made, acked>>

Restart ==
    /\ phase = "down"
    /\ phase' = "open"
    /\ UNCHANGED <<rows, txn, call, made, acked>>

Next == Call \/ Again \/ Insert \/ Return \/ Raise \/ Close \/ Crash \/ Restart

Spec == Init /\ [][Next]_vars
-----------------------------------------------------------------------------
\* The rows of a deliberation, in the order of insertion.
RowsOf(d) ==
    Arranged(rows, {i \in 1 .. Len(rows) : rows[i].deliberation = d}, LAMBDA i, j : i < j)
-----------------------------------------------------------------------------
\* The table and the transaction hold entries, a transaction is open only in a
\* batch, and entries are left to insert only in a call (sqlite.py:31-92).
TypeOK ==
    /\ phase \in {"open", "closed", "down"}
    /\ rows \in Seq(Entry)
    /\ txn \in Seq(Entry)
    /\ txn # <<>> => Batch
    /\ calling \in Seq(Entry)
    /\ todo \in Seq(Entry)
    /\ In(todo) \subseteq In(calling)
    /\ made \subseteq Entry
    /\ acked \subseteq made

\* A batch is in the table as a whole or not at all, after any errors, crashes
\* and repetitions (BEGIN, COMMIT and ROLLBACK, sqlite.py:66-75).
BatchIsWhole ==
    \A e1, e2 \in made : e1.call = e2.call => (e1 \in In(rows) <=> e2 \in In(rows))

\* The table is a JournalStore: rows are never lost, moved or doubled, and all
\* that was acknowledged is there; no failure breaks it (sqlite.py against
\* store.py:30-41).
Store == INSTANCE JournalStore WITH
             log <- [d \in Deliberations |-> RowsOf(d)],
             broken <- FALSE,
             Once <- TRUE

ImplementsJournalStore == Store!Spec
=============================================================================
