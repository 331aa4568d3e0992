---------------------------- MODULE JsonlJournal ----------------------------
(***************************************************************************)
(* journal/jsonl.py: one file per deliberation, an index in memory that is *)
(* rebuilt from the files at start-up, and the death of the process or an  *)
(* error of the file system between any two of its steps.                  *)
(*                                                                         *)
(* A file is its complete lines and the text after the last newline.  A    *)
(* line holds the text of one entry, or text that does not parse: a part   *)
(* of an entry, or more than one.  Appends run under a lock on one event   *)
(* loop, so one call is in progress at a time.  Timestamps are taken when  *)
(* an entry is made, before it is appended, from a clock that may be set   *)
(* back: any timestamp can be appended after any other.                    *)
(***************************************************************************)
EXTENDS JournalEntries

CONSTANTS
    MaxLines,  \* bound: lines in all files when a call begins
    Empty,     \* no text
    Garbage    \* text that from_json_line refuses

ASSUME JsonlJournalAssumption ==
    /\ MaxLines \in Nat
    /\ Empty # Garbage
    /\ Empty \notin Entry
    /\ Garbage \notin Entry

Text == Entry \cup {Empty, Garbage}

VARIABLES
    phase,    \* "running", "down", or "refused": the store does not load
    files,    \* what is on disk
    index,    \* _index
    todo,     \* entries of the call in progress still to be appended
    written,  \* is the first of them in its file, and not yet in the index?
    made,     \* the entries made so far (history variable)
    acked,    \* those that were appended without an error (history variable)
    astray    \* deliberations with a line that the index never got, since
              \* the process started (history variable)

call == <<todo, written>>
vars == <<phase, files, index, call, made, acked, astray>>

NoFile == [lines |-> <<>>, tail |-> Empty]

Init ==
    /\ phase = "running"
    /\ files = [d \in Deliberations |-> NoFile]
    /\ index = [d \in Deliberations |-> <<>>]
    /\ todo = <<>>
    /\ written = FALSE
    /\ made = {}
    /\ acked = {}
    /\ astray = {}
-----------------------------------------------------------------------------
\* Text written after the unfinished text of a file joins it on its line.
Join(tail, text) == IF tail = Empty THEN text ELSE Garbage

\* (mutant)
Rewritten(f, e) == [lines |-> <<e>>, tail |-> Empty]

\* f.write(line), f.write("\n"), and the close that flushes both.
Appended(f, e) == [lines |-> Append(f.lines, Join(f.tail, e)), tail |-> Empty]

Torn(f) == [lines |-> f.lines, tail |-> Garbage]

Unterminated(f, e) == [lines |-> f.lines, tail |-> Join(f.tail, e)]

\* What a write that does not complete may leave.
Partly(f, e) == {f, Torn(f), Unterminated(f, e)}

Lines(f) == IF f.tail = Empty THEN f.lines ELSE Append(f.lines, f.tail)

LinesParse(f) == \A i \in 1 .. Len(Lines(f)) : Lines(f)[i] # Garbage

Loaded(f) == Sorted(Lines(f))

Loads == \A d \in Deliberations : LinesParse(files[d])
-----------------------------------------------------------------------------
Quiet == phase = "running" /\ todo = <<>>

Few == ReduceSet(LAMBDA d, n : n + Len(files[d].lines), Deliberations, 0) <= MaxLines

\* append or append_batch of new entries.
Call ==
    /\ Quiet
    /\ Few
    /\ todo' \in NewCalls(made)
    /\ made' = made \cup In(todo')
    /\ UNCHANGED <<phase, files, index, written, acked, astray>>

\* A caller repeats a call, whatever became of it: the entries are written
\* again.  (Bound: only while the store loads.)
Again ==
    /\ Quiet
    /\ Few
    /\ Loads
    /\ todo' \in PastCalls(made)
    /\ UNCHANGED <<phase, files, index, written, made, acked, astray>>

File(e) == files[e.deliberation]

Write ==
    /\ todo # <<>>
    /\ ~written
    /\ LET e == Head(todo)
       IN  files' = [files EXCEPT ![e.deliberation] = Appended(File(e), e)]
    /\ written' = TRUE
    /\ UNCHANGED <<phase, index, todo, made, acked, astray>>

Proceed == todo' = Tail(todo) /\ written' = FALSE

Index ==
    /\ written
    /\ LET e == Head(todo)
       IN  /\ index' = [index EXCEPT ![e.deliberation] = Append(@, e)]
           /\ acked' = acked \cup {e}
    /\ Proceed
    /\ UNCHANGED <<phase, files, made, astray>>

\* (mutant)
SkipOne == todo' = Tail(todo)

Raise == todo' = <<>>

\* A write that does not return: it leaves part of its line, or all of it.
WriteStops ==
    LET e == Head(todo)
    IN  \E f \in Partly(File(e), e) \cup {Appended(File(e), e)} :
           files' = [files EXCEPT ![e.deliberation] = f]

\* The deliberation id is refused, the file cannot be opened, the disk is
\* full, or the close fails: the call raises, and the process goes on.
WriteRaises ==
    /\ todo # <<>>
    /\ ~written
    /\ WriteStops
    /\ astray' = astray \cup {d \in Deliberations : files'[d].lines # files[d].lines}
    /\ Raise
    /\ UNCHANGED <<phase, index, written, made, acked>>

\* The process dies, in the write of a line or elsewhere.
Crash ==
    /\ phase = "running"
    /\ phase' = "down"
    /\ IF todo # <<>> /\ ~written THEN WriteStops ELSE UNCHANGED files
    /\ index' = [d \in Deliberations |-> <<>>]
    /\ astray' = {}
    /\ todo' = <<>>
    /\ written' = FALSE
    /\ UNCHANGED <<made, acked>>

\* The constructor: one line that does not parse, and it raises.
Restart ==
    /\ phase = "down"
    /\ IF Loads
         THEN /\ phase' = "running"
              /\ index' = [d \in Deliberations |-> Loaded(files[d])]
         ELSE phase' = "refused" /\ UNCHANGED index
    /\ UNCHANGED <<files, call, made, acked, astray>>

Next == Call \/ Again \/ Write \/ Index \/ WriteRaises \/ Crash \/ Restart

Spec == Init /\ [][Next]_vars
-----------------------------------------------------------------------------
OnDisk == UNION {In(Lines(files[d])) : d \in Deliberations}

\* Every line is one entry with its newline (jsonl.py:27-28).
Whole(f) == f.tail = Empty /\ \A i \in 1 .. Len(f.lines) : f.lines[i] \in Entry

\* Files hold texts, the index lists, and a call in progress has entries
\* left to append (jsonl.py, the fields of the store).
TypeOK ==
    /\ phase \in {"running", "down", "refused"}
    /\ files \in [Deliberations -> [lines : Seq(Text), tail : Text]]
    /\ DOMAIN index = Deliberations
    /\ todo \in Seq(Entry)
    /\ written \in BOOLEAN
    /\ written => todo # <<>>
    /\ acked \subseteq made
    /\ made \subseteq Entry
    /\ astray \subseteq Deliberations

\* An entry that was appended without an error is never lost silently: as
\* long as the store loads at all, the entry is among what it loads, after any
\* crashes, restarts, torn lines and joined lines (jsonl.py:50-55 against
\* jsonl.py:141-152).
LossIsLoud == Loads => acked \subseteq OnDisk

\* A batch that fails or dies half-way, and is perhaps repeated, leaves its first
\* entries, never a later one without an earlier one (append_batch,
\* jsonl.py:45-48).  Nothing is said of how often: a repeated call writes its
\* entries again.
BatchIsPrefix ==
    Loads =>
        \A e1, e2 \in made :
            (e1.call = e2.call /\ e1.id < e2.id /\ e2 \in OnDisk) => e1 \in OnDisk

\* While every line is whole, and no append has raised after its line was
\* written, the store answers between calls from its index as it would answer
\* after a restart: the outcome, the pairs calibration is computed from and the
\* entries since any time are the same, each as often, although the index is in
\* the order of appending and a reloaded one in that of the timestamps (jsonl.py:55, 151;
\* get_outcome, get_calibration, get_all_entries_since).
RestartChangesNoAnswer ==
    Quiet => \A d \in {d1 \in Deliberations \ astray : Whole(files[d1])} :
        LET now == index[d]
            reloaded == Loaded(files[d])
        IN  /\ GetOutcome(now) = GetOutcome(reloaded)
            /\ ScoringPairs(now) = ScoringPairs(reloaded)
            /\ \A t \in Times : EntriesSince(now, t) = EntriesSince(reloaded, t)

\* The files are a JournalStore, though one that holds an entry as often as it is
\* appended, and one that is broken by a write that stops part-way: until then
\* what is in them stays, in the order of the appends, and all that was
\* acknowledged is there, through errors, crashes and restarts (jsonl.py against
\* the protocol of store.py:30-41).
Store == INSTANCE JournalStore WITH
             log <- [d \in Deliberations |-> files[d].lines],
             broken <- \E d \in Deliberations : ~Whole(files[d]),
             Once <- FALSE

ImplementsJournalStore == Store!Spec
=============================================================================
