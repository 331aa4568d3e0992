--------------------------- MODULE JournalEntries ---------------------------
(***************************************************************************)
(* Journal entries as far as the stores tell them apart, the calls that    *)
(* append them, and the queries both stores answer from the entries of one *)
(* deliberation.  An entry is numbered in the order of making, and knows   *)
(* the call that it is first appended by.  Its timestamp is taken when it  *)
(* is made, from a clock that may be set back, and it may be appended much *)
(* later: any timestamp may follow any other.                              *)
(***************************************************************************)
EXTENDS JournalQueries

CONSTANTS
    Deliberations,
    Kinds,          \* "proposal" (with calibration at stake), "outcome", ...
    Times,          \* timestamps
    BatchSizes,     \* 1 for append, the lengths of batches for append_batch
    MaxEntries      \* bound: entries ever made

ASSUME JournalEntriesAssumption ==
    /\ Times \subseteq Nat
    /\ BatchSizes \subseteq Nat \ {0}
    /\ MaxEntries \in Nat

Entry ==
    [id : 1 .. MaxEntries, call : 1 .. MaxEntries, deliberation : Deliberations,
     kind : Kinds, timestamp : Times]

In(s) == {s[i] : i \in DOMAIN s}

\* The entries the next append or append_batch may bring.
NewCalls(made) ==
    LET first == Cardinality(made) + 1
        New(n) == {es \in [1 .. n -> Entry] :
                      \A i \in 1 .. n : es[i].id = first + i - 1 /\ es[i].call = first}
    IN  UNION {New(n) : n \in {m \in BatchSizes : Cardinality(made) + m <= MaxEntries}}

\* The calls made so far: all entries of one call, in the order of making.
PastCalls(made) ==
    {es \in UNION {[1 .. n -> made] : n \in BatchSizes} :
        /\ In(es) = {e \in made : e.call = es[1].call}
        /\ \A i, j \in DOMAIN es : i < j => es[i].id < es[j].id}
-----------------------------------------------------------------------------
\* The queries, on a sequence of the entries of one deliberation.

Positions(s, kind) == {i \in 1 .. Len(s) : s[i].kind = kind}

\* The bag of what s has at some positions.
BagAt(s, at) == [e \in {s[i] : i \in at} |-> Cardinality({i \in at : s[i] = e})]

GetOutcome(s) == LatestAt(s, Positions(s, "outcome"))

\* get_calibration: every proposal, as often as it is held, with the latest
\* outcome of its deliberation.
ScoringPairs(s) == {<<BagAt(s, Positions(s, "proposal")), o>> : o \in GetOutcome(s)}

\* get_all_entries_since, before it sorts.
EntriesSince(s, since) == BagAt(s, {k \in 1 .. Len(s) : s[k].timestamp >= since})
=============================================================================
