--------------------------- MODULE JournalQueries ---------------------------
(***************************************************************************)
(* The order in which the stores return entries, and the two ways in which *)
(* they pick the outcome that counts: max() over a list (jsonl.py,         *)
(* snapshot.py, get_outcome of both) and one scan (get_calibration of      *)
(* sqlite.py).  An outcome is given as a set of at most one entry.         *)
(***************************************************************************)
EXTENDS Naturals, Sequences, FiniteSets, SequencesExt

\* The elements of s at some positions, arranged by an order of the positions.
Arranged(s, at, Before(_, _)) ==
    LET places == 1 .. Cardinality(at)
        order == CHOOSE p \in [places -> at] :
                     \A k, l \in places : k < l => Before(p[k], p[l])
    IN  [k \in places |-> s[order[k]]]

\* entries.sort(key=timestamp), which is stable.
Sorted(s) ==
    LET Before(i, j) ==
            \/ s[i].timestamp < s[j].timestamp
            \/ s[i].timestamp = s[j].timestamp /\ i < j
    IN  Arranged(s, 1 .. Len(s), Before)

\* (mutant)
LastAt(s, at) == {s[i] : i \in {k \in at : \A j \in at : j <= k}}

\* max(outcomes, key=timestamp), of those at some positions: the first of the
\* latest ones, or nothing.
LatestAt(s, at) ==
    {s[i] : i \in {k \in at : \A j \in at :
                      /\ s[j].timestamp <= s[k].timestamp
                      /\ j < k => s[j].timestamp # s[k].timestamp}}

Latest(outcomes) == LatestAt(outcomes, 1 .. Len(outcomes))

\* (mutant)
NotEarlier(e, outcome) == \A o \in outcome : e.timestamp >= o.timestamp

Later(e, outcome) == \A o \in outcome : e.timestamp > o.timestamp

\* The latest outcome so far, kept while the rows go by.
Scanned(outcomes) ==
    FoldLeft(LAMBDA outcome, e : IF Later(e, outcome) THEN {e} ELSE outcome, {}, outcomes)
=============================================================================
