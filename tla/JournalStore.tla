---------------------------- MODULE JournalStore ----------------------------
(***************************************************************************)
(* What a journal store promises whoever appends to it (store.py): what it *)
(* holds of a deliberation only grows at the end, and an entry whose       *)
(* append returned is held from then on, whatever fails and however often  *)
(* the process starts again.  A store that a write has broken, and only    *)
(* that, is free of the promise, for ever.                                 *)
(*                                                                         *)
(* The protocol says nothing of an entry that is appended again.  A store  *)
(* that keys its entries holds it once, the other as often as it is        *)
(* appended: Once tells them apart.                                        *)
(***************************************************************************)
EXTENDS JournalEntries

CONSTANT Once   \* is an entry held once, however often it is appended?

VARIABLES
    log,    \* the entries held of each deliberation, in the order they came
    acked,  \* the entries whose append has returned
    broken

Held(l) == UNION {In(l[d]) : d \in Deliberations}

Init ==
    /\ log = [d \in Deliberations |-> <<>>]
    /\ acked = {}
    /\ broken = FALSE

Take ==
    /\ ~broken /\ ~broken'
    /\ DOMAIN log' = Deliberations
    /\ \A d \in Deliberations : /\ IsPrefix(log[d], log'[d])
                                /\ Once => IsInjective(log'[d])
    /\ acked \subseteq acked'
    /\ acked' \subseteq Held(log')

Break == broken'

Spec == Init /\ [][Take \/ Break]_<<log, acked, broken>>
=============================================================================
