----------------------------- MODULE MCTransport -----------------------------
(***************************************************************************)
(* A small instance of Transport for TLC: two runs, two peer URLs, one     *)
(* agent with a token of its own and one under the wildcard, and a         *)
(* deployment that lists its own URL among the peers.                      *)
(***************************************************************************)
EXTENDS Transport, TLC

CONSTANTS self, a, b, u, v, home, r1, r2

MCPeerLists == {<<u, v>>, <<home, u>>}

MCBearer == (self :> "s") @@ (a :> "t") @@ (b :> "w")

MCPeerTokens == (self :> "s") @@ (a :> "t") @@ ("*" :> "w")

Symmetry == Permutations({r1, r2})
=============================================================================
