--------------------------- MODULE MCFacturation ---------------------------
(***************************************************************************)
(* A small instance of the invoices for TLC, for what the documentation    *)
(* says of a payment; MCGestion checks the other properties.               *)
(***************************************************************************)
EXTENDS Facturation, TLC

CONSTANTS f1, p1, p2, v1, v2, a1, a2

MCFactures == {f1}
MCPaiements == {p1, p2}
MCAvoirs == {v1, v2}
MCAgents == {a1, a2}

Symetrie == Permutations(MCPaiements) \cup Permutations(MCAvoirs) \cup Permutations(MCAgents)
=============================================================================
