------------------------------- MODULE MCReseau -------------------------------
(***************************************************************************)
(* The network on small instances: the stock of the collection points, and *)
(* the rotations.  They share no row in these instances: the run explores  *)
(* their sum, not their product.  `partie` names the part that moves; the  *)
(* variables of the other stay as they start.                              *)
(***************************************************************************)
EXTENDS StockPoints, Rotation, TLC

CONSTANTS c1, c2, n1, n2, a1, o1, o2, Parties

VARIABLE partie

ASSUME HypothesesReseau == Hypotheses /\ HypothesesRotations

\* One start of the other part is enough while a part rests.
Depart ==
    /\ InitPoints /\ InitRotations
    /\ partie \in Parties
    /\ partie = "points" \/ \A c \in Colis : colis[c].statut = "en_attente" /\ ~colis[c].code
    /\ partie = "rotations" \/ \A c \in Cargaison : statut[c] = "receptionne"

Suite ==
    \/ partie = "points" /\ NextPoints /\ UNCHANGED <<partie, varsRotations>>
    \/ partie = "rotations" /\ NextRotations /\ UNCHANGED <<partie, varsPoints>>

SpecParties == Depart /\ [][Suite]_<<partie, varsPoints, varsRotations>>

-----------------------------------------------------------------------------
\* n1 and n2 stand for the points or the agents, a1 for the one caller of the engine.
MCColis == {c1, c2}
MCPoints == {n1, n2}
MCAgents == {n1, n2}
MCActeurs == {a1}
MCRotations == {o1, o2}
\* One rotation that a single parcel fills, one that takes both.
MCCapacite == (o1 :> 1) @@ (o2 :> 2)

Symetrie == Permutations({c1, c2}) \cup Permutations({n1, n2})
=============================================================================
