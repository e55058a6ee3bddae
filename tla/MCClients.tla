------------------------------- MODULE MCClients ------------------------------
(***************************************************************************)
(* What reaches a client besides his parcels, on small instances: the      *)
(* invoice and the messages that an event sets off, the collection at      *)
(* home, his address book and the deletion of his account.  They share no  *)
(* row in these instances: the run explores their sum, not their product.  *)
(* `partie` names the part that moves; the others stay as they start.      *)
(***************************************************************************)
EXTENDS Effets, Collectes, Compte, TLC

CONSTANTS s1, s2, t1, e1, e2, c1, g1, Parties

VARIABLE partie

ASSUME HypothesesClients == Hypotheses /\ HypothesesCollectes /\ HypothesesCompte

EffetsAuRepos ==
    paiement = "a_la_reception" /\ ~chiffre /\ \A a \in Abonnes : abonnement[a] = "aucun"

Depart ==
    /\ Init /\ InitCollectes /\ InitCompte
    /\ partie \in Parties
    /\ partie # "effets" => EffetsAuRepos

Suite ==
    \/ partie = "effets" /\ Next /\ UNCHANGED <<partie, varsCollectes, varsCompte>>
    \/ partie = "collecte" /\ NextCollectes /\ UNCHANGED <<partie, vars, varsCompte>>
    \/ partie = "compte" /\ NextCompte /\ UNCHANGED <<partie, vars, varsCollectes>>

SpecParties == Depart /\ [][Suite]_<<partie, vars, varsCollectes, varsCompte>>

-----------------------------------------------------------------------------
\* Two requests in flight; e1 and e2 stand for pick-ups or addresses.
MCRequetes == {s1, s2}
MCTournees == {t1}
MCEnlevements == {e1, e2}
MCColis == {c1}

Symetrie == Permutations({s1, s2}) \cup Permutations({e1, e2})
=============================================================================
