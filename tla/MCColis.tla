------------------------------- MODULE MCColis --------------------------------
(***************************************************************************)
(* The life of a parcel on small instances: its declaration and numbering, *)
(* its timeline, its review, its claims and its files, and the reference   *)
(* data and caches it rests on.  The parts share no row in these           *)
(* instances: the run explores their sum, not their product.  `partie`     *)
(* names the part that moves; the others stay as they start.  Territoire   *)
(* stops at the first crossing, from where its property says nothing.      *)
(***************************************************************************)
EXTENDS Reclamations, Declaration, Territoire, Caches, References, Dossier, Evaluations, Fichiers,
        TLC

CONSTANTS s1, s2, s3, p1, p2, c1, g1, t1, l1, l2, Parties

VARIABLE partie

ASSUME HypothesesColis ==
    /\ Hypotheses /\ HypothesesDeclaration /\ HypothesesTerritoire /\ HypothesesCaches
    /\ HypothesesReferences /\ HypothesesDossier /\ HypothesesEvaluations /\ HypothesesFichiers

\* A part that does not move starts in one state.
AuRepos ==
    /\ partie # "references" => sequence = Rien
    /\ partie # "caches" => genre = "faq"
    /\ partie # "dossier" => fiche.statut = "en_attente"
    /\ partie # "fichiers" => ~partage /\ \A l \in Lignes : champ[l] = Aucun

Depart ==
    /\ Init /\ InitDeclaration /\ InitTerritoire /\ InitCaches
    /\ InitReferences /\ InitDossier /\ InitEvaluations /\ InitFichiers
    /\ partie \in Parties
    /\ AuRepos

\* What the first four parts hold, and the last four.
premieres == <<vars, varsDeclaration, varsTerritoire, varsCaches>>
secondes == <<varsReferences, varsDossier, varsEvaluations, varsFichiers>>

Suite ==
    \/ partie = "reclamations" /\ Next
       /\ UNCHANGED <<partie, varsDeclaration, varsTerritoire, varsCaches, secondes>>
    \/ partie = "declaration" /\ NextDeclaration
       /\ UNCHANGED <<partie, vars, varsTerritoire, varsCaches, secondes>>
    \/ partie = "territoire" /\ ~croisees /\ NextTerritoire
       /\ UNCHANGED <<partie, vars, varsDeclaration, varsCaches, secondes>>
    \/ partie = "caches" /\ NextCaches
       /\ UNCHANGED <<partie, vars, varsDeclaration, varsTerritoire, secondes>>
    \/ partie = "references" /\ NextReferences
       /\ UNCHANGED <<partie, varsDossier, varsEvaluations, varsFichiers, premieres>>
    \/ partie = "dossier" /\ NextDossier
       /\ UNCHANGED <<partie, varsReferences, varsEvaluations, varsFichiers, premieres>>
    \/ partie = "avis" /\ NextEvaluations
       /\ UNCHANGED <<partie, varsReferences, varsDossier, varsFichiers, premieres>>
    \/ partie = "fichiers" /\ NextFichiers
       /\ UNCHANGED <<partie, varsReferences, varsDossier, varsEvaluations, premieres>>

SpecParties == Depart /\ [][Suite]_<<partie, premieres, secondes>>

-----------------------------------------------------------------------------
\* Two requests in flight together, three declarations; p1 and p2 stand for processes or claims.
MCClients == {s1, s2}
MCDemandeurs == {s1, s2, s3}
MCProcessus == {p1, p2}

\* A field whose old file is deleted after the write, one where it is deleted before.
MCLignes == {l1, l2}
MCGenre == l1 :> "apres" @@ l2 :> "avant"

\* One zone of cities, in France.
MCZones == {t1}
MCPaysDe == [z \in {t1} |-> "FR"]

-----------------------------------------------------------------------------
(* Three declarations in flight, of two kinds: documents that leave from a collection     *)
(* point and wait in one, and a parcel collected at home by the only round.  The others   *)
(* are refused, each for a reason of its own.                                              *)

MCTournees == {t1}
MCCapacite == [t \in {t1} |-> 1]
MCParametres == [collecteActive |-> TRUE, plafond |-> 1000000, tauxChange |-> 656]

France == [pays |-> "FR", enlevement |-> TRUE, livraison |-> TRUE]
Senegal == [pays |-> "SN", enlevement |-> FALSE, livraison |-> TRUE]
Express == [actif |-> TRUE, marchandise |-> TRUE]

Point(pays) ==
    [ouvert |-> TRUE, enMaintenance |-> FALSE, pays |-> pays, services |-> {"depot", "retrait"},
     sature |-> FALSE, poidsMax |-> 20]

Documents ==
    [categorie |-> "documents", typeContenu |-> "document", depart |-> France,
     arrivee |-> Senegal, modeDepot |-> "point_collecte", pointDepot |-> Point("FR"),
     modeLivraison |-> "point_retrait", pointRetrait |-> Point("SN"), tournee |-> Neant,
     desservie |-> TRUE, date |-> Neant, adresseDepart |-> FALSE, adresseLivraison |-> FALSE,
     adresseDetaillee |-> TRUE, photos |-> 1, vocal |-> FALSE, source |-> "client", poids |-> 1,
     articles |-> FALSE, valeur |-> 10, devise |-> "EUR", dimensions |-> FALSE,
     dangereuse |-> FALSE, service |-> Express, total |-> 20, reservations |-> TRUE]

Volumineux ==
    [Documents EXCEPT !.categorie = "colis_xxl", !.typeContenu = "colis",
        !.modeDepot = "enlevement_domicile", !.pointDepot = Neant, !.tournee = t1,
        !.adresseDepart = TRUE, !.modeLivraison = "domicile", !.pointRetrait = Neant,
        !.adresseLivraison = TRUE, !.vocal = TRUE, !.dimensions = TRUE, !.poids = 30]

Refusees ==
    {[Documents EXCEPT !.modeDepot = "boite_aux_lettres"],
     [Documents EXCEPT !.pointDepot = [Point("FR") EXCEPT !.sature = TRUE]],
     [Documents EXCEPT !.poids = 25],
     [Documents EXCEPT !.valeur = 2000],
     [Documents EXCEPT !.dangereuse = TRUE, !.service = [Express EXCEPT !.marchandise = FALSE]],
     [Documents EXCEPT !.modeDepot = "envoi_postal", !.modeLivraison = "domicile"],
     [Volumineux EXCEPT !.desservie = FALSE]}

MCDeclarations == {Documents, Volumineux} \cup Refusees

Symetrie == Permutations({s1, s2}) \cup Permutations({p1, p2})
=============================================================================
