----------------------------- MODULE EtatsColis -----------------------------
(***************************************************************************)
(* The state machine of a parcel (config/colis.js) and the two checks that *)
(* the tracking engine makes of it: constant operators, shared by the      *)
(* modules whose steps record tracking events.                             *)
(***************************************************************************)

Transitions ==
    [brouillon |-> {"en_attente", "en_attente_validation", "annule"},
     en_attente_validation |-> {"en_attente", "devis_propose", "refuse", "annule"},
     devis_propose |-> {"en_attente", "refuse", "annule"},
     en_attente |-> {"enlevement_planifie", "enleve", "receptionne", "annule"},
     enlevement_planifie |-> {"enleve", "en_attente", "annule"},
     enleve |-> {"receptionne", "incident", "annule"},
     receptionne |-> {"en_preparation", "incident", "annule"},
     en_preparation |-> {"en_transit", "en_douane", "incident", "annule"},
     en_transit |-> {"en_douane", "arrive", "incident"},
     en_douane |-> {"en_transit", "arrive", "incident", "retourne"},
     arrive |-> {"disponible_retrait", "en_livraison", "en_douane", "incident"},
     disponible_retrait |-> {"recupere", "en_livraison", "retourne", "incident"},
     en_livraison |-> {"livre", "disponible_retrait", "incident"},
     incident |-> {"receptionne", "en_preparation", "en_transit", "en_livraison",
                   "disponible_retrait", "retourne", "annule"},
     livre |-> {}, recupere |-> {}, retourne |-> {}, annule |-> {}, refuse |-> {}]

Statuts == DOMAIN Transitions
StatutsTerminaux == {"livre", "recupere", "retourne", "annule", "refuse"}
HorsPoint == {"en_transit", "en_livraison"}

\* Status that each code induces, "aucun" for the informative ones.
StatutInduit ==
    [CRE |-> "en_attente", SOUMIS |-> "en_attente_validation", VALIDE |-> "en_attente",
     DEVIS_PROPOSE |-> "devis_propose", DEVIS_ACCEPTE |-> "en_attente",
     DEVIS_REFUSE |-> "refuse", DEMANDE_REFUSEE |-> "refuse",
     ENL_PROG |-> "enlevement_planifie", ENL_OK |-> "enleve", ENL_ECHEC |-> "aucun",
     DEPOT |-> "receptionne", RECEPTION |-> "receptionne", TRI |-> "en_preparation",
     MANIFESTE |-> "en_preparation", DOUANE_EXP |-> "en_douane",
     DEPART_HUB |-> "en_transit", EN_TRANSIT |-> "en_transit", ARR_PAYS |-> "arrive",
     DOUANE_IMP |-> "en_douane", DOUANE_OK |-> "arrive", DOUANE_BLOC |-> "incident",
     ARR_AGENCE |-> "arrive", DISPO |-> "disponible_retrait",
     EN_LIVRAISON |-> "en_livraison", LIV_ECHEC |-> "aucun", LIVRE |-> "livre",
     RETIRE |-> "recupere", REFUSE |-> "incident", RETOUR |-> "retourne",
     PERDU |-> "incident", AVARIE |-> "incident", RETARD |-> "aucun", INFO |-> "aucun",
     ANNULE |-> "annule"]

\* `depuis`: the addressee refuses only a parcel that reached him.
EtapesDuRefus == {"arrive", "disponible_retrait", "en_livraison"}

-----------------------------------------------------------------------------
(* The checks of an event on a parcel whose status is given *)

\* The status a code leads to; `force` is the status the caller imposes, or "aucun".
StatutVise(statut, code, force) ==
    IF force # "aucun" THEN force
    ELSE IF StatutInduit[code] # "aucun" THEN StatutInduit[code] ELSE statut

\* verifierTransition
TransitionPermise(de, vers) ==
    \/ vers = de
    \/ de \notin StatutsTerminaux /\ vers \in Transitions[de]

\* verifierEtapeEvenement, then verifierTransition
Permis(statut, code, force) ==
    /\ code = "REFUSE" => statut \in EtapesDuRefus
    /\ TransitionPermise(statut, StatutVise(statut, code, force))

\* How far a parcel is.
PhaseDe(statut) ==
    CASE statut \in {"brouillon", "en_attente_validation", "devis_propose", "en_attente",
                     "enlevement_planifie"} -> "a_confier"
      [] statut \in {"livre", "recupere"} -> "remis"
      [] statut = "retourne" -> "retourne"
      [] statut \in {"annule", "refuse"} -> "sans_suite"
      [] OTHER -> "confie"
=============================================================================
