-------------------------------- MODULE Dossier -------------------------------
(***************************************************************************)
(* The file of one parcel: the dates and counts that its events set        *)
(* (jalonsTemporels), its timeline, and what the administration and the    *)
(* client correct in it without a lock, while events go through: the point *)
(* of withdrawal, the courier, the description.                            *)
(*                                                                         *)
(* An event is dated when its call starts and recorded under the lock of   *)
(* the parcel; a correction is a load, a write of the changed columns and  *)
(* a line of the timeline, each a statement of its own.                    *)
(***************************************************************************)
EXTENDS EtatsColis, Integers, FiniteSets, FiniteSetsExt

CONSTANTS
    Intervenants,   \* callers in flight
    Faits,          \* codes of the events they record
    Departs,        \* statuses the parcel may have at first
    AppelsMax,      \* bound on the calls, hence on the dates
    Domicile,       \* pointRetraitId of a parcel delivered at home
    PointsRetrait   \* points where it may be withdrawn

PriseEnCharge == {"ENL_OK", "DEPOT", "RECEPTION"}

HypothesesDossier ==
    /\ Faits \subseteq DOMAIN StatutInduit /\ Departs \subseteq Statuts
    /\ AppelsMax \in Nat /\ Domicile \notin PointsRetrait

VARIABLES
    fiche,     \* the row: status, point of withdrawal, courier, taking in charge, attempts
    frise,     \* lines of the timeline
    appel,     \* per caller: the call in flight
    horloge    \* date of the last call

varsDossier == <<fiche, frise, appel, horloge>>

SansAppel ==
    [op |-> "libre", code |-> "INFO", date |-> 0, statut |-> "annule", tentatives |-> 0,
     point |-> Domicile]
Jamais == 0

InitDossier ==
    /\ \E s \in Departs :
          fiche = [statut |-> s, point |-> Domicile, coursier |-> FALSE, pris |-> Jamais,
                   tentatives |-> 0]
    /\ frise = {}
    /\ appel = [a \in Intervenants |-> SansAppel]
    /\ horloge = 0

LigneDeFrise(code, date, statut) ==
    [code |-> code, date |-> date, statut |-> statut, rang |-> Cardinality(frise) + 1]

Appeler(a, op) ==
    /\ appel[a] = SansAppel /\ horloge < AppelsMax
    /\ horloge' = horloge + 1
    /\ appel' = [appel EXCEPT ![a] = [op EXCEPT !.date = horloge + 1, !.statut = fiche.statut,
                                                !.tentatives = fiche.tentatives]]
    /\ UNCHANGED <<fiche, frise>>

-----------------------------------------------------------------------------
(* Events *)

LireFait(a, code) ==
    /\ Permis(fiche.statut, code, "aucun")
    /\ Appeler(a, [SansAppel EXCEPT !.op = "fait", !.code = code])

\* Variant: the attempts counted are those of the row that was loaded.
TentativesDuChargement(a) == appel[a].tentatives

\* nbTentativesLivraison is one of the columns read again under the lock.
TentativesRelues(a) == fiche.tentatives

\* jalonsTemporels
Jalons(a) ==
    LET code == appel[a].code
    IN [fiche EXCEPT
          !.statut = StatutVise(fiche.statut, code, "aucun"),
          !.pris = IF code \in PriseEnCharge /\ @ = Jamais THEN Cardinality(frise) + 1 ELSE @,
          !.tentatives = IF code = "LIV_ECHEC" THEN TentativesRelues(a) + 1 ELSE @]

EnregistrerFait(a) ==
    LET c == appel[a]
    IN /\ c.op = "fait"
       /\ IF Permis(fiche.statut, c.code, "aucun")
          THEN /\ fiche' = Jalons(a)
               /\ frise' = frise \cup
                     {LigneDeFrise(c.code, c.date, StatutVise(fiche.statut, c.code, "aucun"))}
          ELSE UNCHANGED <<fiche, frise>>
       /\ appel' = [appel EXCEPT ![a] = SansAppel]
       /\ UNCHANGED horloge

-----------------------------------------------------------------------------
(* Corrections *)

EnCours == fiche.statut \notin StatutsTerminaux

\* STATUTS_MODIFIABLES_CLIENT
ModifiableParClient ==
    fiche.statut \in {"brouillon", "en_attente_validation", "devis_propose", "en_attente",
                      "enlevement_planifie", "enleve", "receptionne", "en_preparation",
                      "en_transit"}

\* changerPointRetrait, affecterCoursier (whatever the status), ajouterNoteInterne, updateColis
\* and modifierExpedition.
LireCorrection(a, op, point) ==
    /\ op \in {"point", "decrire"} => EnCours
    /\ op = "client" => ModifiableParClient
    /\ Appeler(a, [SansAppel EXCEPT !.op = op, !.point = point])

ChangerPointRetrait(a) ==
    /\ appel[a].op = "point"
    /\ fiche' = [fiche EXCEPT !.point = appel[a].point]
    /\ appel' = [appel EXCEPT ![a].op = "ligne"]
    /\ UNCHANGED <<frise, horloge>>

AffecterCoursier(a) ==
    /\ appel[a].op = "coursier"
    /\ fiche' = [fiche EXCEPT !.coursier = TRUE]
    /\ appel' = [appel EXCEPT ![a] = SansAppel]
    /\ UNCHANGED <<frise, horloge>>

\* Only columns that no event touches are written; the client's correction leaves a line.
Decrire(a) ==
    /\ appel[a].op \in {"decrire", "client"}
    /\ appel' = [appel EXCEPT ![a] = IF appel[a].op = "client" THEN [@ EXCEPT !.op = "ligne"]
                                     ELSE SansAppel]
    /\ UNCHANGED <<fiche, frise, horloge>>

\* The line of a correction is dated when it is written and carries the status that was loaded.
InscrireLigne(a) ==
    /\ appel[a].op \in {"ligne", "note"} /\ horloge < AppelsMax
    /\ horloge' = horloge + 1
    /\ frise' = frise \cup {LigneDeFrise("INFO", horloge + 1, appel[a].statut)}
    /\ appel' = [appel EXCEPT ![a] = SansAppel]
    /\ UNCHANGED fiche

\* The request fails, or the process stops.
Abandonner(a) ==
    /\ appel[a] # SansAppel
    /\ appel' = [appel EXCEPT ![a] = SansAppel]
    /\ UNCHANGED <<fiche, frise, horloge>>

NextDossier ==
    \E a \in Intervenants :
        \/ \E code \in Faits : LireFait(a, code)
        \/ \E op \in {"coursier", "note", "decrire", "client"} : LireCorrection(a, op, Domicile)
        \/ \E p \in PointsRetrait : LireCorrection(a, "point", p)
        \/ EnregistrerFait(a) \/ ChangerPointRetrait(a) \/ AffecterCoursier(a) \/ Decrire(a)
        \/ InscrireLigne(a) \/ Abandonner(a)

SpecDossier == InitDossier /\ [][NextDossier]_varsDossier

-----------------------------------------------------------------------------
(* Properties *)

LignesDEvenement == {l \in frise : l.code # "INFO"}

\* getSuiviPublic orders the lines by their date and shows the label of the last one.
DerniereLigne == CHOOSE l \in LignesDEvenement : \A m \in LignesDEvenement : m.date <= l.date

\* A call that started before another was recorded after it.
Croisement == \E l, m \in LignesDEvenement : l.date < m.date /\ l.rang > m.rang

\* However events and corrections cross: the delivery attempts of the parcel are those of its
\* timeline, the date it was taken in charge is that of the first event that takes it in charge
\* and never moves, and what the public tracking shows last agrees with the status of the
\* parcel, unless a call that started earlier was recorded later.
DossierCoherent ==
    /\ fiche.tentatives = Cardinality({l \in frise : l.code = "LIV_ECHEC"})
    /\ LET prises == {l.rang : l \in {m \in frise : m.code \in PriseEnCharge}}
       IN fiche.pris = (IF prises = {} THEN Jamais ELSE Min(prises))
    /\ LignesDEvenement # {} /\ ~Croisement => DerniereLigne.statut = fiche.statut
=============================================================================
