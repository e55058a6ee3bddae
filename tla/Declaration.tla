---------------------------- MODULE Declaration ----------------------------
(***************************************************************************)
(* The declaration of an expedition, declarerExpedition: the request is    *)
(* checked against the reference data, its files are sent to the storage   *)
(* outside of any transaction, then one transaction inserts the parcel     *)
(* under a tracking number that is counted and not drawn, with its customs *)
(* declaration, its invoice, its pick-up and its place on the round.  When *)
(* a file or the transaction fails, the files already sent are deleted.    *)
(*                                                                         *)
(* Several requests run at once, and the process of any of them may stop.  *)
(* The row of a parcel is inserted before the transaction ends: until then *)
(* another insertion of the same number waits (IntroduireColis).  What a   *)
(* transaction reserves besides, packaging and credit, is in Demandes; its *)
(* refusals are those of Reserver here.                                    *)
(***************************************************************************)
EXTENDS Integers, FiniteSets

CONSTANTS
    Demandeurs,    \* requests, each declares at most one parcel and is named after it
    Demandes,      \* what clients and staff ask for
    Parametres,    \* collecte_domicile_active, plafond_valeur_declaree_xof, taux_change_eur_xof
    Tournees,      \* collection rounds
    Capacite,      \* capaciteMax of each
    Essais,        \* tries of a numbering (3 in the code)
    Neant          \* no round, no point, no date

\* What the model takes of its constants.
HypothesesDeclaration ==
    /\ Neant \notin Tournees
    /\ Capacite \in [Tournees -> Nat \ {0}]
    /\ Essais \in Nat \ {0}

VARIABLES
    requete,       \* requests in flight
    stockage,      \* files in the storage
    declares,      \* rows of the parcels, once committed
    inscrits,      \* nbInscrits of each round
    restes         \* auxiliary: files whose deletion failed, or whose request was stopped

varsDeclaration == <<requete, stockage, declares, inscrits, restes>>

-----------------------------------------------------------------------------
(* Rules of the category *)

Categories == {"documents", "colis_moyen", "colis_xxl"}

REGLES_CATEGORIE ==
    [documents   |-> [validationAdmin |-> FALSE, paiement |-> "a_la_commande", photosMin |-> 1,
                      adresseSenegalDetaillee |-> FALSE],
     colis_moyen |-> [validationAdmin |-> TRUE, paiement |-> "a_la_reception", photosMin |-> 3,
                      adresseSenegalDetaillee |-> TRUE],
     colis_xxl   |-> [validationAdmin |-> TRUE, paiement |-> "apres_acceptation", photosMin |-> 1,
                      adresseSenegalDetaillee |-> TRUE]]

Regles(d) == REGLES_CATEGORIE[d.categorie]
TypeContenu(d) == IF d.categorie = "documents" THEN "document" ELSE d.typeContenu
International(d) == d.depart.pays # d.arrivee.pays
StatutInitial(d) == IF Regles(d).validationAdmin THEN "en_attente_validation" ELSE "en_attente"

-----------------------------------------------------------------------------
(* Controls *)

\* The schema: what a category requires, and a weight or an article of the grid.
BienFormee(d) ==
    /\ d.categorie = "colis_moyen" => d.valeur > 0
    /\ d.categorie = "documents" \/ d.poids > 0 \/ d.articles
    /\ d.modeDepot = "point_collecte" => d.pointDepot # Neant
    /\ d.modeLivraison = "point_retrait" => d.pointRetrait # Neant

ExigencesCategorie(d) ==
    /\ Regles(d).adresseSenegalDetaillee /\ d.arrivee.pays = "SN" => d.adresseDetaillee
    /\ d.source = "client" => d.photos >= Regles(d).photosMin
    /\ d.categorie = "colis_xxl" => d.dimensions

\* The point exists, is open to the public in the right country and renders the service.
PointValide(point, pays, service) ==
    /\ point.ouvert /\ ~point.enMaintenance
    /\ point.pays = pays
    /\ service \in point.services
    /\ service = "depot" => ~point.sature

DepotValide(d) ==
    CASE d.modeDepot = "point_collecte" ->
            /\ PointValide(d.pointDepot, d.depart.pays, "depot")
            /\ d.pointDepot.poidsMax # 0 => d.poids <= d.pointDepot.poidsMax
      [] d.modeDepot = "enlevement_domicile" ->
            Parametres.collecteActive /\ d.depart.enlevement /\ d.adresseDepart
      [] d.modeDepot = "boite_aux_lettres" -> d.adresseDepart
      [] OTHER -> TRUE

LivraisonValide(d) ==
    IF d.modeLivraison = "point_retrait"
    THEN PointValide(d.pointRetrait, d.arrivee.pays, "retrait")
    ELSE d.arrivee.livraison /\ d.adresseLivraison

\* estCorridorAutorise: France and Senegal, one to the other or within one of them.
Corridor == {"FR", "SN"}

DemandeValide(d) ==
    /\ {d.depart.pays, d.arrivee.pays} \subseteq Corridor
    /\ DepotValide(d) /\ LivraisonValide(d)
    /\ d.dangereuse => d.service.marchandise

\* The round of a collection at home; another mode of deposit forgets it.
TourneeDe(d) == IF d.modeDepot = "enlevement_domicile" THEN d.tournee ELSE Neant

TourneeValide(d) ==
    TourneeDe(d) # Neant =>
        d.desservie /\ inscrits[TourneeDe(d)] < Capacite[TourneeDe(d)]

ValeurXof(d) ==
    IF d.devise = "XOF" THEN d.valeur ELSE d.valeur * Parametres.tauxChange

SousPlafond(d) == Parametres.plafond > 0 => ValeurXof(d) <= Parametres.plafond

-----------------------------------------------------------------------------
(* Requests *)

Disponible == [etape |-> "libre"]
Faite == [etape |-> "faite"]
SansColis == [numero |-> 0]

A(r, etape) == requete[r].etape = etape
Passer(r, suite) == requete' = [requete EXCEPT ![r] = suite]
EnInstance(r) == requete[r].etape \notin {"libre", "faite"}

\* The files a request joins: the photos, numbered, and the voice message, 0.
Fichiers(r, d) == {<<r, i>> : i \in (1 .. d.photos) \cup (IF d.vocal THEN {0} ELSE {})}

Existe(c) == declares[c] # SansColis

\* Numbers share the client, the container and the day: the category tells them apart.
Serie(d) == d.categorie
Numerotes(s) == {c \in Demandeurs : Existe(c) /\ Serie(declares[c].demande) = s}
Enregistres(t) == {c \in Demandeurs : Existe(c) /\ declares[c].tournee = t}

InitDeclaration ==
    /\ requete = [r \in Demandeurs |-> Disponible]
    /\ stockage = {}
    /\ declares = [c \in Demandeurs |-> SansColis]
    /\ inscrits = [t \in Tournees |-> 0]
    /\ restes = {}

\* The reference data are read, without a lock, and the request is checked against them.
Soumettre(r, d) ==
    /\ requete[r] = Disponible
    /\ BienFormee(d) /\ d.service.actif
    /\ ExigencesCategorie(d) /\ DemandeValide(d) /\ TourneeValide(d) /\ SousPlafond(d)
    /\ Passer(r, [etape |-> "lue", demande |-> d])
    /\ UNCHANGED <<stockage, declares, inscrits, restes>>

\* allSettled: every file is sent, whatever becomes of the others.
Televerser(r) ==
    LET d == requete[r].demande
    IN /\ A(r, "lue")
       /\ \E envoyes \in SUBSET Fichiers(r, d) :
             /\ stockage' = stockage \cup envoyes
             /\ Passer(r, IF envoyes = Fichiers(r, d)
                          THEN [etape |-> "numeroter", demande |-> d, essai |-> 1]
                          ELSE [etape |-> "nettoyer", fichiers |-> envoyes])
       /\ UNCHANGED <<declares, inscrits, restes>>

\* Variant: only the photos are deleted.
ANettoyerSansVocal(r) == {f \in requete[r].fichiers : f[2] # 0}

ANettoyer(r) == requete[r].fichiers

\* deleteFile never fails: a file the storage refuses to delete is left there.
Nettoyer(r) ==
    /\ A(r, "nettoyer")
    /\ \E refuses \in SUBSET ANettoyer(r) :
          /\ stockage' = stockage \ (ANettoyer(r) \ refuses)
          /\ restes' = restes \cup refuses
    /\ Passer(r, Faite)
    /\ UNCHANGED <<declares, inscrits>>

-----------------------------------------------------------------------------
(* The transaction *)

\* genererNumeroSuiviYobante: one more than the committed parcels of the series.
Numeroter(r) ==
    LET q == requete[r]
    IN /\ A(r, "numeroter")
       /\ Passer(r, [etape |-> "inserer", demande |-> q.demande, essai |-> q.essai,
                      numero |-> Cardinality(Numerotes(Serie(q.demande))) + 1])
       /\ UNCHANGED <<stockage, declares, inscrits, restes>>

Pris(s, n) == \E c \in Numerotes(s) : declares[c].numero = n

\* The insertion waits while another transaction holds the number.
Tenu(r) ==
    \E q \in Demandeurs \ {r} :
        /\ A(q, "inseree")
        /\ requete[q].numero = requete[r].numero
        /\ Serie(requete[q].demande) = Serie(requete[r].demande)

Echouer(r) == Passer(r, [etape |-> "nettoyer", fichiers |-> Fichiers(r, requete[r].demande)])

\* creerAvecReference, under a savepoint: a number taken meanwhile is counted again.
IntroduireColis(r) ==
    LET q == requete[r]
    IN /\ A(r, "inserer") /\ ~Tenu(r)
       /\ IF ~Pris(Serie(q.demande), q.numero)
          THEN Passer(r, [q EXCEPT !.etape = "inseree"])
          ELSE IF q.essai < Essais
               THEN Passer(r, [etape |-> "numeroter", demande |-> q.demande, essai |-> q.essai + 1])
               ELSE Echouer(r)
       /\ UNCHANGED <<stockage, declares, inscrits, restes>>

\* Goods that cross the border are declared to customs; documents are not.
DouaneRequise(d) == International(d) /\ TypeContenu(d) # "document"

FactureImmediate(d) == Regles(d).paiement = "a_la_commande" /\ d.total > 0

\* A pick-up is opened on the date wished for, or on that of the round.
EnlevementOuvert(d) ==
    d.modeDepot = "enlevement_domicile" /\ (d.date # Neant \/ TourneeDe(d) # Neant)

\* Variant: the place is taken whatever has been taken since the round was read.
PlaceALaLecture(t) == TRUE

\* UPDATE ... WHERE "nbInscrits" < "capaciteMax"
PlaceRestante(t) == t # Neant => inscrits[t] < Capacite[t]

LigneColis(r) ==
    LET d == requete[r].demande
    IN [numero |-> requete[r].numero, demande |-> d, statut |-> StatutInitial(d),
        tournee |-> TourneeDe(d), fichiers |-> Fichiers(r, d),
        douane |-> DouaneRequise(d), facture |-> FactureImmediate(d),
        enlevement |-> EnlevementOuvert(d)]

\* The rest of the transaction and its commit.
Valider(r) ==
    LET t == TourneeDe(requete[r].demande)
    IN /\ A(r, "inseree") /\ PlaceRestante(t)
       /\ declares' = [declares EXCEPT ![r] = LigneColis(r)]
       /\ inscrits' = IF t = Neant THEN inscrits ELSE [inscrits EXCEPT ![t] = @ + 1]
       /\ Passer(r, Faite)
       /\ UNCHANGED <<stockage, restes>>

\* A round that is full, or packaging or credit that ran out: nothing is kept.
Reserver(r) ==
    LET d == requete[r].demande
    IN /\ A(r, "inseree")
       /\ ~PlaceRestante(TourneeDe(d)) \/ d.reservations
       /\ Echouer(r)
       /\ UNCHANGED <<stockage, declares, inscrits, restes>>

-----------------------------------------------------------------------------
(* The process of some requests stops: their transactions are rolled back, the files they *)
(* have sent stay.                                                                         *)

Stockes(R) == {f \in stockage : f[1] \in R}

Arreter(R) ==
    /\ R # {} /\ \A r \in R : EnInstance(r)
    /\ requete' = [r \in Demandeurs |-> IF r \in R THEN Faite ELSE requete[r]]
    /\ restes' = restes \cup Stockes(R)
    /\ UNCHANGED <<stockage, declares, inscrits>>

NextDeclaration ==
    \/ \E r \in Demandeurs :
          \/ \E d \in Demandes : Soumettre(r, d)
          \/ Televerser(r) \/ Nettoyer(r)
          \/ Numeroter(r) \/ IntroduireColis(r) \/ Valider(r) \/ Reserver(r)
    \/ \E R \in SUBSET Demandeurs : Arreter(R)

SpecDeclaration == InitDeclaration /\ [][NextDeclaration]_varsDeclaration

-----------------------------------------------------------------------------
(* Properties *)

\* "afin de ne jamais laisser de fichier orphelin": a file in the storage belongs to a parcel,
\* to a request in flight, or was left by a deletion that failed or a process that stopped;
\* and every file of a parcel is there.
FichiersSuivis ==
    /\ \A f \in stockage \ restes :
          (Existe(f[1]) /\ f \in declares[f[1]].fichiers) \/ EnInstance(f[1])
    /\ \A c \in Demandeurs : Existe(c) => declares[c].fichiers \subseteq stockage

\* Whatever requests cross, wait for each other's number, fail or stop: the parcels of a
\* series are numbered 1 to n without a gap or a double, and a round counts exactly the
\* parcels that were declared for it, within its capacity.
DeclarationsEntieres ==
    /\ \A s \in Categories :
          {declares[c].numero : c \in Numerotes(s)} = 1 .. Cardinality(Numerotes(s))
    /\ \A t \in Tournees :
          inscrits[t] = Cardinality(Enregistres(t)) /\ inscrits[t] <= Capacite[t]

\* Both at once: a declaration leaves its files and its numbers as they should be.
DeclarationJuste == FichiersSuivis /\ DeclarationsEntieres
=============================================================================
