----------------------------- MODULE Collectes -----------------------------
(***************************************************************************)
(* Pick-ups at home and collection rounds: a client asks for a pick-up, on *)
(* a round or not, for a parcel or not; the administrator plans it; a      *)
(* courier makes it.  The places of a round are taken by one conditional   *)
(* UPDATE and given back by a cancellation.                                *)
(* The handlers of a pick-up read its row, await, and write it back        *)
(* without a condition.                                                    *)
(***************************************************************************)
EXTENDS Naturals, FiniteSets

CONSTANTS
    Guichets,       \* requests in flight
    Tournees,       \* collection rounds
    Enlevements,    \* pick-ups that may be asked for
    Colis,          \* parcels with collection at home
    Nul,            \* no round, no parcel
    CapaciteMax,    \* bound on the capacity of a round
    EcartsMax       \* bound on the pick-ups two requests write together or that have failed

\* What the model takes of its constants.
HypothesesCollectes ==
    /\ IsFiniteSet(Guichets) /\ IsFiniteSet(Enlevements) /\ IsFiniteSet(Colis)
    /\ Colis \cap Enlevements = {} /\ Nul \notin Tournees \cup Enlevements \cup Colis
    /\ CapaciteMax \in Nat \ {0} /\ EcartsMax \in Nat

VARIABLES
    tournee,        \* rounds: statut, capacite, inscrits
    enlevement,     \* pick-ups: statut, tournee, colis, echec: motifEchec of a failure
    colis,          \* parcels: statut, tournee
    guichet,        \* requests in flight
    reduites,       \* auxiliary: rounds whose capacity went below their inscriptions
    bouscules       \* auxiliary: pick-ups two requests wrote together, or that were asked for
                    \* while their parcel was leaving the waiting list

varsCollectes == <<tournee, enlevement, colis, guichet, reduites, bouscules>>

Absent == "absent"

TRANSITIONS_TOURNEE(s) ==
    CASE s = "brouillon" -> {"ouverte", "annulee"}
      [] s = "ouverte"   -> {"brouillon", "complete", "en_cours", "annulee"}
      [] s = "complete"  -> {"ouverte", "en_cours", "annulee"}
      [] s = "en_cours"  -> {"terminee"}
      [] OTHER           -> {}

TRANSITIONS(s) ==
    CASE s = "demande"  -> {"planifie", "annule"}
      [] s = "planifie" -> {"en_cours", "demande", "annule"}
      [] s = "en_cours" -> {"effectue", "echoue"}
      [] s = "echoue"   -> {"planifie", "annule"}
      [] OTHER          -> {}

Inactif == [etape |-> "libre"]

\* A pick-up that is not asked for yet.
Aucune == [statut |-> Absent, tournee |-> Nul, colis |-> Nul, echec |-> FALSE]

\* The row of a new request.
Nouvelle(t, c) == [statut |-> "demande", tournee |-> t, colis |-> c, echec |-> FALSE]

InitCollectes ==
    /\ tournee = [t \in Tournees |-> [statut |-> Absent, capacite |-> 1, inscrits |-> 0]]
    /\ enlevement = [e \in Enlevements |-> Aucune]
    /\ colis = [c \in Colis |-> [statut |-> Absent, tournee |-> Nul]]
    /\ guichet = [r \in Guichets |-> Inactif]
    /\ reduites = {}
    /\ bouscules = {}

Etape(r, etape) == guichet[r].etape = etape
Debuter(r, suite) == guichet[r] = Inactif /\ guichet' = [guichet EXCEPT ![r] = suite]
Suivre(r, suite) == guichet' = [guichet EXCEPT ![r] = suite]

\* The pick-ups the requests in flight have read.
Lus == {guichet[r].enlevement : r \in {q \in Guichets : Etape(q, "ecrire") \/ Etape(q, "rendre")}}

\* The pick-ups that do not go straight, counted against their bound.
Ecartes(E) == E \cup {e \in Enlevements : enlevement[e].echec}
Bousculer(E) == bouscules' = bouscules \cup E /\ Cardinality(Ecartes(bouscules')) <= EcartsMax

-----------------------------------------------------------------------------
(* Rounds *)

CreerTournee(t, capacite) ==
    /\ tournee[t].statut = Absent
    /\ tournee' = [tournee EXCEPT ![t] =
                      [statut |-> "brouillon", capacite |-> capacite, inscrits |-> 0]]
    /\ UNCHANGED <<enlevement, colis, guichet, reduites, bouscules>>

Existe(t) == tournee[t].statut \notin {Absent, "supprimee"}

\* changerStatut and update: no other handler writes the status or the capacity, and a
\* reservation that read the round before does not ask its status again, so that their read
\* and their write are one step.
ChangerStatutTournee(t) ==
    /\ \E s \in TRANSITIONS_TOURNEE(tournee[t].statut) :
          tournee' = [tournee EXCEPT ![t].statut = s]
    /\ UNCHANGED <<enlevement, colis, guichet, reduites, bouscules>>

ModifierTournee(t, n) ==
    /\ Existe(t) /\ tournee[t].statut \notin {"terminee", "annulee"}
    /\ n # tournee[t].capacite
    /\ tournee' = [tournee EXCEPT ![t].capacite = n]
    /\ reduites' = reduites \cup (IF n < tournee[t].inscrits THEN {t} ELSE {})
    /\ UNCHANGED <<enlevement, colis, guichet, bouscules>>

\* remove: the round had no inscription when it was read.
LireSuppression(r, t) ==
    /\ Existe(t) /\ tournee[t].inscrits = 0
    /\ Debuter(r, [etape |-> "supprimer", tournee |-> t])
    /\ UNCHANGED <<tournee, enlevement, colis, reduites, bouscules>>

SupprimerTournee(r) ==
    /\ Etape(r, "supprimer")
    /\ tournee' = [tournee EXCEPT ![guichet[r].tournee].statut = "supprimee"]
    /\ Suivre(r, Inactif)
    /\ UNCHANGED <<enlevement, colis, reduites, bouscules>>

-----------------------------------------------------------------------------
(* Places *)

\* accepteInscriptions
AccepteInscriptions(t) ==
    tournee[t].statut = "ouverte" /\ tournee[t].inscrits < tournee[t].capacite

\* Variant: the reservation trusts the round read before the transaction.
PlaceALaLecture(t) == Existe(t)

\* UPDATE ... SET "nbInscrits" = "nbInscrits" + 1 WHERE id = t AND "nbInscrits" < "capaciteMax":
\* the status is not asked again.
PlaceRestante(t) == Existe(t) /\ tournee[t].inscrits < tournee[t].capacite

Reserver(t) == IF t = Nul THEN tournee ELSE [tournee EXCEPT ![t].inscrits = @ + 1]

Rendre(t) ==
    IF t = Nul THEN tournee
    ELSE [tournee EXCEPT ![t].inscrits = IF Existe(t) /\ @ > 0 THEN @ - 1 ELSE @]

-----------------------------------------------------------------------------
(* Parcels *)

\* A declaration with collection at home reads the round, then takes the place and opens the
\* pick-up in one transaction.
LireDeclaration(r, c, t) ==
    /\ colis[c].statut = Absent
    /\ t # Nul => AccepteInscriptions(t)
    /\ Debuter(r, [etape |-> "declarer", colis |-> c, tournee |-> t])
    /\ UNCHANGED <<tournee, enlevement, colis, reduites, bouscules>>

Declarer(r, e) ==
    LET q == guichet[r]
    IN /\ Etape(r, "declarer") /\ colis[q.colis].statut = Absent
       /\ enlevement[e].statut = Absent
       /\ q.tournee # Nul => PlaceRestante(q.tournee)
       /\ tournee' = Reserver(q.tournee)
       /\ colis' = [colis EXCEPT ![q.colis] = [statut |-> "en_attente", tournee |-> q.tournee]]
       /\ enlevement' = [enlevement EXCEPT ![e] = Nouvelle(q.tournee, q.colis)]
       /\ Suivre(r, Inactif)
       /\ UNCHANGED <<reduites, bouscules>>

\* Variant: a planned pick-up is left to the courier.
DemandesSeules == {"demande"}

\* The pick-ups a cancelled parcel cancels.
AnnulesAvecLeColis == {"demande", "planifie"}

\* annulerExpedition, one transaction: the place of the parcel and its pick-ups.
AnnulerColis(c) ==
    LET siens == {e \in Enlevements : enlevement[e].colis = c
                                        /\ enlevement[e].statut \in AnnulesAvecLeColis}
    IN /\ colis[c].statut \in {"en_attente", "enlevement_planifie"}
       /\ colis' = [colis EXCEPT ![c].statut = "annule"]
       /\ tournee' = Rendre(colis[c].tournee)
       /\ enlevement' = [e \in Enlevements |->
             IF e \in siens THEN [enlevement[e] EXCEPT !.statut = "annule", !.echec = FALSE] ELSE enlevement[e]]
       /\ Bousculer(siens \cap Lus)
       /\ UNCHANGED <<guichet, reduites>>

\* enregistrerEvenement for a parcel: it moves only from these statuses.
Evenement(c, de, vers) ==
    colis' = IF colis[c].statut \in de THEN [colis EXCEPT ![c].statut = vers] ELSE colis

-----------------------------------------------------------------------------
(* Pick-ups *)

\* The pick-ups of a parcel that are neither cancelled nor failed.
EnCours(c) == {e \in Enlevements : enlevement[e].colis = c
                                     /\ enlevement[e].statut \notin {Absent, "annule", "echoue"}}

\* creerDemande: the parcel still waits and has no pick-up, the round takes inscriptions.  A
\* pick-up with neither touches no other row, and is left out.
LireDemande(r, c, t) ==
    /\ c # Nul \/ t # Nul
    /\ c # Nul => colis[c].statut = "en_attente" /\ EnCours(c) = {}
    /\ t # Nul => AccepteInscriptions(t)
    /\ Debuter(r, [etape |-> "demander", colis |-> c, tournee |-> t])
    /\ UNCHANGED <<tournee, enlevement, colis, reduites, bouscules>>

CreerDemande(r, e) ==
    LET q == guichet[r]
    IN /\ Etape(r, "demander") /\ enlevement[e].statut = Absent
       /\ q.tournee # Nul => PlaceRestante(q.tournee)
       /\ tournee' = Reserver(q.tournee)
       /\ enlevement' = [enlevement EXCEPT ![e] = Nouvelle(q.tournee, q.colis)]
       /\ Bousculer(IF q.colis # Nul /\ colis[q.colis].statut # "en_attente" THEN {e} ELSE {})
       /\ Suivre(r, Inactif)
       /\ UNCHANGED <<colis, reduites>>

\* The statuses each handler accepts, and the one it writes: annulerDemande of the client, and
\* planifier, demarrer, cloturer, annuler of the administrator or the courier.
Suites(par, s) ==
    CASE par = "client"      -> IF s \in {"demande", "planifie", "echoue"} THEN {"annule"} ELSE {}
      [] par = "coursier"    -> TRANSITIONS(s) \cap {"en_cours", "effectue", "echoue"}
      [] par = "admin"       -> TRANSITIONS(s) \cap {"planifie", "annule"}

LireEnlevement(r, e, par) ==
    /\ \E s \in Suites(par, enlevement[e].statut) :
          /\ Debuter(r, [etape |-> "ecrire", enlevement |-> e, statut |-> s, par |-> par])
          /\ s = "echoue" => Cardinality(Ecartes(bouscules \cup {e})) <= EcartsMax
          /\ Bousculer({e} \cap Lus)
    /\ UNCHANGED <<tournee, enlevement, colis, reduites>>

\* Only the cancellation of the client gives the place back, and not that of a parcel.
PlaceARendre(e, par) ==
    par = "client" /\ enlevement[e].tournee # Nul /\ enlevement[e].colis = Nul

\* motifEchec: written by cloturer and left by a later planifier; of no use once the pick-up
\* is over.
Echec(e, s) == s = "echoue" \/ (s \in {"planifie", "en_cours"} /\ enlevement[e].echec)

\* demande.update; what follows is in steps of its own.
EcrireEnlevement(r) ==
    LET q == guichet[r]
        e == q.enlevement
    IN /\ Etape(r, "ecrire")
       /\ enlevement' = [enlevement EXCEPT ![e].statut = q.statut, ![e].echec = Echec(e, q.statut)]
       /\ Suivre(r, IF q.statut = "annule" /\ PlaceARendre(e, q.par)
                      THEN [etape |-> "rendre", enlevement |-> e]
                    ELSE IF q.statut \in {"planifie", "effectue"} /\ enlevement[e].colis # Nul
                      THEN [etape |-> "annoncer", colis |-> enlevement[e].colis, statut |-> q.statut]
                    ELSE Inactif)
       /\ UNCHANGED <<tournee, colis, reduites, bouscules>>

\* ENL_PROG or ENL_OK, recorded on the parcel under its lock; a refusal is swallowed.
AnnoncerEnlevement(r) ==
    LET q == guichet[r]
    IN /\ Etape(r, "annoncer")
       /\ IF q.statut = "planifie" THEN Evenement(q.colis, {"en_attente"}, "enlevement_planifie")
          ELSE Evenement(q.colis, {"en_attente", "enlevement_planifie"}, "enleve")
       /\ Suivre(r, Inactif)
       /\ UNCHANGED <<tournee, enlevement, reduites, bouscules>>

RendrePlace(r) ==
    /\ Etape(r, "rendre")
    /\ tournee' = Rendre(enlevement[guichet[r].enlevement].tournee)
    /\ Suivre(r, Inactif)
    /\ UNCHANGED <<enlevement, colis, reduites, bouscules>>

\* A request fails, or its process stops: what it wrote before stays.
InterrompreEnlevement(r) ==
    /\ guichet[r] # Inactif
    /\ Suivre(r, Inactif)
    /\ UNCHANGED <<tournee, enlevement, colis, reduites, bouscules>>

NextCollectes ==
    \/ \E t \in Tournees :
          \/ ChangerStatutTournee(t)
          \/ \E n \in 1 .. CapaciteMax : CreerTournee(t, n) \/ ModifierTournee(t, n)
    \/ \E c \in Colis : AnnulerColis(c)
    \/ \E r \in Guichets :
          \/ \E t \in Tournees : LireSuppression(r, t)
          \/ SupprimerTournee(r) \/ EcrireEnlevement(r) \/ AnnoncerEnlevement(r)
          \/ RendrePlace(r) \/ InterrompreEnlevement(r)
          \/ \E c \in Colis, t \in Tournees \cup {Nul} : LireDeclaration(r, c, t)
          \/ \E c \in Colis \cup {Nul}, t \in Tournees \cup {Nul} : LireDemande(r, c, t)
          \/ \E e \in Enlevements :
                \/ Declarer(r, e) \/ CreerDemande(r, e)
                \/ \E par \in {"client", "coursier", "admin"} : LireEnlevement(r, e, par)

SpecCollectes == InitCollectes /\ [][NextCollectes]_varsCollectes

-----------------------------------------------------------------------------
(* Properties *)

\* Who counts on a place of t: a parcel declared for it, and a pick-up asked for it on its own.
Places(t) ==
    {c \in Colis : colis[c].tournee = t /\ colis[c].statut # "annule"}
    \cup {e \in Enlevements :
             /\ enlevement[e].tournee = t /\ enlevement[e].statut # "annule"
             /\ enlevement[e].colis # Nul => colis[enlevement[e].colis].tournee # t}

\* "deux inscriptions simultanées ne peuvent pas dépasser la capacité": no more places are
\* counted on than the round has, through inscriptions, cancellations of either side and steps
\* that fail half way; a round whose capacity was reduced or one of whose pick-ups two requests
\* wrote together is set aside.
CapaciteTenue ==
    \A t \in Tournees \ reduites :
        \/ \E e \in bouscules : enlevement[e].tournee = t
        \/ Cardinality(Places(t)) <= tournee[t].capacite

\* A cancelled parcel leaves no pick-up to be made: none is asked for or planned, but one that had
\* failed, which planifier plans again without looking at its parcel ("un échec reste ouvert à une
\* nouvelle planification"); pick-ups two requests wrote together are set aside.
PasDEnlevementSansColis ==
    \A e \in Enlevements \ bouscules :
        /\ enlevement[e].statut \in {"demande", "planifie"}
        /\ enlevement[e].colis # Nul /\ colis[enlevement[e].colis].statut = "annule"
        => enlevement[e].statut = "planifie" /\ enlevement[e].echec

\* Both at once: a round is not overbooked, and nobody is sent for the first time to fetch a
\* parcel that is cancelled.
CollecteTenue == CapaciteTenue /\ PasDEnlevementSansColis
=============================================================================
