------------------------------ MODULE Evaluations -----------------------------
(***************************************************************************)
(* Reviews of one parcel: who may write one (its sender, and its addressee *)
(* once his number is verified), their moderation, their removal, and the  *)
(* summary that each process serves for TTL_PUBLIC.                        *)
(*                                                                         *)
(* A moderation loads the review, then writes the columns that differ from *)
(* what it loaded.                                                         *)
(***************************************************************************)
EXTENDS Naturals, FiniteSets

CONSTANTS
    Envois,        \* requests that deposit a review
    Moderateurs,
    TTL_PUBLIC,    \* how long the summary is served
    DureeLecture,  \* bound on the time between the query of the summary and its end
    DepotsMax,     \* bound on the reviews deposited
    VersionsMax,   \* bound on the changes of what is published
    Obligatoire,   \* verification_telephone_obligatoire
    SansAvis       \* no review, no summary

Evaluateurs == {"expediteur", "destinataire"}

HypothesesEvaluations ==
    /\ TTL_PUBLIC \in Nat \ {0} /\ DureeLecture \in Nat
    /\ DepotsMax \in Nat /\ VersionsMax \in Nat
    /\ Obligatoire \in BOOLEAN

VARIABLES
    livre,       \* the parcel reached its addressee
    verifie,     \* the addressee's number is verified
    envoi,       \* deposits in flight
    avis,        \* per client: his review, or SansAvis
    deposes,
    moderation,  \* moderations in flight
    disputes,    \* clients on whose review the last moderations crossed
    edition,     \* number of changes of the published reviews
    lecture,     \* the query of the summary in flight: the version it read, its age
    synthese,    \* the cached summary: the version it shows, its remaining time
    desuete      \* time since each version was replaced, up to RetardMax + 1

public == <<lecture, synthese, desuete>>
varsEvaluations ==
    <<livre, verifie, envoi, avis, deposes, moderation, disputes, edition, public>>

RetardMax == TTL_PUBLIC + DureeLecture

Aucune == [client |-> "aucun"]

InitEvaluations ==
    /\ livre = FALSE /\ verifie = FALSE
    /\ envoi = [e \in Envois |-> "aucun"]
    /\ avis = [c \in Evaluateurs |-> SansAvis]
    /\ deposes = 0
    /\ moderation = [m \in Moderateurs |-> Aucune]
    /\ disputes = {}
    /\ edition = 0
    /\ lecture = SansAvis /\ synthese = SansAvis
    /\ desuete = [v \in 0 .. VersionsMax |-> 0]

Livrer ==
    /\ ~livre /\ livre' = TRUE
    /\ UNCHANGED <<verifie, envoi, avis, deposes, moderation, disputes, edition, public>>

\* The number is verified, or changes.
VerifierNumero ==
    /\ verifie' = ~verifie
    /\ UNCHANGED <<livre, envoi, avis, deposes, moderation, disputes, edition, public>>

-----------------------------------------------------------------------------
(* deposer, supprimerMonAvis *)

\* Variant: every addressee whose number is known.
AccesSansVerification(c) == TRUE

\* conditionsColisDuClient: what is sent, and what is received at a number that is verified.
Acces(c) == c = "destinataire" => ~Obligatoire \/ verifie

LireDepot(e, c) ==
    /\ envoi[e] = "aucun" /\ deposes < DepotsMax
    /\ Acces(c) /\ livre
    /\ envoi' = [envoi EXCEPT ![e] = c]
    /\ deposes' = deposes + 1
    /\ UNCHANGED <<livre, verifie, avis, moderation, disputes, edition, public>>

\* (colisId, userId) is UNIQUE: a second review is refused.
Deposer(e) ==
    LET c == envoi[e]
    IN /\ c # "aucun"
       /\ avis' = IF avis[c] # SansAvis THEN avis
                  ELSE [avis EXCEPT ![c] = [statut |-> "en_attente", motif |-> FALSE,
                                            modere |-> FALSE]]
       /\ envoi' = [envoi EXCEPT ![e] = "aucun"]
       /\ UNCHANGED <<livre, verifie, deposes, moderation, disputes, edition, public>>

\* What is published changes by one version.
Publication(avant, apres) ==
    LET publie(a) == a # SansAvis /\ a.statut = "publie"
    IN IF publie(avant) = publie(apres) THEN UNCHANGED edition
       ELSE edition < VersionsMax /\ edition' = edition + 1

\* By its author or by an administrator.
SupprimerAvis(c) ==
    /\ avis[c] # SansAvis
    /\ avis' = [avis EXCEPT ![c] = SansAvis]
    /\ Publication(avis[c], SansAvis)
    /\ moderation' = [m \in Moderateurs |->
          IF moderation[m].client = c THEN Aucune ELSE moderation[m]]
    /\ disputes' = disputes \ {c}
    /\ UNCHANGED <<livre, verifie, envoi, deposes, public>>

-----------------------------------------------------------------------------
(* moderer *)

LireModeration(m, c, statut) ==
    /\ moderation[m] = Aucune /\ avis[c] # SansAvis
    /\ moderation' = [moderation EXCEPT ![m] = [client |-> c, lu |-> avis[c], statut |-> statut]]
    /\ UNCHANGED <<livre, verifie, envoi, avis, deposes, disputes, edition, public>>

Ecrit(lu, valeur, actuel) == IF lu = valeur THEN actuel ELSE valeur

\* Variant: the reason given before stays when the review is published.
MotifGarde(lu, statut) == IF statut = "rejete" THEN TRUE ELSE lu

\* A reason goes with a rejection, and with it alone.
MotifApres(lu, statut) == statut = "rejete"

Moderer(m) ==
    LET d == moderation[m]
        a == avis[d.client]
        apres == [statut |-> Ecrit(d.lu.statut, d.statut, a.statut),
                  motif |-> Ecrit(d.lu.motif, MotifApres(d.lu.motif, d.statut), a.motif),
                  modere |-> TRUE]
    IN /\ d # Aucune
       /\ avis' = [avis EXCEPT ![d.client] = apres]
       /\ Publication(a, apres)
       /\ disputes' = IF d.lu = a THEN disputes \ {d.client} ELSE disputes \cup {d.client}
       /\ moderation' = [moderation EXCEPT ![m] = Aucune]
       /\ UNCHANGED <<livre, verifie, envoi, deposes, public>>

-----------------------------------------------------------------------------
(* synthesePublique, through memoiser *)

\* One query at a time: the other requests wait for its answer.
Consulter ==
    /\ synthese = SansAvis /\ lecture = SansAvis
    /\ lecture' = [edition |-> edition, duree |-> 0]
    /\ UNCHANGED <<synthese, desuete>>

\* set, when the answer comes; a query that fails leaves nothing.
Retenir ==
    /\ lecture # SansAvis
    /\ lecture' = SansAvis
    /\ synthese' \in {SansAvis, [edition |-> lecture.edition, reste |-> TTL_PUBLIC]}
    /\ UNCHANGED desuete

PasserLeTemps ==
    /\ lecture # SansAvis => lecture.duree < DureeLecture
    /\ lecture' = IF lecture = SansAvis THEN SansAvis ELSE [lecture EXCEPT !.duree = @ + 1]
    /\ synthese' = IF synthese = SansAvis \/ synthese.reste = 1 THEN SansAvis
                   ELSE [synthese EXCEPT !.reste = @ - 1]
    /\ desuete' = [v \in 0 .. VersionsMax |->
          IF v < edition /\ desuete[v] <= RetardMax THEN desuete[v] + 1 ELSE desuete[v]]

ServirSynthese ==
    /\ Consulter \/ Retenir \/ PasserLeTemps
    /\ UNCHANGED <<livre, verifie, envoi, avis, deposes, moderation, disputes, edition>>

NextEvaluations ==
    \/ Livrer \/ VerifierNumero \/ ServirSynthese
    \/ \E c \in Evaluateurs : SupprimerAvis(c) \/ \E e \in Envois : LireDepot(e, c)
    \/ \E e \in Envois : Deposer(e)
    \/ \E m \in Moderateurs :
          \/ Moderer(m)
          \/ \E c \in Evaluateurs, statut \in {"publie", "rejete"} : LireModeration(m, c, statut)

SpecEvaluations == InitEvaluations /\ [][NextEvaluations]_varsEvaluations

-----------------------------------------------------------------------------
(* Properties *)

\* "Un avis n'est publié qu'après modération", and it bears on a parcel that was delivered; a
\* rejected review has its reason and a published one has none, unless two moderations of the
\* same review crossed, and until the next one; the summary that is served shows nothing that
\* was replaced more than TTL_PUBLIC and the time of a query ago.
AvisFondes ==
    /\ \A c \in Evaluateurs : avis[c] # SansAvis =>
          /\ livre
          /\ avis[c].statut # "en_attente" => avis[c].modere
          /\ c \in disputes \/ avis[c].motif = (avis[c].statut = "rejete")
    /\ synthese # SansAvis => desuete[synthese.edition] <= RetardMax
=============================================================================
