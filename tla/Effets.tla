-------------------------------- MODULE Effets --------------------------------
(***************************************************************************)
(* What follows an event of a parcel: the invoice issued when the parcel   *)
(* is taken in charge or the proposal accepted, the link to pay it, the    *)
(* message to the client and those to the subscribers of the parcel.       *)
(* These effects run after the COMMIT of the transaction that records the  *)
(* event (apresCommit), one after the other, and a failure is swallowed.   *)
(* They run too when the COMMIT itself fails, a limit apresCommit knows.   *)
(*                                                                         *)
(* One parcel.  Each request records one event.                            *)
(***************************************************************************)
EXTENDS Naturals, FiniteSets

CONSTANTS
    Evenements,     \* requests that record an event of the parcel
    Abonnes,        \* destinations that may follow it
    Etapes,         \* codes of events studied
    EssaisMax,      \* attempts at a reference: 3
    PannesMax       \* bound on the failures and on the references already taken

PrisesEnCharge == {"DEPOT", "RECEPTION", "ENL_OK"}

\* What the model takes of its constants.
Hypotheses ==
    /\ EssaisMax \in Nat \ {0} /\ PannesMax \in Nat
    /\ Etapes \subseteq PrisesEnCharge \cup {"DEVIS_ACCEPTE", "INFO"}
    /\ "declaration" \notin Evenements /\ "client" \notin Abonnes

VARIABLES
    paiement,      \* regles.paiement of the parcel
    chiffre,       \* its amount is above 0
    propose,       \* a proposal awaits the client's answer
    factures,      \* rows of factures: who issued it, and whether it is committed
    liens,         \* links sent
    abonnement,    \* per destination: "aucun", "actif", "resilie"
    suite,         \* per request: what it is about to do
    messages,      \* per request: messages sent, per destination
    absents,       \* per request: destinations not active since its event was recorded
    pannes

vars == <<paiement, chiffre, propose, factures, liens, abonnement, suite, messages, absents,
          pannes>>

Repos == [etat |-> "repos", code |-> "INFO", visible |-> FALSE, sort |-> "aucun", essai |-> 0,
          reste |-> {}]
Destinations == Abonnes \cup {"client"}

\* A parcel paid when it is ordered is declared with its invoice, its link sent with it.
Init ==
    /\ paiement \in {"a_la_commande", "a_la_reception", "a_l_acceptation"}
    /\ chiffre \in BOOLEAN
    /\ paiement = "a_la_commande" => chiffre
    /\ paiement = "a_l_acceptation" => chiffre
    /\ propose = (paiement = "a_l_acceptation")
    /\ factures = IF paiement = "a_la_commande" THEN {[par |-> "declaration", validee |-> TRUE]}
                  ELSE {}
    /\ liens = IF paiement = "a_la_commande" THEN 1 ELSE 0
    /\ abonnement \in [Abonnes -> {"aucun", "actif"}]
    /\ suite = [r \in Evenements |-> Repos]
    /\ messages = [r \in Evenements |-> [d \in Destinations |-> 0]]
    /\ absents = [r \in Evenements |-> {}]
    /\ pannes = 0

Aller(r, etat) == suite' = [suite EXCEPT ![r].etat = etat]

\* The transaction is over and its hooks run: it is committed, or its COMMIT failed ("perdu").
Lance(s) == s.sort \in {"valide", "perdu"}

\* The row of the parcel is locked from the event to the end of its transaction.
Verrouille == \E r \in Evenements : suite[r].sort = "ouvert"

-----------------------------------------------------------------------------
(* The event *)

\* Variant: the effects start inside the transaction.
ApresEvenementSansAttendre(code, englobe) == "facturer"

\* A request that opened the transaction goes on inside it; the effects wait.
ApresEvenement(code, englobe) ==
    IF code = "DEVIS_ACCEPTE" THEN "lire" ELSE IF englobe THEN "valider" ELSE "facturer"

Enregistrer(r, code, englobe, visible) ==
    /\ suite[r].etat = "repos" /\ ~Verrouille
    /\ code = "DEVIS_ACCEPTE" => propose /\ englobe
    /\ suite' = [suite EXCEPT ![r] =
          [Repos EXCEPT !.etat = ApresEvenement(code, englobe), !.code = code,
                        !.visible = visible, !.sort = IF englobe THEN "ouvert" ELSE "valide"]]
    /\ absents' = [absents EXCEPT ![r] = {a \in Abonnes : abonnement[a] # "actif"}]
    /\ UNCHANGED <<paiement, chiffre, propose, factures, liens, abonnement, messages, pannes>>

\* COMMIT: what the transaction wrote becomes visible, then the effects run.
Valider(r) ==
    /\ suite[r].etat = "valider"
    /\ suite' = [suite EXCEPT ![r].etat = "facturer", ![r].sort = "valide"]
    /\ propose' = (propose /\ suite[r].code # "DEVIS_ACCEPTE")
    /\ factures' = {[f EXCEPT !.validee = @ \/ f.par = r] : f \in factures}
    /\ UNCHANGED <<paiement, chiffre, liens, abonnement, messages, absents, pannes>>

\* The connection is lost at the COMMIT: what the transaction wrote is undone, its request ends
\* in an error, and its effects run all the same.
CommitEnEchec(r) ==
    /\ suite[r].etat = "valider" /\ pannes < PannesMax
    /\ suite' = [suite EXCEPT ![r].etat = "facturer", ![r].sort = "perdu"]
    /\ factures' = {f \in factures : f.par # r}
    /\ pannes' = pannes + 1
    /\ UNCHANGED <<paiement, chiffre, propose, liens, abonnement, messages, absents>>

\* A later step of the enclosing transaction fails.
Annuler(r) ==
    /\ suite[r].sort = "ouvert" /\ pannes < PannesMax
    /\ suite' = [suite EXCEPT ![r].etat = "fini", ![r].sort = "annule"]
    /\ factures' = {f \in factures : f.par # r}
    /\ pannes' = pannes + 1
    /\ UNCHANGED <<paiement, chiffre, propose, liens, abonnement, messages, absents>>

-----------------------------------------------------------------------------
(* emettreFactureColis *)

\* facturerALaReception: only a parcel paid at its reception, when it is taken in charge.
AFacturer(r) ==
    suite[r].code \in PrisesEnCharge /\ paiement = "a_la_reception" /\ chiffre

Facturer(r) ==
    /\ suite[r].etat = "facturer"
    /\ Aller(r, IF AFacturer(r) THEN "lire" ELSE "notifier")
    /\ UNCHANGED <<paiement, chiffre, propose, factures, liens, abonnement, messages, absents,
                   pannes>>

Visibles(r) == {f \in factures : f.validee \/ f.par = r}

\* Where the request goes once it holds an invoice; acceptation sends the link of the invoice
\* whoever issued it, after the effects of the event.
\* Variant: the link is sent for an invoice that was already there.
ApresFactureToujours(r, creee) == IF suite[r].code = "DEVIS_ACCEPTE" THEN "valider" ELSE "lien"

ApresFacture(r, creee) ==
    IF suite[r].code = "DEVIS_ACCEPTE" THEN "valider" ELSE IF creee THEN "lien" ELSE "notifier"

LireFacture(r) ==
    /\ suite[r].etat = "lire"
    /\ Aller(r, IF Visibles(r) # {} THEN ApresFacture(r, FALSE) ELSE "creer")
    /\ UNCHANGED <<paiement, chiffre, propose, factures, liens, abonnement, messages, absents,
                   pannes>>

\* colisId is UNIQUE: an insertion waits for the transaction that holds the other row.
CreerFacture(r) ==
    /\ suite[r].etat = "creer" /\ \A f \in factures : f.validee
    /\ IF factures = {}
       THEN /\ factures' = {[par |-> r, validee |-> Lance(suite[r])]}
            /\ Aller(r, ApresFacture(r, TRUE))
       ELSE Aller(r, "relire") /\ UNCHANGED factures
    /\ UNCHANGED <<paiement, chiffre, propose, liens, abonnement, messages, absents, pannes>>

\* The reference is already taken: unique violation too.
HeurterReference(r) ==
    /\ suite[r].etat = "creer" /\ pannes < PannesMax
    /\ Aller(r, "relire")
    /\ pannes' = pannes + 1
    /\ UNCHANGED <<paiement, chiffre, propose, factures, liens, abonnement, messages, absents>>

\* The invoice issued meanwhile prevails; otherwise another reference, EssaisMax times, then
\* the error: it undoes the transaction of an acceptance, and is swallowed at a reception.
RelireFacture(r) ==
    LET essai == suite[r].essai + 1
    IN /\ suite[r].etat = "relire"
       /\ suite' = [suite EXCEPT ![r] =
             IF Visibles(r) # {} THEN [@ EXCEPT !.etat = ApresFacture(r, FALSE)]
             ELSE IF essai < EssaisMax THEN [@ EXCEPT !.etat = "creer", !.essai = essai]
             ELSE IF @.sort = "ouvert" THEN [@ EXCEPT !.etat = "fini", !.sort = "annule"]
             ELSE [@ EXCEPT !.etat = "notifier"]]
       /\ UNCHANGED <<paiement, chiffre, propose, factures, liens, abonnement, messages, absents,
                      pannes>>

\* envoyerLienPaiement, which never fails its caller.
EnvoyerLien(r) ==
    /\ suite[r].etat = "lien"
    /\ liens' = liens + 1
    /\ Aller(r, IF suite[r].code = "DEVIS_ACCEPTE" THEN "fini" ELSE "notifier")
    /\ UNCHANGED <<paiement, chiffre, propose, factures, abonnement, messages, absents, pannes>>

-----------------------------------------------------------------------------
(* Messages *)

\* Where the effects of the event end: an acceptance goes on with the link, if it is committed.
Fin(r) == IF suite[r].code = "DEVIS_ACCEPTE" /\ suite[r].sort = "valide" THEN "lien" ELSE "fini"

Notifier(r) ==
    /\ suite[r].etat = "notifier"
    /\ IF suite[r].visible
       THEN messages' = [messages EXCEPT ![r]["client"] = @ + 1] /\ Aller(r, "diffuser")
       ELSE UNCHANGED messages /\ Aller(r, Fin(r))
    /\ UNCHANGED <<paiement, chiffre, propose, factures, liens, abonnement, absents, pannes>>

\* diffuserEvenement: the active subscribers are read once, then told together.
Diffuser(r) ==
    LET actifs == {a \in Abonnes : abonnement[a] = "actif"}
    IN /\ suite[r].etat = "diffuser"
       /\ suite' = [suite EXCEPT ![r].etat = IF actifs = {} THEN Fin(r) ELSE "prevenir",
                                 ![r].reste = actifs]
       /\ UNCHANGED <<paiement, chiffre, propose, factures, liens, abonnement, messages, absents,
                      pannes>>

Retirer(r, a) ==
    suite' = [suite EXCEPT ![r].reste = @ \ {a},
                           ![r].etat = IF suite[r].reste = {a} THEN Fin(r) ELSE "prevenir"]

Prevenir(r, a) ==
    /\ suite[r].etat = "prevenir" /\ a \in suite[r].reste
    /\ messages' = [messages EXCEPT ![r][a] = @ + 1]
    /\ Retirer(r, a)
    /\ UNCHANGED <<paiement, chiffre, propose, factures, liens, abonnement, absents, pannes>>

\* A step of the effects fails and is journalised, the next one runs: the invoice or its link,
\* the message to the client, one of those to the subscribers.
Echouer(r) ==
    /\ pannes < PannesMax /\ Lance(suite[r])
    /\ \/ suite[r].etat \in {"lire", "creer"} /\ Aller(r, "notifier")
       \/ suite[r].etat = "lien" /\ Aller(r, IF Fin(r) = "lien" THEN "fini" ELSE "notifier")
       \/ suite[r].etat = "notifier" /\ Aller(r, IF suite[r].visible THEN "diffuser" ELSE Fin(r))
       \/ suite[r].etat = "diffuser" /\ Aller(r, Fin(r))
       \/ suite[r].etat = "prevenir" /\ \E a \in suite[r].reste : Retirer(r, a)
    /\ pannes' = pannes + 1
    /\ UNCHANGED <<paiement, chiffre, propose, factures, liens, abonnement, messages, absents>>

\* The process stops after the COMMIT: the effects that remain are lost.
Perdre(r) ==
    /\ pannes < PannesMax /\ Lance(suite[r]) /\ suite[r].etat # "fini"
    /\ Aller(r, "fini")
    /\ pannes' = pannes + 1
    /\ UNCHANGED <<paiement, chiffre, propose, factures, liens, abonnement, messages, absents>>

\* abonner: findOrCreate, then a subscription given up is active again.
Abonner(a) ==
    /\ abonnement[a] # "actif"
    /\ abonnement' = [abonnement EXCEPT ![a] = "actif"]
    /\ absents' = [r \in Evenements |-> absents[r] \ {a}]
    /\ UNCHANGED <<paiement, chiffre, propose, factures, liens, suite, messages, pannes>>

Desabonner(a) ==
    /\ abonnement[a] = "actif"
    /\ abonnement' = [abonnement EXCEPT ![a] = "resilie"]
    /\ UNCHANGED <<paiement, chiffre, propose, factures, liens, suite, messages, absents, pannes>>

Next ==
    \/ \E a \in Abonnes : Abonner(a) \/ Desabonner(a)
    \/ \E r \in Evenements :
          \/ \E code \in Etapes, englobe, visible \in BOOLEAN :
                Enregistrer(r, code, englobe, visible)
          \/ Valider(r) \/ CommitEnEchec(r) \/ Annuler(r) \/ Facturer(r) \/ LireFacture(r)
          \/ CreerFacture(r) \/ HeurterReference(r) \/ RelireFacture(r) \/ EnvoyerLien(r) \/ Notifier(r)
          \/ Diffuser(r) \/ Echouer(r) \/ Perdre(r)
          \/ \E a \in Abonnes : Prevenir(r, a)

Spec == Init /\ [][Next]_vars

-----------------------------------------------------------------------------
(* Properties *)

\* Whatever reception events and acceptances cross, whatever fails, a COMMIT included: a parcel
\* has one invoice and the link to pay it is sent once at most, for an invoice that is committed.
\* A parcel taken in charge remains without its invoice only if something failed.
FacturationUnique ==
    /\ Cardinality(factures) <= 1 /\ liens <= 1
    /\ liens = 1 => \E f \in factures : f.validee
    /\ pannes = 0 /\ (\A r \in Evenements : suite[r].etat \in {"repos", "fini"}) =>
          ((\E r \in Evenements : suite[r].sort = "valide" /\ AFacturer(r)) => liens = 1)

\* "une notification ou un email partait même si la transaction était ensuite annulée": no
\* message leaves while a transaction is open, nor for an event that a later step undid;
\* a COMMIT that fails is the one case left ("limite connue"), and then as well nobody receives
\* the same event twice, and who had unsubscribed when it was recorded does not receive it.
AnnoncesFondees ==
    \A r \in Evenements, d \in Destinations :
        /\ messages[r][d] <= 1
        /\ messages[r][d] = 1 => suite[r].sort \in {"valide", "perdu"} /\ d \notin absents[r]

\* An acceptance whose COMMIT failed leaves nothing but its messages: the proposal still awaits
\* its answer or another acceptance took it, it has no invoice, and its own link is not sent.
AcceptationPerdue ==
    \A r \in Evenements : suite[r].code = "DEVIS_ACCEPTE" /\ suite[r].sort = "perdu" =>
        /\ \A f \in factures : f.par # r
        /\ propose \/ \E q \in Evenements : suite[q].code = "DEVIS_ACCEPTE" /\ suite[q].sort = "valide"
        /\ liens = 1 => ~propose

\* All at once: what an event sets off happens once, and for it.
EffetsJustes == FacturationUnique /\ AnnoncesFondees /\ AcceptationPerdue
=============================================================================
