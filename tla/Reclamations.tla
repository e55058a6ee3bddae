--------------------------- MODULE Reclamations ----------------------------
(***************************************************************************)
(* Claims: a client opens one about a parcel, the support answers, and the *)
(* decision may grant a compensation, paid by a credit note set against    *)
(* the invoice of the parcel.                                              *)
(* Only the decision reads the claim again under a lock; the answers and   *)
(* the assignment write the status they decided from an earlier read, and  *)
(* Sequelize writes only the columns that differ from that read.           *)
(***************************************************************************)
EXTENDS Naturals, FiniteSetsExt

CONSTANTS
    Requetes,       \* requests in flight
    Dossiers,       \* claims that may be opened
    Expeditions,    \* parcels of the client, each with one invoice
    Nul,            \* the parcel of a claim not opened yet
    Plafond,        \* declared value of a parcel: the most a claim about it can grant
    TotalFacture,   \* total of the invoice of a parcel
    Montants,       \* amounts a decision may grant, 0 for none
    AvoirsMax       \* bound on the credit notes of all claims

\* What the model takes of its constants.
Hypotheses ==
    /\ Nul \notin Expeditions
    /\ {Plafond, TotalFacture, AvoirsMax} \subseteq Nat
    /\ Montants \subseteq Nat /\ 0 \in Montants

VARIABLES
    reclamation,    \* claims: statut, colis, accorde (0 for null)
    avoirs,         \* credit notes of each claim: how many, how many by each closing decision
                    \* since the claim was last reopened, total
    compense,       \* montantAvoirs of the invoice of each parcel
    traitement      \* requests in flight

vars == <<reclamation, avoirs, compense, traitement>>

Absente == "absente"
Closes == {"resolue", "rejetee", "cloturee"}

TRANSITIONS(s) ==
    CASE s = "ouverte"        -> {"en_cours", "attente_client", "rejetee", "cloturee"}
      [] s = "en_cours"       -> {"attente_client", "resolue", "rejetee"}
      [] s = "attente_client" -> {"en_cours", "resolue", "rejetee", "cloturee"}
      [] s = "resolue"        -> {"cloturee"}
      [] s = "rejetee"        -> {"cloturee", "en_cours"}
      [] OTHER                -> {}

Inactive == [etape |-> "libre"]

Init ==
    /\ reclamation = [d \in Dossiers |-> [statut |-> Absente, colis |-> Nul, accorde |-> 0]]
    /\ avoirs = [d \in Dossiers |-> [nombre |-> 0, par |-> [s \in Closes |-> 0], total |-> 0]]
    /\ compense = [c \in Expeditions |-> 0]
    /\ traitement = [r \in Requetes |-> Inactive]

Statut(d) == reclamation[d].statut
EnAttente(r, etape) == traitement[r].etape = etape
Debuter(r, suite) == traitement[r] = Inactive /\ traitement' = [traitement EXCEPT ![r] = suite]
Finir(r) == traitement' = [traitement EXCEPT ![r] = Inactive]

\* The claims whose row a decision holds: an UPDATE of theirs waits for its commit.
Verrouillees == {traitement[r].dossier : r \in {s \in Requetes : EnAttente(s, "indemniser")}}

\* Auxiliary: a claim is reopened by a status s that is not a closed one.
Rouvre(d, s) == Statut(d) \in Closes /\ s \notin Closes

\* Auxiliary: the account of d when its status becomes s, with n more credit notes.
AvoirsApres(d, s, n) ==
    [x \in Closes |-> IF Rouvre(d, s) THEN 0
                      ELSE avoirs[d].par[x] + (IF x = s THEN n ELSE 0)]

-----------------------------------------------------------------------------
(* Opening and answers *)

Ouvertes(c) == {d \in Dossiers : reclamation[d].colis = c /\ Statut(d) \notin Closes \cup {Absente}}

DejaOuverte(c) == Ouvertes(c) # {}

\* ouvrirReclamation, up to the upload of the pieces: no claim is open for the parcel.
DemanderOuverture(r, c) ==
    /\ ~ DejaOuverte(c)
    /\ Debuter(r, [etape |-> "ouvrir", colis |-> c])
    /\ UNCHANGED <<reclamation, avoirs, compense>>

Ouvrir(r, d) ==
    /\ EnAttente(r, "ouvrir") /\ Statut(d) = Absente
    /\ reclamation' = [reclamation EXCEPT ![d].statut = "ouverte", ![d].colis = traitement[r].colis]
    /\ Finir(r)
    /\ UNCHANGED <<avoirs, compense>>

\* repondreClient, assigner and repondreSupport (a public answer) decide from the claim they
\* read first whether they write its status, and which; the requests that leave it alone are
\* left out.
Reponses(s) ==
    (IF s = "attente_client" THEN {"en_cours"} ELSE {})                  \* the client answers
    \cup (IF s = "ouverte" THEN {"en_cours"} ELSE {})                    \* an agent takes it
    \cup (IF s \in {Absente, "attente_client"} THEN {} ELSE {"attente_client"})  \* the support answers

LireReponse(r, d) ==
    /\ \E s \in Reponses(Statut(d)) : Debuter(r, [etape |-> "repondre", dossier |-> d, statut |-> s])
    /\ UNCHANGED <<reclamation, avoirs, compense>>

\* The status decided before the upload of the pieces, or the reading of the agent, is written
\* without a condition.
Repondre(r) ==
    LET q == traitement[r]
    IN /\ EnAttente(r, "repondre") /\ q.dossier \notin Verrouillees
       /\ reclamation' = [reclamation EXCEPT ![q.dossier].statut = q.statut]
       /\ avoirs' = [avoirs EXCEPT ![q.dossier].par = AvoirsApres(q.dossier, q.statut, 0)]
       /\ Finir(r)
       /\ UNCHANGED compense

-----------------------------------------------------------------------------
(* The decision *)

\* The decisions the route accepts.
Decisions == {"en_cours", "attente_client", "resolue", "rejetee", "cloturee"}

\* resoudre, before its transaction: the transition and the ceiling.
LireDecision(r, d, decision, montant) ==
    /\ decision \in TRANSITIONS(Statut(d))
    /\ montant <= Plafond
    /\ Debuter(r, [etape |-> "decider", dossier |-> d, decision |-> decision,
                   montant |-> montant, inscrit |-> montant # 0 \/ reclamation[d].accorde # 0])
    /\ UNCHANGED <<reclamation, avoirs, compense>>

\* Variant: the status is not read again under the lock.
PossibleALaLecture(d, decision) == TRUE

\* The status read again under the lock of the row.
EncorePossible(d, decision) == decision \in TRANSITIONS(Statut(d))

Compensable(d) == TotalFacture - compense[reclamation[d].colis]

\* The transaction locks the claim; the invoice is read without a lock, and the credit note
\* is to be set against it when it can absorb it.
Decider(r) ==
    LET q == traitement[r]
        d == q.dossier
    IN /\ EnAttente(r, "decider") /\ d \notin Verrouillees
       /\ IF EncorePossible(d, q.decision)
             THEN traitement' = [traitement EXCEPT ![r] =
                     [etape |-> "indemniser", dossier |-> d, decision |-> q.decision,
                      montant |-> q.montant, inscrit |-> q.inscrit,
                      impute |-> q.montant > 0 /\ q.montant <= Compensable(d)]]
             ELSE Finir(r)
       /\ UNCHANGED <<reclamation, avoirs, compense>>

\* Variant: the credit note trusts the amount read before the lock of the invoice.
AbsorbeALaLecture(d, montant) == TRUE

\* emettre: under the lock of the invoice, the amount still fits.
Absorbe(d, montant) == montant <= Compensable(d)

AvoirsEmis == MapThenSumSet(LAMBDA d : avoirs[d].nombre, Dossiers)

\* The row of the claim, the credit note and the invoice are written together, or nothing is.
\* montantAccorde is written unless it was read NULL and stays so: a number never equals the
\* text of the column.
Indemniser(r) ==
    LET q == traitement[r]
        d == q.dossier
        c == reclamation[d].colis
        n == IF q.montant = 0 THEN 0 ELSE 1
    IN /\ EnAttente(r, "indemniser")
       /\ q.montant > 0 => AvoirsEmis < AvoirsMax
       /\ Finir(r)
       /\ \/ /\ q.impute => Absorbe(d, q.montant)
             /\ reclamation' = [reclamation EXCEPT
                   ![d].statut = q.decision,
                   ![d].accorde = IF q.inscrit THEN q.montant ELSE @]
             /\ avoirs' = [avoirs EXCEPT ![d] =
                   [nombre |-> @.nombre + n, par |-> AvoirsApres(d, q.decision, n),
                    total |-> @.total + q.montant]]
             /\ compense' = IF q.impute THEN [compense EXCEPT ![c] = @ + q.montant] ELSE compense
          \/ /\ q.impute /\ ~ Absorbe(d, q.montant)
             /\ UNCHANGED <<reclamation, avoirs, compense>>

\* A request fails or its process stops; a transaction under way is rolled back.
Interrompre(r) ==
    /\ traitement[r] # Inactive
    /\ Finir(r)
    /\ UNCHANGED <<reclamation, avoirs, compense>>

Next ==
    \E r \in Requetes :
       \/ \E c \in Expeditions : DemanderOuverture(r, c)
       \/ \E d \in Dossiers :
             \/ Ouvrir(r, d)
             \/ LireReponse(r, d)
             \/ \E decision \in Decisions, montant \in Montants :
                   LireDecision(r, d, decision, montant)
       \/ Repondre(r) \/ Decider(r) \/ Indemniser(r) \/ Interrompre(r)

Spec == Init /\ [][Next]_vars

-----------------------------------------------------------------------------
(* Properties *)

\* However many decisions are sent at the same time, each decision that closes a claim, its
\* resolution, its rejection and its closing, compensates it once at most, and a claim is not
\* compensated both by a resolution and by a rejection, unless somebody reopened it between the
\* two; the decisions that leave a claim open may each grant an amount.  The credit notes set
\* against an invoice never exceed its total, even when two claims of a parcel are decided
\* together.
IndemniteUnique ==
    /\ \A d \in Dossiers :
          /\ \A s \in Closes : avoirs[d].par[s] <= 1
          /\ avoirs[d].par["resolue"] = 0 \/ avoirs[d].par["rejetee"] = 0
    /\ \A c \in Expeditions : compense[c] <= TotalFacture

\* "Indemnisation effectivement accordée après instruction": a claim compensated once, by its
\* resolution, states what its credit note grants.
IndemniteInscrite ==
    \A d \in Dossiers : avoirs[d].nombre = 1 /\ avoirs[d].par["resolue"] = 1
                          => reclamation[d].accorde = avoirs[d].total
=============================================================================
