------------------------------ MODULE Demandes ------------------------------
(***************************************************************************)
(* Requests for expeditions and what they hold while they are open: the    *)
(* packaging bought with them, the referral credit spent on them and, for  *)
(* the first expedition of a referred client (filleul), the reward of the  *)
(* sponsor (parrain).                                                      *)
(*                                                                         *)
(* declarerExpedition computes its quote from accounts and stocks it reads *)
(* without a lock (Lire...), then reserves everything in one transaction   *)
(* (Declarer) whose writes carry their own conditions.  The study of the   *)
(* administrator, the answer of the client, the cancellation and the task  *)
(* that closes expired proposals each lock the row of the parcel first, so *)
(* each is one step; those that close the request give back what it held   *)
(* (Liberer).  An event of the staff changes the status and nothing else.  *)
(*                                                                         *)
(* `dotation` and `accorde` are auxiliary: the stock and the credit that   *)
(* were ever put at the disposal of the requests.  An absolute correction  *)
(* by the administrator restarts them from the value he types.             *)
(***************************************************************************)
EXTENDS EtatsColis, Integers, FiniteSets, FiniteSetsExt

CONSTANTS
    Comptes,       \* accounts of clients
    Filleuls,      \* those that have a sponsor
    Parrain,       \* the sponsor of each of them
    Colis,         \* requests, each declared at most once
    Client,        \* the account each belongs to
    Emballages,    \* kinds of packaging
    Codes,         \* tracking events the staff records
    NonSuivi,      \* the stock of a packaging that is not counted (null)
    Gain,          \* parrainage_gain_parrain_eur
    CreditMax,     \* bound on a credit the administrator types, and on one spent
    StockMax       \* bound on a stock the administrator types, and on a purchase

\* What the model takes of its constants.
Hypotheses ==
    /\ Filleuls \subseteq Comptes
    /\ Parrain \in [Filleuls -> Comptes]
    /\ Client \in [Colis -> Comptes]
    /\ Codes \subseteq DOMAIN StatutInduit
    /\ NonSuivi \notin Int
    /\ Gain \in Nat /\ CreditMax \in Nat /\ StockMax \in Nat

VARIABLES
    credit,        \* creditParrainage of each account
    recompense,    \* parrainageRecompense: the sponsor of this account was rewarded
    stock,         \* stock of each packaging, or NonSuivi
    colis,         \* rows of the parcels: statut, categorie, creditUtilise, remise
                   \* (montants.remiseParrainage > 0), achats, expiree, rendu
    requete,       \* the declaration in flight for each parcel: what its quote counts on
    aExpirer,      \* the parcels the expiry task has listed and not yet treated
    dotation,      \* auxiliary: the stock given to each packaging
    accorde,       \* auxiliary: the credit granted to each account
    recompenses    \* auxiliary: rewards given for each account and not taken back

vars == <<credit, recompense, stock, colis, requete, aExpirer, dotation, accorde,
          recompenses>>

-----------------------------------------------------------------------------
(* Rows *)

Categories == {"documents", "colis_moyen", "colis_xxl"}
Absent == [statut |-> "absent"]
Libre == [etape |-> "libre"]

ValidationAdmin(cat) == cat # "documents"
SurDevis(cat) == cat = "colis_xxl"
StatutInitial(cat) == IF ValidationAdmin(cat) THEN "en_attente_validation" ELSE "en_attente"

StatutsAnnulables ==
    {"brouillon", "en_attente_validation", "devis_propose", "en_attente",
     "enlevement_planifie"}

Existe(c) == colis[c] # Absent
AuMoinsZero(n) == IF n < 0 THEN 0 ELSE n
LePlusPetit(a, b) == IF a < b THEN a ELSE b

Init ==
    /\ credit \in [Comptes -> {0, Gain}]
    /\ stock \in [Emballages -> {NonSuivi, StockMax}]
    /\ recompense = [u \in Comptes |-> FALSE]
    /\ colis = [c \in Colis |-> Absent]
    /\ requete = [c \in Colis |-> Libre]
    /\ aExpirer = {}
    /\ dotation = stock
    /\ accorde = credit
    /\ recompenses = [u \in Comptes |-> 0]

-----------------------------------------------------------------------------
(* Declaration *)

\* Welcome bonus: a referred client whose sponsor is not rewarded yet and who has no other
\* parcel, cancelled and refused ones aside.
BonusOuvert(u) ==
    /\ u \in Filleuls
    /\ ~recompense[u]
    /\ \A c \in Colis : Existe(c) /\ Client[c] = u => colis[c].statut \in {"annule", "refuse"}

\* calculerDevis refuses a purchase beyond the tracked stock it reads.
EnStock(achats) == \A e \in Emballages : stock[e] # NonSuivi => achats[e] <= stock[e]

\* The account is read first and its parcels next; the transaction checks again all that a
\* change in between could have spoilt, so one step stands for both reads.
LireAvantages(c) ==
    /\ requete[c] = Libre /\ ~Existe(c)
    /\ \E cat \in Categories, achats \in [Emballages -> 0..StockMax] :
          /\ EnStock(achats)
          /\ requete' = [requete EXCEPT ![c] =
                [etape |-> "devis", categorie |-> cat,
                 creditUtilise |-> IF SurDevis(cat) THEN 0
                                   ELSE LePlusPetit(credit[Client[c]], CreditMax),
                 bonus |-> BonusOuvert(Client[c]) /\ ~SurDevis(cat),
                 achats |-> achats]]
    /\ UNCHANGED <<credit, recompense, stock, colis, aExpirer, dotation, accorde, recompenses>>

\* Variant: the stock that was checked with the quote is not checked again.
ReservableSansControle(achats) == TRUE

\* reserverEmballages: the rows are locked in the order of their identifiers.
Reservable(achats) == EnStock(achats)

\* consommerCreditParrainage
CreditSuffisant(u, montant) == montant > 0 => credit[u] >= montant

\* Variant: the update of the account has no condition.
PremiereExpeditionSansCondition(u) == TRUE

\* UPDATE users SET parrainageRecompense = true WHERE parrainageRecompense = false
PremiereExpedition(u) == ~recompense[u]

LigneDeclaree(d) ==
    [statut |-> StatutInitial(d.categorie), categorie |-> d.categorie,
     creditUtilise |-> d.creditUtilise, remise |-> d.bonus, achats |-> d.achats,
     expiree |-> FALSE, rendu |-> FALSE]

StockReserve(achats) ==
    [e \in Emballages |-> IF stock[e] = NonSuivi THEN NonSuivi ELSE stock[e] - achats[e]]

Ajouter(f, u, n) == [f EXCEPT ![u] = @ + n]

\* One transaction: the row, the packaging, the credit, the reward of the sponsor.
Declarer(c) ==
    LET d == requete[c]
        u == Client[c]
    IN /\ d # Libre
       /\ Reservable(d.achats)
       /\ CreditSuffisant(u, d.creditUtilise)
       /\ d.bonus => PremiereExpedition(u)
       /\ colis' = [colis EXCEPT ![c] = LigneDeclaree(d)]
       /\ stock' = StockReserve(d.achats)
       /\ LET paye == Ajouter(credit, u, -d.creditUtilise) IN
             credit' = IF d.bonus THEN Ajouter(paye, Parrain[u], Gain) ELSE paye
       /\ accorde' = IF d.bonus THEN Ajouter(accorde, Parrain[u], Gain) ELSE accorde
       /\ recompense' = [recompense EXCEPT ![u] = @ \/ d.bonus]
       /\ recompenses' = IF d.bonus THEN Ajouter(recompenses, u, 1) ELSE recompenses
       /\ requete' = [requete EXCEPT ![c] = Libre]
       /\ UNCHANGED <<aExpirer, dotation>>

\* The transaction is refused or fails, or the process stops: nothing was written.
Renoncer(c) ==
    /\ requete[c] # Libre
    /\ requete' = [requete EXCEPT ![c] = Libre]
    /\ UNCHANGED <<credit, recompense, stock, colis, aExpirer, dotation, accorde, recompenses>>

-----------------------------------------------------------------------------
(* What a closed request gives back *)

\* Is the reward of the sponsor taken back with this parcel?
Reprise(l, u) == l.remise /\ u \in Filleuls

\* Variant: the amount spent stays on the row.
CreditRestantOublie(l) == l.creditUtilise

CreditRestant(l) == 0

\* liberRessources, under the lock of the row, then the row as `ferme` leaves it.
Liberer(c, ferme) ==
    LET l == colis[c]
        u == Client[c]
        repris == IF Reprise(l, u)
                  THEN [credit EXCEPT ![Parrain[u]] = AuMoinsZero(@ - Gain)] ELSE credit
    IN /\ credit' = Ajouter(repris, u, l.creditUtilise)
       /\ accorde' = [v \in Comptes |-> accorde[v] - (credit[v] - repris[v])]
       /\ recompense' = [recompense EXCEPT ![u] = @ /\ ~Reprise(l, u)]
       /\ recompenses' = IF Reprise(l, u) THEN Ajouter(recompenses, u, -1) ELSE recompenses
       /\ stock' = [e \in Emballages |->
             IF stock[e] = NonSuivi THEN NonSuivi ELSE stock[e] + l.achats[e]]
       /\ colis' = [colis EXCEPT ![c] =
             [l EXCEPT !.statut = ferme, !.creditUtilise = CreditRestant(l), !.rendu = TRUE]]
       /\ UNCHANGED <<requete, dotation>>

\* A step that moves the parcel and leaves what it holds alone.
Deplacer(c, ligne) ==
    /\ colis' = [colis EXCEPT ![c] = ligne]
    /\ UNCHANGED <<credit, recompense, stock, requete, aExpirer, dotation, accorde, recompenses>>

-----------------------------------------------------------------------------
(* Study, answers, cancellation, expiry *)

\* validerDemande; an adjusted price replaces the whole breakdown, bonus included.
ValiderDemande(c) ==
    /\ Existe(c) /\ colis[c].statut = "en_attente_validation"
    /\ colis[c].categorie # "colis_xxl"
    /\ \E ajuste \in BOOLEAN :
          Deplacer(c, [colis[c] EXCEPT !.statut = StatutVise(@, "VALIDE", "aucun"),
                                       !.remise = @ /\ ~ajuste])

\* proposerTarif: a new proposal replaces the previous one and its date.
ProposerTarif(c) ==
    /\ Existe(c) /\ colis[c].statut \in {"en_attente_validation", "devis_propose"}
    /\ Deplacer(c, [colis[c] EXCEPT !.statut = StatutVise(@, "DEVIS_PROPOSE", "aucun"),
                                    !.remise = FALSE, !.expiree = FALSE])

RefuserDemande(c) ==
    /\ Existe(c) /\ colis[c].statut \in {"en_attente_validation", "devis_propose"}
    /\ Liberer(c, StatutInduit["DEMANDE_REFUSEE"])
    /\ UNCHANGED aExpirer

AccepterProposition(c) ==
    /\ Existe(c) /\ colis[c].statut = "devis_propose" /\ ~colis[c].expiree
    /\ Deplacer(c, [colis[c] EXCEPT !.statut = StatutInduit["DEVIS_ACCEPTE"]])

RefuserProposition(c) ==
    /\ Existe(c) /\ colis[c].statut = "devis_propose"
    /\ Liberer(c, StatutInduit["DEVIS_REFUSE"])
    /\ UNCHANGED aExpirer

\* annulerExpedition; the invoices and their payments are in Facturation.
AnnulerExpedition(c) ==
    /\ Existe(c) /\ colis[c].statut \in StatutsAnnulables
    /\ Liberer(c, StatutInduit["ANNULE"])
    /\ UNCHANGED aExpirer

\* propositionExpireAt is passed.
PasserEcheance(c) ==
    /\ Existe(c) /\ colis[c].statut = "devis_propose" /\ ~colis[c].expiree
    /\ Deplacer(c, [colis[c] EXCEPT !.expiree = TRUE])

\* The task lists the expired proposals once ...
ListerExpirees ==
    /\ aExpirer = {}
    /\ aExpirer' = {c \in Colis : Existe(c) /\ colis[c].statut = "devis_propose"
                                            /\ colis[c].expiree}
    /\ aExpirer' # {}
    /\ UNCHANGED <<credit, recompense, stock, colis, requete, dotation, accorde, recompenses>>

\* ... and treats each under its lock, where it checks the status and not the date.
ExpirerProposition(c) ==
    /\ c \in aExpirer
    /\ aExpirer' = aExpirer \ {c}
    /\ IF colis[c].statut = "devis_propose"
       THEN Liberer(c, StatutInduit["DEVIS_REFUSE"])
       ELSE UNCHANGED <<credit, recompense, stock, colis, requete, dotation, accorde,
                        recompenses>>

\* An event of the staff: the ANNULE event closes the parcel and gives nothing back.
Evenement(c, code) ==
    /\ Existe(c) /\ Permis(colis[c].statut, code, "aucun")
    /\ StatutVise(colis[c].statut, code, "aucun") # colis[c].statut
    /\ Deplacer(c, [colis[c] EXCEPT !.statut = StatutVise(@, code, "aucun")])

-----------------------------------------------------------------------------
(* Corrections by the administrator: absolute values over what was there *)

Detenu(e) == MapThenSumSet(LAMBDA c : colis[c].achats[e],
                           {c \in Colis : Existe(c) /\ ~colis[c].rendu})
Depense(u) == MapThenSumSet(LAMBDA c : colis[c].creditUtilise,
                            {c \in Colis : Existe(c) /\ Client[c] = u})

AjusterCredit(u) ==
    \E n \in (0..CreditMax) \ {credit[u]} :
        /\ credit' = [credit EXCEPT ![u] = n]
        /\ accorde' = [accorde EXCEPT ![u] = n + Depense(u)]
        /\ UNCHANGED <<recompense, stock, colis, requete, aExpirer, dotation, recompenses>>

ModifierEmballage(e) ==
    \E n \in ({NonSuivi} \cup 0..StockMax) \ {stock[e]} :
        /\ stock' = [stock EXCEPT ![e] = n]
        /\ dotation' = [dotation EXCEPT ![e] = IF n = NonSuivi THEN n ELSE n + Detenu(e)]
        /\ UNCHANGED <<credit, recompense, colis, requete, aExpirer, accorde, recompenses>>

DecisionSur(c) ==
    \/ ValiderDemande(c) \/ ProposerTarif(c) \/ RefuserDemande(c)
    \/ AccepterProposition(c) \/ RefuserProposition(c) \/ AnnulerExpedition(c)
    \/ PasserEcheance(c) \/ ExpirerProposition(c)
    \/ \E code \in Codes : Evenement(c, code)

Next ==
    \/ \E c \in Colis : LireAvantages(c) \/ Declarer(c) \/ Renoncer(c) \/ DecisionSur(c)
    \/ ListerExpirees
    \/ \E u \in Comptes : AjusterCredit(u)
    \/ \E e \in Emballages : ModifierEmballage(e)

Spec == Init /\ [][Next]_vars

-----------------------------------------------------------------------------
(* Properties *)

\* The credit of an account and what its parcels have spent of it add up to what it was
\* granted, a tracked stock and what the parcels hold of it to what was put in it, whatever
\* requests cross: nothing is taken or given back twice, nor more than there was.
ReservationsConservees ==
    /\ \A u \in Comptes : credit[u] >= 0 /\ credit[u] + Depense(u) = accorde[u]
    /\ \A e \in Emballages :
          stock[e] # NonSuivi => stock[e] >= 0 /\ stock[e] + Detenu(e) = dotation[e]

\* The mark on a referred account tells whether its sponsor holds a reward for it: never two
\* rewards for one client, none taken back twice, and the parcel that carries the bonus is
\* the one that would have it taken back.
RecompenseFidele ==
    \A u \in Comptes :
        /\ recompenses[u] = (IF recompense[u] THEN 1 ELSE 0)
        /\ LET bonifies == {c \in Colis : Existe(c) /\ Client[c] = u /\ colis[c].remise
                                                   /\ ~colis[c].rendu}
           IN /\ Cardinality(bonifies) <= 1
              /\ bonifies # {} => recompense[u]
=============================================================================
