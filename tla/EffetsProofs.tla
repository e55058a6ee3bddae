---------------------------- MODULE EffetsProofs ----------------------------
(***************************************************************************)
(* Proofs about Effets, for any requests, subscribers and codes of events, *)
(* any number of attempts and of failures.                                 *)
(*                                                                         *)
(* The invoice is unique because it is inserted where there is none, and   *)
(* its link because the right to send it belongs to one request: the one   *)
(* that created the invoice, or the one whose acceptance was committed.    *)
(***************************************************************************)
EXTENDS Effets, Collectes, Compte, TLAPS, FiniteSetTheorems

Etats == {"repos", "facturer", "lire", "creer", "relire", "valider", "lien", "notifier",
          "diffuser", "prevenir", "fini"}

Suite == [etat : Etats, code : PrisesEnCharge \cup {"DEVIS_ACCEPTE", "INFO"},
          visible : BOOLEAN, sort : {"aucun", "ouvert", "valide", "perdu", "annule"}, essai : Nat,
          reste : SUBSET Abonnes]

EffetsTypes ==
    /\ paiement \in {"a_la_commande", "a_la_reception", "a_l_acceptation"}
    /\ chiffre \in BOOLEAN
    /\ propose \in BOOLEAN
    /\ factures \in SUBSET [par : Evenements \cup {"declaration"}, validee : BOOLEAN]
    /\ liens \in Nat
    /\ abonnement \in [Abonnes -> {"aucun", "actif", "resilie"}]
    /\ suite \in [Evenements -> Suite]
    /\ messages \in [Evenements -> [Destinations -> Nat]]
    /\ absents \in [Evenements -> SUBSET Abonnes]
    /\ pannes \in Nat

Acceptation(s) == s.code = "DEVIS_ACCEPTE"

\* The request issues the invoice if there is none: a reception of a parcel paid then.
Emet(s) == s.code \in PrisesEnCharge /\ paiement = "a_la_reception" /\ chiffre

Recherche == {"lire", "creer", "relire"}

\* Where a request is tells how its transaction ended.
Place(s) ==
    /\ s.etat = "repos" => s.sort = "aucun"
    /\ s.etat \in {"facturer", "notifier", "diffuser", "prevenir", "lien"} => Lance(s)
    /\ s.etat = "lien" /\ Acceptation(s) => s.sort = "valide"
    /\ s.etat = "valider" => s.sort = "ouvert"
    /\ s.etat \in Recherche => IF Acceptation(s) THEN s.sort = "ouvert" ELSE Lance(s)
    /\ s.etat = "fini" => Lance(s) \/ s.sort = "annule"
    /\ s.etat \in Recherche \cup {"lien"} /\ ~Acceptation(s) => Emet(s)

\* The request may send the link: it created the invoice, or its acceptance is committed.
Droit(s) ==
    /\ Lance(s)
    /\ IF Acceptation(s) THEN s.sort = "valide" /\ s.etat # "fini" ELSE s.etat = "lien"

\* Where the effects of an event end.
Suivante(s) == IF Acceptation(s) /\ s.sort = "valide" THEN "lien" ELSE "fini"

\* Who issued a committed invoice: never an acceptance whose COMMIT failed.
Soutient(s) == Lance(s) /\ (Acceptation(s) => s.sort = "valide")

Facturee == \E f \in factures : f.validee

\* An invoice that is not committed belongs to an acceptance under way.
FacturesTenues ==
    /\ \A f, g \in factures : f = g
    /\ \A f \in factures :
          IF f.validee THEN f.par = "declaration" \/ Soutient(suite[f.par])
          ELSE /\ f.par \in Evenements
               /\ suite[f.par].etat = "valider" /\ Acceptation(suite[f.par])
    /\ \A r \in Evenements : suite[r].etat = "valider" /\ Acceptation(suite[r]) =>
          \E f \in factures : f.par = r

LiensTenus ==
    /\ liens <= 1
    /\ liens = 1 => Facturee
    /\ \A r \in Evenements : Droit(suite[r]) =>
          liens = 0 /\ Facturee /\ \A q \in Evenements : Droit(suite[q]) => q = r

\* One transaction is open at a time; an acceptance is open while the proposal stands.
PropositionTenue ==
    /\ propose => liens = 0 /\ ~Facturee /\ paiement = "a_l_acceptation"
    /\ \A r, q \in Evenements : suite[r].sort = "ouvert" /\ suite[q].sort = "ouvert" => q = r
    /\ \A r \in Evenements : suite[r].sort = "ouvert" /\ Acceptation(suite[r]) => propose

\* As long as nothing fails, who is past the search of the invoice has found one, and its
\* link is sent or about to be.
SansPanne ==
    pannes = 0 =>
        /\ \A r \in Evenements : suite[r].etat = "relire" => Facturee
        /\ \A r \in Evenements :
              Lance(suite[r]) /\ Emet(suite[r])
                 /\ suite[r].etat \notin Recherche \cup {"facturer"} => Facturee
        /\ paiement = "a_la_reception" /\ Facturee =>
              liens = 1 \/ \E r \in Evenements : Droit(suite[r])

\* The messages a request has sent, from where it is.
Avises(s, m, abs) ==
    /\ \A d \in Destinations :
          /\ m[d] <= 1
          /\ m[d] = 1 => Lance(s) /\ d \notin abs
          /\ s.etat \in Recherche \cup {"repos", "facturer", "valider", "notifier"} => m[d] = 0
          /\ s.etat = "lien" /\ ~Acceptation(s) => m[d] = 0
          /\ s.etat = "diffuser" /\ d \in Abonnes => m[d] = 0
          /\ s.etat = "prevenir" /\ d \in s.reste => m[d] = 0
    /\ s.etat = "prevenir" => s.reste \cap abs = {}

MessagesTenus ==
    /\ \A r \in Evenements : Avises(suite[r], messages[r], absents[r])
    /\ \A r \in Evenements : \A a \in absents[r] : abonnement[a] # "actif"

IInv ==
    /\ EffetsTypes
    /\ \A r \in Evenements : Place(suite[r])
    /\ FacturesTenues
    /\ LiensTenus
    /\ PropositionTenue
    /\ SansPanne
    /\ MessagesTenus

-----------------------------------------------------------------------------
(* A step that only moves one request *)

LEMMA SuiteApres ==
    ASSUME EffetsTypes, NEW r \in Evenements, NEW t \in Suite,
           suite' = [suite EXCEPT ![r] = t]
    PROVE  /\ suite' \in [Evenements -> Suite]
           /\ suite'[r] = t /\ \A q \in Evenements \ {r} : suite'[q] = suite[q]
  BY DEF EffetsTypes

\* The request goes on, its own messages alone sent, keeping its event and the end of its
\* transaction; if nothing failed it does not give up what it owes.
LEMMA AllerTenu ==
    ASSUME IInv, NEW r \in Evenements, NEW t \in Suite,
           suite' = [suite EXCEPT ![r] = t],
           UNCHANGED <<paiement, chiffre, propose, factures, liens, abonnement, absents>>,
           messages' \in [Evenements -> [Destinations -> Nat]],
           \A q \in Evenements \ {r} : messages'[q] = messages[q],
           pannes' \in Nat, pannes' >= pannes,
           t.code = suite[r].code, t.sort = suite[r].sort, Place(t),
           Droit(t) => Droit(suite[r]),
           suite[r].etat # "valider",
           t.etat = "valider" /\ Acceptation(t) => \E f \in factures : f.par = r,
           pannes' = 0 =>
              /\ t.etat = "relire" => Facturee
              /\ Droit(suite[r]) => Droit(t)
              /\ Lance(t) /\ Emet(t) /\ t.etat \notin Recherche \cup {"facturer"}
                    => Facturee,
           Avises(t, messages'[r], absents[r])
    PROVE  IInv'
<1>1. /\ suite' \in [Evenements -> Suite]
      /\ suite'[r] = t /\ \A q \in Evenements \ {r} : suite'[q] = suite[q]
  BY SuiteApres DEF IInv
<1>2. EffetsTypes'
  BY <1>1 DEF IInv, EffetsTypes
<1>3. (\A q \in Evenements : Place(suite[q]))'
  BY <1>1 DEF Lance, IInv, Place, Emet, Acceptation, Suivante
<1>4. FacturesTenues'
  <2>1. ASSUME NEW f \in factures
        PROVE  IF f.validee THEN f.par = "declaration" \/ Soutient(suite'[f.par])
               ELSE /\ f.par \in Evenements
                    /\ suite'[f.par].etat = "valider" /\ Acceptation(suite'[f.par])
    <3>1. f.par \in Evenements \cup {"declaration"}
      BY DEF IInv, EffetsTypes
    <3>2. IF f.validee THEN f.par = "declaration" \/ Soutient(suite[f.par])
          ELSE /\ f.par \in Evenements
               /\ suite[f.par].etat = "valider" /\ Acceptation(suite[f.par])
      BY DEF IInv, FacturesTenues, Soutient, Lance, Acceptation
    <3>3. QED
      BY <3>1, <3>2, <1>1 DEF Soutient, Lance, Acceptation
  <2>2. \A f, g \in factures : f = g
    BY DEF IInv, FacturesTenues, Soutient, Lance, Acceptation
  <2>3. ASSUME NEW q \in Evenements, suite'[q].etat = "valider", Acceptation(suite'[q])
        PROVE  \E f \in factures : f.par = q
    BY <1>1, <2>3 DEF IInv, FacturesTenues, Soutient, Lance, Acceptation
  <2>4. QED
    BY <2>1, <2>2, <2>3 DEF FacturesTenues, Acceptation, Soutient, Lance
<1>5. \A q \in Evenements : Droit(suite'[q]) => Droit(suite[q])
  BY <1>1
<1>6. LiensTenus'
  <2>1. Facturee' <=> Facturee
    BY DEF Facturee
  <2>2. \A q \in Evenements : Droit(suite'[q]) =>
           liens = 0 /\ Facturee /\ \A p \in Evenements : Droit(suite'[p]) => p = q
    BY <1>5 DEF IInv, LiensTenus
  <2>3. QED
    BY <2>1, <2>2 DEF Lance, IInv, LiensTenus, Droit, Acceptation, Suivante
<1>7. PropositionTenue'
  BY <1>1 DEF IInv, PropositionTenue, Facturee, Acceptation
<1>8. SansPanne'
  <2> SUFFICES ASSUME pannes' = 0
               PROVE  /\ \A q \in Evenements : suite'[q].etat = "relire" => Facturee
                      /\ \A q \in Evenements :
                            Lance(suite'[q]) /\ Emet(suite'[q])
                               /\ suite'[q].etat \notin Recherche \cup {"facturer"} => Facturee
                      /\ paiement = "a_la_reception" /\ Facturee =>
                            liens = 1 \/ \E q \in Evenements : Droit(suite'[q])
    BY DEF Lance, SansPanne, Facturee, Emet, Droit, Acceptation, Suivante
  <2>1. pannes = 0
    BY DEF IInv, EffetsTypes
  <2>2. \A q \in Evenements : Droit(suite[q]) => Droit(suite'[q])
    BY <1>1
  <2>3. QED
    BY <1>1, <2>1, <2>2 DEF IInv, SansPanne, Lance
<1>9. MessagesTenus'
  <2>1. \A q \in Evenements : Avises(suite'[q], messages'[q], absents[q])
    BY <1>1 DEF IInv, MessagesTenus
  <2>2. QED
    BY <2>1 DEF Lance, IInv, MessagesTenus, Avises, Acceptation, Suivante
<1>10. QED
  BY <1>2, <1>3, <1>4, <1>6, <1>7, <1>8, <1>9 DEF IInv

\* What a request is, spelled out.
LEMMA SuiteTypee ==
    ASSUME IInv, NEW r \in Evenements
    PROVE  /\ suite[r] \in Suite /\ Place(suite[r])
           /\ Avises(suite[r], messages[r], absents[r])
           /\ pannes \in Nat /\ absents[r] \in SUBSET Abonnes
           /\ messages[r] \in [Destinations -> Nat]
           /\ messages \in [Evenements -> [Destinations -> Nat]]
           /\ AFacturer(r) <=> Emet(suite[r])
  BY DEF IInv, EffetsTypes, MessagesTenus, Suite, AFacturer, Emet

\* A request that changes its place keeps the rest.
LEMMA AllerType ==
    ASSUME NEW s \in Suite, NEW e \in Etats, NEW t, t = [s EXCEPT !.etat = e]
    PROVE  /\ t \in Suite /\ t.etat = e /\ t.code = s.code /\ t.sort = s.sort
           /\ t.reste = s.reste /\ t.visible = s.visible
           /\ Acceptation(t) <=> Acceptation(s)
           /\ Emet(t) <=> Emet(s)
           /\ Lance(t) <=> Lance(s)
  BY DEF Suite, Acceptation, Emet, Lance

-----------------------------------------------------------------------------
(* The steps of the effects that only move their request *)

LEMMA FacturerTenu ==
    ASSUME IInv, NEW r \in Evenements, Facturer(r)
    PROVE  IInv'
<1> DEFINE e == IF Emet(suite[r]) THEN "lire" ELSE "notifier"
           t == [suite[r] EXCEPT !.etat = e]
<1>1. suite[r].etat = "facturer" /\ Lance(suite[r])
  BY SuiteTypee DEF Lance, Facturer, Place, Suivante
<1>2. suite' = [suite EXCEPT ![r] = t]
  BY SuiteTypee DEF Facturer, Aller
<1>3. /\ t \in Suite /\ t.etat = e /\ t.code = suite[r].code /\ t.sort = suite[r].sort
      /\ Acceptation(t) <=> Acceptation(suite[r])
      /\ Emet(t) <=> Emet(suite[r])
  BY SuiteTypee, AllerType, e \in Etats DEF Etats
<1> HIDE DEF t
<1>4. Place(t) /\ (Droit(t) <=> Droit(suite[r]))
  BY <1>1, <1>3 DEF Lance, Place, Droit, Recherche, Emet, Acceptation, PrisesEnCharge, Suivante
<1>5. Avises(t, messages[r], absents[r])
  BY <1>1, <1>3, SuiteTypee DEF Lance, Avises, Recherche, Suivante
<1>6. pannes' \in Nat /\ pannes' >= pannes
  BY SuiteTypee DEF Facturer
<1>7. QED
  BY <1>1, <1>2, <1>3, <1>4, <1>5, <1>6, AllerTenu, SuiteTypee DEF Facturer, Recherche, Lance

\* An invoice the request sees is committed, or it is the one of its own acceptance.
LEMMA VisiblesTenues ==
    ASSUME IInv, NEW r \in Evenements, suite[r].etat \in Recherche, Visibles(r) # {}
    PROVE  IF Acceptation(suite[r]) THEN \E f \in factures : f.par = r ELSE Facturee
<1>1. PICK f \in factures : f.validee \/ f.par = r
  BY DEF Visibles
<1>2. CASE Acceptation(suite[r])
  <2>1. ~Facturee
    BY <1>2, SuiteTypee DEF Lance, IInv, PropositionTenue, Place, Recherche, Suivante
  <2>2. QED
    BY <1>1, <1>2, <2>1 DEF Facturee
<1>3. CASE ~Acceptation(suite[r])
  BY <1>1, <1>3 DEF IInv, FacturesTenues, Facturee, Soutient, Lance, Acceptation
<1>4. QED
  BY <1>2, <1>3

\* Reading the invoice, found or not, in a first or in a second look.
LEMMA LectureTenue ==
    ASSUME IInv, NEW r \in Evenements, NEW t \in Suite, suite' = [suite EXCEPT ![r] = t],
           UNCHANGED <<paiement, chiffre, propose, factures, liens, abonnement, messages, absents,
                       pannes>>,
           suite[r].etat \in {"lire", "relire"}, t.code = suite[r].code, t.sort = suite[r].sort,
           \/ Visibles(r) # {} /\ t.etat = ApresFacture(r, FALSE)
           \/ Visibles(r) = {} /\ t.etat = "creer"
           \/ /\ Visibles(r) = {} /\ t.etat = "notifier" /\ suite[r].etat = "relire"
              /\ suite[r].sort # "ouvert"
    PROVE  IInv'
<1>1. /\ Acceptation(t) <=> Acceptation(suite[r])
      /\ Emet(t) <=> Emet(suite[r])
      /\ suite[r].etat \in Recherche
      /\ IF Acceptation(suite[r]) THEN suite[r].sort = "ouvert" ELSE Lance(suite[r])
      /\ ~Acceptation(suite[r]) => Emet(suite[r])
  BY SuiteTypee DEF Lance, Acceptation, Emet, Place, Recherche, Suivante
<1>2. t.etat \in {"creer", "valider", "notifier"}
      /\ (t.etat = "valider" => Acceptation(t) /\ Visibles(r) # {})
      /\ (t.etat = "notifier" => ~Acceptation(t))
  BY <1>1 DEF ApresFacture, Acceptation
<1>3. Place(t) /\ ~Droit(t) /\ ~Droit(suite[r])
  BY <1>1, <1>2 DEF Lance, Place, Droit, Recherche, Acceptation, Suivante
<1>4. t.etat = "valider" => \E f \in factures : f.par = r
  BY <1>1, <1>2, VisiblesTenues
<1>5. pannes' = 0 /\ t.etat = "notifier" => Facturee
  <2>1. pannes = 0 /\ suite[r].etat = "relire" => Facturee
    BY DEF IInv, SansPanne, Lance
  <2>2. QED
    BY <1>1, <1>2, <2>1, VisiblesTenues
<1>6. Avises(t, messages[r], absents[r])
  BY <1>1, <1>2, SuiteTypee DEF Lance, Avises, Recherche, Suivante
<1>7. pannes' \in Nat /\ pannes' >= pannes
  BY SuiteTypee
<1>8. Lance(t) /\ Emet(t) /\ t.etat \notin Recherche \cup {"facturer"} =>
         t.etat = "notifier"
  BY <1>1, <1>2 DEF Recherche, Lance
<1>9. QED
  BY <1>1, <1>2, <1>3, <1>4, <1>5, <1>6, <1>7, <1>8, AllerTenu, SuiteTypee

LEMMA LireTenu ==
    ASSUME IInv, NEW r \in Evenements, LireFacture(r)
    PROVE  IInv'
<1> DEFINE e == IF Visibles(r) # {} THEN ApresFacture(r, FALSE) ELSE "creer"
           t == [suite[r] EXCEPT !.etat = e]
<1>1. suite' = [suite EXCEPT ![r] = t]
  BY SuiteTypee DEF LireFacture, Aller
<1>2. e \in Etats
  BY DEF Etats, ApresFacture
<1>3. \/ Visibles(r) # {} /\ e = ApresFacture(r, FALSE)
      \/ Visibles(r) = {} /\ e = "creer"
  OBVIOUS
<1> HIDE DEF e
<1>4. t \in Suite /\ t.etat = e /\ t.code = suite[r].code /\ t.sort = suite[r].sort
  BY <1>2, SuiteTypee, AllerType
<1> HIDE DEF t
<1>5. suite[r].etat = "lire"
      /\ UNCHANGED <<paiement, chiffre, propose, factures, liens, abonnement, messages, absents,
                     pannes>>
  BY DEF LireFacture
<1>6. QED
  BY <1>1, <1>3, <1>4, <1>5, LectureTenue

\* The transaction of the request is undone, with the invoice it had inserted: it ends there, or
\* its effects run because it is its COMMIT that failed.
LEMMA AnnulationTenue ==
    ASSUME Hypotheses, IInv, NEW r \in Evenements, NEW t \in Suite, suite[r].sort = "ouvert",
           suite' = [suite EXCEPT ![r] = t],
           \/ t.etat = "fini" /\ t.sort = "annule"
           \/ t.etat = "facturer" /\ t.sort = "perdu" /\ suite[r].etat = "valider",
           t.code = suite[r].code,
           factures' = {f \in factures : f.par # r}, pannes' \in Nat, pannes' # 0,
           UNCHANGED <<paiement, chiffre, propose, liens, abonnement, messages, absents>>
    PROVE  IInv'
<1>1. /\ suite' \in [Evenements -> Suite]
      /\ suite'[r] = t /\ \A q \in Evenements \ {r} : suite'[q] = suite[q]
  BY SuiteApres DEF IInv
<1>2. EffetsTypes'
  BY <1>1 DEF IInv, EffetsTypes
<1>3. (\A q \in Evenements : Place(suite[q]))'
  BY <1>1 DEF Lance, IInv, Place, Emet, Acceptation, Recherche, Suivante
<1>4. \A f \in factures : f.validee => f \in factures'
  BY DEF IInv, FacturesTenues, Hypotheses, Soutient, Lance, Acceptation
<1>5. Facturee' <=> Facturee
  BY <1>4 DEF Facturee
<1>6. FacturesTenues'
  <2>1. \A f, g \in factures' : f = g
    BY DEF IInv, FacturesTenues, Soutient, Lance, Acceptation
  <2>2. ASSUME NEW f \in factures'
        PROVE  IF f.validee THEN f.par = "declaration" \/ Soutient(suite'[f.par])
               ELSE /\ f.par \in Evenements
                    /\ suite'[f.par].etat = "valider" /\ Acceptation(suite'[f.par])
    <3>1. f.par \in (Evenements \ {r}) \cup {"declaration"}
      BY DEF IInv, EffetsTypes
    <3>2. IF f.validee THEN f.par = "declaration" \/ Soutient(suite[f.par])
          ELSE /\ f.par \in Evenements
               /\ suite[f.par].etat = "valider" /\ Acceptation(suite[f.par])
      BY DEF IInv, FacturesTenues, Soutient, Lance, Acceptation
    <3>3. QED
      BY <3>1, <3>2, <1>1
  <2>3. ASSUME NEW q \in Evenements, suite'[q].etat = "valider", Acceptation(suite'[q])
        PROVE  \E f \in factures' : f.par = q
    BY <1>1, <2>3 DEF IInv, FacturesTenues, Soutient, Lance, Acceptation
  <2>4. QED
    BY <2>1, <2>2, <2>3 DEF FacturesTenues, Acceptation, Soutient, Lance
<1>7. \A q \in Evenements : Droit(suite'[q]) => Droit(suite[q])
  BY <1>1 DEF Lance, Droit, Suivante
<1>8. LiensTenus'
  <2>1. \A q \in Evenements : Droit(suite'[q]) =>
           liens = 0 /\ Facturee /\ \A p \in Evenements : Droit(suite'[p]) => p = q
    BY <1>7 DEF IInv, LiensTenus
  <2>2. QED
    BY <2>1, <1>5 DEF Lance, IInv, LiensTenus, Droit, Acceptation, Suivante
<1>9. PropositionTenue'
  BY <1>1, <1>5 DEF IInv, PropositionTenue, Acceptation
<1>10. SansPanne'
  BY DEF SansPanne, Lance
<1>11. MessagesTenus'
  <2>1. Avises(t, messages[r], absents[r])
    BY SuiteTypee DEF Lance, Avises, Recherche, Suivante
  <2>2. \A q \in Evenements : Avises(suite'[q], messages[q], absents[q])
    BY <1>1, <2>1 DEF IInv, MessagesTenus
  <2>3. QED
    BY <2>2 DEF Lance, IInv, MessagesTenus, Avises, Acceptation, Suivante
<1>12. QED
  BY <1>2, <1>3, <1>6, <1>8, <1>9, <1>10, <1>11 DEF IInv

LEMMA RelireTenu ==
    ASSUME Hypotheses, IInv, NEW r \in Evenements, RelireFacture(r)
    PROVE  IInv'
<1> DEFINE n == suite[r].essai + 1
           t1 == [suite[r] EXCEPT !.etat = ApresFacture(r, FALSE)]
           t2 == [suite[r] EXCEPT !.etat = "creer", !.essai = n]
           t3 == [suite[r] EXCEPT !.etat = "fini", !.sort = "annule"]
           t4 == [suite[r] EXCEPT !.etat = "notifier"]
<1>1. suite[r] \in Suite /\ suite[r].etat = "relire" /\ pannes \in Nat
  BY SuiteTypee DEF RelireFacture
<1>2. UNCHANGED <<paiement, chiffre, propose, factures, liens, abonnement, messages, absents,
                  pannes>>
  BY DEF RelireFacture
<1>3. \/ Visibles(r) # {} /\ suite' = [suite EXCEPT ![r] = t1]
      \/ Visibles(r) = {} /\ suite' = [suite EXCEPT ![r] = t2]
      \/ Visibles(r) = {} /\ suite[r].sort = "ouvert" /\ suite' = [suite EXCEPT ![r] = t3]
      \/ Visibles(r) = {} /\ suite[r].sort # "ouvert" /\ suite' = [suite EXCEPT ![r] = t4]
  BY DEF RelireFacture
<1>4. CASE Visibles(r) # {} /\ suite' = [suite EXCEPT ![r] = t1]
  <2>1. /\ t1 \in Suite /\ t1.code = suite[r].code /\ t1.sort = suite[r].sort
        /\ t1.etat = ApresFacture(r, FALSE)
    BY <1>1, ApresFacture(r, FALSE) \in Etats DEF ApresFacture, Suite, Etats
  <2> HIDE DEF t1
  <2>2. QED
    BY <1>1, <1>2, <1>4, <2>1, LectureTenue
<1>5. CASE Visibles(r) = {} /\ suite' = [suite EXCEPT ![r] = t2]
  <2>1. /\ t2 \in Suite /\ t2.code = suite[r].code /\ t2.sort = suite[r].sort
        /\ t2.etat = "creer"
    <3>1. n \in Nat
      BY <1>1 DEF Suite
    <3> HIDE DEF n
    <3>2. QED
      BY <1>1, <3>1 DEF Suite, Etats
  <2> HIDE DEF t2
  <2>2. QED
    BY <1>1, <1>2, <1>5, <2>1, LectureTenue
<1>6. CASE Visibles(r) = {} /\ suite[r].sort = "ouvert" /\ suite' = [suite EXCEPT ![r] = t3]
  <2>1. t3 \in Suite /\ t3.code = suite[r].code /\ t3.sort = "annule" /\ t3.etat = "fini"
    BY <1>1 DEF Suite, Etats
  <2>2. pannes # 0 /\ factures' = {f \in factures : f.par # r}
    <3>1. \A f \in factures : ~f.validee /\ f.par # r
      BY <1>6 DEF Visibles
    <3>2. pannes = 0 => Facturee
      BY <1>1 DEF IInv, SansPanne, Lance
    <3>3. QED
      BY <3>1, <3>2, <1>2 DEF Facturee
  <2> HIDE DEF t3
  <2>3. QED
    BY <1>1, <1>2, <1>6, <2>1, <2>2, AnnulationTenue
<1>7. CASE Visibles(r) = {} /\ suite[r].sort # "ouvert" /\ suite' = [suite EXCEPT ![r] = t4]
  <2>1. /\ t4 \in Suite /\ t4.code = suite[r].code /\ t4.sort = suite[r].sort
        /\ t4.etat = "notifier"
    BY <1>1 DEF Suite, Etats
  <2> HIDE DEF t4
  <2>2. QED
    BY <1>1, <1>2, <1>7, <2>1, LectureTenue
<1>8. QED
  BY <1>3, <1>4, <1>5, <1>6, <1>7

LEMMA AnnulerTenu ==
    ASSUME Hypotheses, IInv, NEW r \in Evenements, Annuler(r)
    PROVE  IInv'
<1> DEFINE t == [suite[r] EXCEPT !.etat = "fini", !.sort = "annule"]
<1>1. t \in Suite /\ t.code = suite[r].code /\ t.sort = "annule" /\ t.etat = "fini"
  BY SuiteTypee DEF Suite, Etats
<1>2. suite' = [suite EXCEPT ![r] = t]
  BY SuiteTypee DEF Annuler, IInv, EffetsTypes
<1>3. pannes' \in Nat /\ pannes' # 0
  BY SuiteTypee DEF Annuler
<1> HIDE DEF t
<1>4. QED
  BY <1>1, <1>2, <1>3, AnnulationTenue DEF Annuler

LEMMA CommitEnEchecTenu ==
    ASSUME Hypotheses, IInv, NEW r \in Evenements, CommitEnEchec(r)
    PROVE  IInv'
<1> DEFINE t == [suite[r] EXCEPT !.etat = "facturer", !.sort = "perdu"]
<1>1. t \in Suite /\ t.code = suite[r].code /\ t.sort = "perdu" /\ t.etat = "facturer"
  BY SuiteTypee DEF Suite, Etats
<1>2. suite' = [suite EXCEPT ![r] = t]
  BY SuiteTypee DEF CommitEnEchec, IInv, EffetsTypes
<1>3. pannes' \in Nat /\ pannes' # 0 /\ suite[r].etat = "valider" /\ suite[r].sort = "ouvert"
  BY SuiteTypee DEF CommitEnEchec, Place
<1> HIDE DEF t
<1>4. QED
  BY <1>1, <1>2, <1>3, AnnulationTenue DEF CommitEnEchec

\* Back to the search of the invoice: the reference is taken, or the invoice is there.
LEMMA RepriseTenue ==
    ASSUME IInv, NEW r \in Evenements, suite[r].etat = "creer", Aller(r, "relire"),
           pannes' \in Nat, pannes' >= pannes, pannes' = 0 => Facturee,
           UNCHANGED <<paiement, chiffre, propose, factures, liens, abonnement, messages, absents>>
    PROVE  IInv'
<1> DEFINE t == [suite[r] EXCEPT !.etat = "relire"]
<1>1. /\ t \in Suite /\ t.etat = "relire" /\ t.code = suite[r].code /\ t.sort = suite[r].sort
      /\ Acceptation(t) <=> Acceptation(suite[r])
      /\ Emet(t) <=> Emet(suite[r])
  BY SuiteTypee, AllerType, "relire" \in Etats DEF Etats
<1>2. suite' = [suite EXCEPT ![r] = t]
  BY DEF Aller
<1> HIDE DEF t
<1>3. Place(t) /\ ~Droit(t) /\ ~Droit(suite[r])
  BY <1>1, SuiteTypee DEF Lance, Place, Droit, Recherche, Suivante
<1>4. Avises(t, messages[r], absents[r])
  BY <1>1, SuiteTypee DEF Lance, Avises, Recherche, Suivante
<1>5. QED
  BY <1>1, <1>2, <1>3, <1>4, AllerTenu, SuiteTypee DEF Recherche, Lance

LEMMA HeurterTenu ==
    ASSUME IInv, NEW r \in Evenements, HeurterReference(r)
    PROVE  IInv'
<1>1. pannes' \in Nat /\ pannes' >= pannes /\ pannes' # 0
  BY SuiteTypee DEF HeurterReference
<1>2. QED
  BY <1>1, RepriseTenue DEF HeurterReference

LEMMA DiffuserTenu ==
    ASSUME IInv, NEW r \in Evenements, Diffuser(r)
    PROVE  IInv'
<1> DEFINE actifs == {a \in Abonnes : abonnement[a] = "actif"}
           e == IF actifs = {} THEN Fin(r) ELSE "prevenir"
           t == [suite[r] EXCEPT !.etat = e, !.reste = actifs]
<1>1. suite[r].etat = "diffuser" /\ Lance(suite[r])
  BY SuiteTypee DEF Lance, Diffuser, Place, Suivante
<1>2. suite' = [suite EXCEPT ![r] = t]
  BY SuiteTypee DEF Diffuser, IInv, EffetsTypes
<1>3. e \in {"prevenir", Suivante(suite[r])}
  BY DEF Fin, Acceptation, Suivante
<1>4. actifs \subseteq Abonnes /\ actifs \cap absents[r] = {}
  BY DEF IInv, MessagesTenus
<1> HIDE DEF e, actifs
<1>5. /\ t \in Suite /\ t.etat = e /\ t.code = suite[r].code /\ t.sort = suite[r].sort
      /\ t.reste = actifs
  BY <1>3, <1>4, SuiteTypee DEF Suite, Etats, Suivante
<1> HIDE DEF t
<1>6. /\ Acceptation(t) <=> Acceptation(suite[r])
      /\ Emet(t) <=> Emet(suite[r])
  BY <1>5 DEF Acceptation, Emet
<1>7. Place(t) /\ (Droit(t) <=> Droit(suite[r]))
  BY <1>1, <1>3, <1>5, <1>6 DEF Lance, Place, Droit, Recherche, Suivante
<1>8. Avises(t, messages[r], absents[r])
  BY <1>1, <1>3, <1>4, <1>5, <1>6, SuiteTypee DEF Lance, Avises, Recherche, Suivante
<1>9. pannes' = 0 /\ Emet(t) => Facturee
  BY <1>1, <1>5, <1>6 DEF IInv, SansPanne, Diffuser, Recherche, Lance
<1>10. pannes' \in Nat /\ pannes' >= pannes
  BY SuiteTypee DEF Diffuser
<1>11. t.etat # "relire" /\ t.etat # "valider"
  BY <1>3, <1>5 DEF Suivante
<1>12. QED
  BY <1>1, <1>2, <1>5, <1>7, <1>8, <1>9, <1>10, <1>11, AllerTenu, SuiteTypee DEF Diffuser

\* A destination is crossed off, told or not.
LEMMA RetirerType ==
    ASSUME IInv, NEW r \in Evenements, NEW a \in Abonnes, suite[r].etat = "prevenir",
           Retirer(r, a)
    PROVE  \E t \in Suite :
              /\ suite' = [suite EXCEPT ![r] = t] /\ t.code = suite[r].code
              /\ t.sort = suite[r].sort /\ t.reste = suite[r].reste \ {a}
              /\ t.etat \in {"prevenir", Suivante(suite[r])}
              /\ Place(t) /\ (Droit(t) <=> Droit(suite[r]))
<1> DEFINE e == IF suite[r].reste = {a} THEN Fin(r) ELSE "prevenir"
           t == [suite[r] EXCEPT !.reste = @ \ {a}, !.etat = e]
<1>1. Lance(suite[r])
  BY SuiteTypee DEF Lance, Place, Suivante
<1>2. suite' = [suite EXCEPT ![r] = t]
  BY SuiteTypee DEF Retirer, IInv, EffetsTypes
<1>3. e \in {"prevenir", Suivante(suite[r])}
  BY DEF Fin, Acceptation, Suivante
<1> HIDE DEF e
<1>4. /\ t \in Suite /\ t.etat = e /\ t.code = suite[r].code /\ t.sort = suite[r].sort
      /\ t.reste = suite[r].reste \ {a}
  BY <1>3, SuiteTypee DEF Suite, Etats, Suivante
<1> HIDE DEF t
<1>5. Acceptation(t) <=> Acceptation(suite[r])
  BY <1>4 DEF Acceptation
<1>6. Place(t) /\ (Droit(t) <=> Droit(suite[r]))
  BY <1>1, <1>3, <1>4, <1>5 DEF Lance, Place, Droit, Recherche, Suivante
<1>7. QED
  BY <1>2, <1>3, <1>4, <1>6

LEMMA PrevenirTenu ==
    ASSUME IInv, NEW r \in Evenements, NEW a \in Abonnes, Prevenir(r, a)
    PROVE  IInv'
<1>1. PICK t \in Suite :
              /\ suite' = [suite EXCEPT ![r] = t] /\ t.code = suite[r].code
              /\ t.sort = suite[r].sort /\ t.reste = suite[r].reste \ {a}
              /\ t.etat \in {"prevenir", Suivante(suite[r])}
              /\ Place(t) /\ (Droit(t) <=> Droit(suite[r]))
  BY RetirerType DEF Prevenir
<1>2. suite[r].etat = "prevenir" /\ Lance(suite[r]) /\ a \in suite[r].reste
  BY SuiteTypee DEF Lance, Prevenir, Place, Suivante
<1>3. /\ messages' \in [Evenements -> [Destinations -> Nat]]
      /\ \A q \in Evenements \ {r} : messages'[q] = messages[q]
      /\ messages'[r] = [messages[r] EXCEPT ![a] = messages[r][a] + 1]
  <2> DEFINE m == [messages[r] EXCEPT ![a] = messages[r][a] + 1]
  <2>1. messages' = [messages EXCEPT ![r] = m]
    BY DEF Prevenir
  <2>2. m \in [Destinations -> Nat]
    BY SuiteTypee DEF Destinations
  <2> HIDE DEF m
  <2>3. /\ messages' \in [Evenements -> [Destinations -> Nat]]
        /\ \A q \in Evenements \ {r} : messages'[q] = messages[q]
        /\ messages'[r] = m
    BY <2>1, <2>2, SuiteTypee
  <2>4. QED
    BY <2>3 DEF m
<1>4. messages[r][a] = 0 /\ a \notin absents[r]
  BY <1>2, SuiteTypee DEF Lance, Avises, Destinations, Suivante
<1>5. \A d \in Destinations : messages'[r][d] = IF d = a THEN 1 ELSE messages[r][d]
  BY <1>3, <1>4, SuiteTypee
<1>6. Avises(t, messages'[r], absents[r])
  BY <1>1, <1>2, <1>4, <1>5, SuiteTypee DEF Lance, Avises, Recherche, Acceptation, Suivante
<1>7. pannes' = 0 /\ Emet(t) => Facturee
  BY <1>1, <1>2 DEF IInv, SansPanne, Prevenir, Recherche, Emet, Lance
<1>8. pannes' \in Nat /\ pannes' >= pannes
  BY SuiteTypee DEF Prevenir
<1>9. t.etat # "relire" /\ t.etat # "valider"
  BY <1>1 DEF Suivante
<1>10. QED
  BY <1>1, <1>2, <1>3, <1>6, <1>7, <1>8, <1>9, AllerTenu DEF Prevenir

LEMMA NotifierTenu ==
    ASSUME Hypotheses, IInv, NEW r \in Evenements, Notifier(r)
    PROVE  IInv'
<1> DEFINE e == IF suite[r].visible THEN "diffuser" ELSE Fin(r)
           t == [suite[r] EXCEPT !.etat = e]
<1>1. suite[r].etat = "notifier" /\ Lance(suite[r])
  BY SuiteTypee DEF Lance, Notifier, Place, Suivante
<1>2. suite' = [suite EXCEPT ![r] = t]
  BY DEF Notifier, Aller
<1>3. e \in {"diffuser", Suivante(suite[r])}
  BY DEF Fin, Acceptation, Suivante
<1>4. e = "diffuser" => suite[r].visible
  BY DEF Fin
<1> HIDE DEF e
<1>5. /\ t \in Suite /\ t.etat = e /\ t.code = suite[r].code /\ t.sort = suite[r].sort
      /\ Acceptation(t) <=> Acceptation(suite[r])
      /\ Emet(t) <=> Emet(suite[r])
  BY <1>3, SuiteTypee, AllerType, e \in Etats DEF Etats, Suivante
<1> HIDE DEF t
<1>6. Place(t) /\ (Droit(t) <=> Droit(suite[r]))
  BY <1>1, <1>3, <1>5 DEF Lance, Place, Droit, Recherche, Suivante
<1>7. /\ messages' \in [Evenements -> [Destinations -> Nat]]
      /\ \A q \in Evenements \ {r} : messages'[q] = messages[q]
      /\ \/ messages'[r] = messages[r]
         \/ messages'[r] = [messages[r] EXCEPT !["client"] = messages[r]["client"] + 1]
  <2> DEFINE m == [messages[r] EXCEPT !["client"] = messages[r]["client"] + 1]
  <2>1. messages' = messages \/ messages' = [messages EXCEPT ![r] = m]
    BY DEF Notifier
  <2>2. m \in [Destinations -> Nat]
    BY SuiteTypee DEF Destinations
  <2> HIDE DEF m
  <2>3. /\ messages' \in [Evenements -> [Destinations -> Nat]]
        /\ \A q \in Evenements \ {r} : messages'[q] = messages[q]
        /\ messages'[r] = messages[r] \/ messages'[r] = m
    BY <2>1, <2>2, SuiteTypee
  <2>4. QED
    BY <2>3 DEF m
<1>8. \A d \in Destinations : messages[r][d] = 0
  BY <1>1, SuiteTypee DEF Lance, Avises, Suivante
<1>9. \A d \in Destinations :
         messages'[r][d] = 0 \/ (d = "client" /\ messages'[r][d] = 1)
  BY <1>7, <1>8, SuiteTypee DEF Destinations
<1>10. "client" \notin absents[r] /\ "client" \notin Abonnes
  BY SuiteTypee DEF Hypotheses
<1>11. Avises(t, messages'[r], absents[r])
  BY <1>1, <1>3, <1>5, <1>9, <1>10 DEF Lance, Avises, Recherche, Acceptation, Suivante
<1>12. pannes' = 0 /\ Emet(t) => Facturee
  BY <1>1, <1>5 DEF IInv, SansPanne, Notifier, Recherche, Lance
<1>13. pannes' \in Nat /\ pannes' >= pannes
  BY SuiteTypee DEF Notifier
<1>14. t.etat # "relire" /\ t.etat # "valider"
  BY <1>3, <1>5 DEF Suivante
<1>15. QED
  BY <1>1, <1>2, <1>5, <1>6, <1>7, <1>11, <1>12, <1>13, <1>14, AllerTenu DEF Notifier

\* A step of the effects is given up, or all of those that remain.
LEMMA AbandonTenu ==
    ASSUME IInv, NEW r \in Evenements, NEW e \in Etats, Aller(r, e), Lance(suite[r]),
           suite[r].etat # "fini",
           pannes' \in Nat, pannes' >= pannes, pannes' # 0,
           UNCHANGED <<paiement, chiffre, propose, factures, liens, abonnement, messages, absents>>,
           \/ e = "fini"
           \/ /\ e = "notifier"
              /\ suite[r].etat \in {"lire", "creer"}
                    \/ (suite[r].etat = "lien" /\ ~Acceptation(suite[r]))
           \/ e = "diffuser" /\ suite[r].etat = "notifier"
           \/ e = "lien" /\ Acceptation(suite[r]) /\ suite[r].sort = "valide"
    PROVE  IInv'
<1> DEFINE t == [suite[r] EXCEPT !.etat = e]
<1>1. /\ t \in Suite /\ t.etat = e /\ t.code = suite[r].code /\ t.sort = suite[r].sort
      /\ Acceptation(t) <=> Acceptation(suite[r])
      /\ Emet(t) <=> Emet(suite[r])
  BY SuiteTypee, AllerType
<1>2. suite' = [suite EXCEPT ![r] = t]
  BY DEF Aller
<1> HIDE DEF t
<1>3. Place(t)
  BY <1>1 DEF Lance, Place, Recherche, Suivante
<1>4. Droit(t) => Droit(suite[r])
  BY <1>1, SuiteTypee DEF Lance, Droit, Place, Recherche, Suivante
<1>5. suite[r].etat # "valider"
  BY SuiteTypee DEF Lance, Place, Suivante
<1>6. Avises(t, messages[r], absents[r])
  BY <1>1, SuiteTypee DEF Lance, Avises, Recherche, Suivante
<1>7. QED
  BY <1>1, <1>2, <1>3, <1>4, <1>5, <1>6, AllerTenu, SuiteTypee

LEMMA EchouerTenu ==
    ASSUME IInv, NEW r \in Evenements, Echouer(r)
    PROVE  IInv'
<1>1. /\ pannes' \in Nat /\ pannes' >= pannes /\ pannes' # 0 /\ Lance(suite[r])
      /\ UNCHANGED <<paiement, chiffre, propose, factures, liens, abonnement, messages, absents>>
  BY SuiteTypee DEF Echouer
<1>2. Fin(r) = Suivante(suite[r])
  BY DEF Fin, Acceptation, Suivante
<1>3. {"fini", "notifier", "diffuser", "lien"} \subseteq Etats
  BY DEF Etats
<1>4. CASE suite[r].etat \in {"lire", "creer"} /\ Aller(r, "notifier")
  BY <1>1, <1>3, <1>4, AbandonTenu
<1>5. CASE suite[r].etat = "lien" /\ Aller(r, IF Fin(r) = "lien" THEN "fini" ELSE "notifier")
  <2>1. Acceptation(suite[r]) => Fin(r) = "lien"
    BY <1>2, <1>5, SuiteTypee DEF Place, Suivante
  <2>2. QED
    BY <1>1, <1>3, <1>5, <2>1, AbandonTenu
<1>6. CASE /\ suite[r].etat = "notifier"
           /\ Aller(r, IF suite[r].visible THEN "diffuser" ELSE Fin(r))
  BY <1>1, <1>2, <1>3, <1>6, AbandonTenu DEF Suivante
<1>7. CASE suite[r].etat = "diffuser" /\ Aller(r, Fin(r))
  BY <1>1, <1>2, <1>3, <1>7, AbandonTenu DEF Suivante
<1>8. CASE suite[r].etat = "prevenir" /\ \E a \in suite[r].reste : Retirer(r, a)
  <2>1. PICK a \in suite[r].reste : Retirer(r, a)
    BY <1>8
  <2>2. a \in Abonnes
    BY SuiteTypee DEF Suite
  <2>3. PICK t \in Suite :
              /\ suite' = [suite EXCEPT ![r] = t] /\ t.code = suite[r].code
              /\ t.sort = suite[r].sort /\ t.reste = suite[r].reste \ {a}
              /\ t.etat \in {"prevenir", Suivante(suite[r])}
              /\ Place(t) /\ (Droit(t) <=> Droit(suite[r]))
    BY <1>8, <2>1, <2>2, RetirerType
  <2>4. Avises(t, messages[r], absents[r])
    BY <1>1, <1>8, <2>3, SuiteTypee DEF Lance, Avises, Recherche, Acceptation, Suivante
  <2>5. t.etat # "valider"
    BY <2>3 DEF Suivante
  <2>6. QED
    BY <1>1, <1>8, <2>3, <2>4, <2>5, AllerTenu, SuiteTypee
<1>9. QED
  BY <1>4, <1>5, <1>6, <1>7, <1>8 DEF Echouer

LEMMA PerdreTenu ==
    ASSUME IInv, NEW r \in Evenements, Perdre(r)
    PROVE  IInv'
<1>1. /\ pannes' \in Nat /\ pannes' >= pannes /\ pannes' # 0 /\ "fini" \in Etats
  BY SuiteTypee DEF Perdre, Etats
<1>2. QED
  BY <1>1, AbandonTenu DEF Perdre

-----------------------------------------------------------------------------
(* The steps that write the invoice, its link, or the event *)

LEMMA CreerTenu ==
    ASSUME Hypotheses, IInv, NEW r \in Evenements, CreerFacture(r)
    PROVE  IInv'
<1>1. /\ suite[r].etat = "creer" /\ \A f \in factures : f.validee
      /\ UNCHANGED <<paiement, chiffre, propose, liens, abonnement, messages, absents, pannes>>
  BY DEF CreerFacture
<1>2. CASE factures # {}
  <2>1. Aller(r, "relire") /\ UNCHANGED factures /\ Facturee
    BY <1>1, <1>2 DEF CreerFacture, Facturee
  <2>2. pannes' \in Nat /\ pannes' >= pannes
    BY <1>1, SuiteTypee
  <2>3. QED
    BY <1>1, <2>1, <2>2, RepriseTenue
<1>3. CASE factures = {}
  <2> DEFINE e == IF Acceptation(suite[r]) THEN "valider" ELSE "lien"
             t == [suite[r] EXCEPT !.etat = e]
             v == Lance(suite[r])
             f0 == [par |-> r, validee |-> v]
  <2>1. suite' = [suite EXCEPT ![r] = t]
    BY <1>3 DEF CreerFacture, Aller, ApresFacture, Acceptation
  <2>2. factures' = {f0}
    BY <1>3 DEF CreerFacture
  <2>3. /\ t \in Suite /\ t.etat = e /\ t.code = suite[r].code /\ t.sort = suite[r].sort
        /\ Acceptation(t) <=> Acceptation(suite[r])
        /\ Emet(t) <=> Emet(suite[r])
    BY SuiteTypee, AllerType, e \in Etats DEF Etats
  <2>4. f0.par = r /\ (f0.validee <=> v) /\ f0 \in [par : Evenements \cup {"declaration"}, validee : BOOLEAN]
    <3>1. v \in BOOLEAN
      BY DEF Lance
    <3> HIDE DEF v
    <3>2. QED
      BY <3>1
  <2>5. v <=> ~Acceptation(suite[r])
    BY <1>1, SuiteTypee DEF Lance, Place, Recherche, Suivante
  <2>6. ~Acceptation(suite[r]) => Emet(suite[r])
    BY <1>1, SuiteTypee DEF Lance, Place, Recherche, Suivante
  <2>7. Acceptation(suite[r]) => suite[r].sort = "ouvert"
    BY <1>1, SuiteTypee DEF Lance, Place, Recherche, Suivante
  <2> HIDE DEF t, f0, v
  <2>8. /\ suite' \in [Evenements -> Suite]
        /\ suite'[r] = t /\ \A q \in Evenements \ {r} : suite'[q] = suite[q]
    BY <2>1, <2>3, SuiteApres DEF IInv
  <2>9. ~Facturee /\ liens = 0 /\ (Facturee' <=> v)
    BY <1>3, <2>2, <2>4 DEF Facturee, IInv, LiensTenus, EffetsTypes
  <2>10. \A q \in Evenements : ~Droit(suite[q])
    BY <2>9 DEF IInv, LiensTenus
  <2>11. Droit(t) <=> v
    BY <2>3, <2>5, <2>7 DEF Lance, Droit, v, Suivante
  <2>12. EffetsTypes'
    BY <1>1, <2>2, <2>4, <2>8 DEF IInv, EffetsTypes
  <2>13. (\A q \in Evenements : Place(suite[q]))'
    <3>1. Place(t)
      BY <2>3, <2>5, <2>6, <2>7 DEF Lance, Place, Recherche, v, Suivante
    <3>2. QED
      BY <1>1, <2>8, <3>1 DEF Lance, IInv, Place, Emet, Acceptation, Suivante
  <2>14. FacturesTenues'
    <3>1. ~v => suite'[r].etat = "valider" /\ Acceptation(suite'[r])
      BY <2>3, <2>5, <2>8
    <3>2. v => Soutient(suite'[r])
      BY <2>3, <2>5, <2>8 DEF v, Soutient, Lance
    <3>3. ASSUME NEW q \in Evenements, suite'[q].etat = "valider", Acceptation(suite'[q])
          PROVE  q = r
      BY <1>3, <2>8, <3>3 DEF IInv, FacturesTenues, Soutient, Lance, Acceptation
    <3>4. QED
      BY <2>2, <2>4, <3>1, <3>2, <3>3 DEF FacturesTenues, Acceptation, Soutient, Lance
  <2>15. LiensTenus'
    <3>1. \A q \in Evenements : Droit(suite'[q]) => q = r /\ v
      BY <2>8, <2>10, <2>11
    <3>2. QED
      BY <1>1, <2>9, <3>1 DEF Lance, LiensTenus, Droit, Acceptation, Suivante
  <2>16. PropositionTenue'
    <3>1. v => ~propose
      BY <2>5, <2>6 DEF IInv, PropositionTenue, Emet
    <3>2. QED
      BY <1>1, <2>3, <2>8, <2>9, <3>1 DEF IInv, PropositionTenue, Acceptation
  <2>17. SansPanne'
    <3>1. v => Droit(suite'[r])
      BY <2>8, <2>11
    <3>2. ASSUME pannes = 0, NEW q \in Evenements, suite'[q].etat = "relire"
          PROVE  v
      BY <2>3, <2>8, <2>9, <3>2 DEF IInv, SansPanne, Lance
    <3>3. ASSUME pannes = 0, NEW q \in Evenements, Lance(suite'[q]), Emet(suite'[q]),
                 suite'[q].etat \notin Recherche \cup {"facturer"}
          PROVE  v
      <4>1. CASE q = r
        BY <2>3, <2>8, <3>3, <4>1 DEF v, Lance
      <4>2. CASE q # r
        BY <2>8, <2>9, <3>3, <4>2 DEF IInv, SansPanne, Lance
      <4>3. QED
        BY <4>1, <4>2
    <3>4. QED
      BY <1>1, <2>9, <3>1, <3>2, <3>3 DEF Lance, SansPanne, Emet, Droit, Acceptation, Suivante
  <2>18. MessagesTenus'
    <3>1. Avises(t, messages[r], absents[r])
      BY <1>1, <2>3, SuiteTypee DEF Lance, Avises, Recherche, Suivante
    <3>2. \A q \in Evenements : Avises(suite'[q], messages[q], absents[q])
      BY <2>8, <3>1 DEF IInv, MessagesTenus
    <3>3. QED
      BY <1>1, <3>2 DEF Lance, IInv, MessagesTenus, Avises, Acceptation, Suivante
  <2>19. QED
    BY <2>12, <2>13, <2>14, <2>15, <2>16, <2>17, <2>18 DEF IInv
<1>4. QED
  BY <1>2, <1>3

LEMMA EnvoyerTenu ==
    ASSUME IInv, NEW r \in Evenements, EnvoyerLien(r)
    PROVE  IInv'
<1> DEFINE e == IF Acceptation(suite[r]) THEN "fini" ELSE "notifier"
           t == [suite[r] EXCEPT !.etat = e]
<1>1. /\ suite[r].etat = "lien" /\ Lance(suite[r]) /\ Droit(suite[r])
      /\ UNCHANGED <<paiement, chiffre, propose, factures, abonnement, messages, absents, pannes>>
  BY SuiteTypee DEF Lance, EnvoyerLien, Place, Droit, Suivante
<1>2. suite' = [suite EXCEPT ![r] = t]
  BY DEF EnvoyerLien, Aller, Acceptation
<1>3. /\ t \in Suite /\ t.etat = e /\ t.code = suite[r].code /\ t.sort = suite[r].sort
      /\ Acceptation(t) <=> Acceptation(suite[r])
      /\ Emet(t) <=> Emet(suite[r])
  BY SuiteTypee, AllerType, e \in Etats DEF Etats
<1>4. liens = 0 /\ Facturee /\ \A q \in Evenements : Droit(suite[q]) => q = r
  BY <1>1 DEF IInv, LiensTenus
<1>5. liens' = 1
  BY <1>4 DEF EnvoyerLien
<1> HIDE DEF t
<1>6. /\ suite' \in [Evenements -> Suite]
      /\ suite'[r] = t /\ \A q \in Evenements \ {r} : suite'[q] = suite[q]
  BY <1>2, <1>3, SuiteApres DEF IInv
<1>7. ~Droit(t) /\ Place(t) /\ t.etat \in {"fini", "notifier"}
  BY <1>1, <1>3 DEF Lance, Droit, Place, Recherche, Suivante
<1>8. EffetsTypes'
  BY <1>1, <1>5, <1>6 DEF IInv, EffetsTypes
<1>9. (\A q \in Evenements : Place(suite[q]))'
  BY <1>1, <1>6, <1>7 DEF Lance, IInv, Place, Emet, Acceptation, Suivante
<1>10. FacturesTenues'
  <2>1. ASSUME NEW f \in factures
        PROVE  IF f.validee THEN f.par = "declaration" \/ Soutient(suite'[f.par])
               ELSE /\ f.par \in Evenements
                    /\ suite'[f.par].etat = "valider" /\ Acceptation(suite'[f.par])
    <3>1. f.par \in Evenements \cup {"declaration"}
      BY DEF IInv, EffetsTypes
    <3>2. IF f.validee THEN f.par = "declaration" \/ Soutient(suite[f.par])
          ELSE /\ f.par \in Evenements
               /\ suite[f.par].etat = "valider" /\ Acceptation(suite[f.par])
      BY DEF IInv, FacturesTenues, Soutient, Lance, Acceptation
    <3>3. QED
      BY <1>1, <1>3, <1>6, <3>1, <3>2 DEF Soutient, Lance, Acceptation
  <2>2. \A f, g \in factures : f = g
    BY DEF IInv, FacturesTenues, Soutient, Lance, Acceptation
  <2>3. ASSUME NEW q \in Evenements, suite'[q].etat = "valider", Acceptation(suite'[q])
        PROVE  \E f \in factures : f.par = q
    BY <1>6, <1>7, <2>3 DEF IInv, FacturesTenues, Soutient, Lance, Acceptation
  <2>4. QED
    BY <1>1, <2>1, <2>2, <2>3 DEF FacturesTenues, Acceptation, Soutient, Lance
<1>11. Facturee' /\ \A q \in Evenements : ~Droit(suite'[q])
  BY <1>1, <1>4, <1>6, <1>7 DEF Facturee
<1>12. LiensTenus'
  BY <1>5, <1>11 DEF Lance, LiensTenus, Droit, Acceptation, Suivante
<1>13. PropositionTenue'
  <2>1. ~propose
    BY <1>4 DEF IInv, PropositionTenue
  <2>2. QED
    BY <1>1, <1>3, <1>6, <2>1 DEF IInv, PropositionTenue, Acceptation
<1>14. SansPanne'
  BY <1>5, <1>11 DEF SansPanne, Lance
<1>15. MessagesTenus'
  <2>1. Avises(t, messages[r], absents[r])
    BY <1>1, <1>3, <1>7, SuiteTypee DEF Lance, Avises, Recherche, Suivante
  <2>2. \A q \in Evenements : Avises(suite'[q], messages[q], absents[q])
    BY <1>6, <2>1 DEF IInv, MessagesTenus
  <2>3. QED
    BY <1>1, <2>2 DEF Lance, IInv, MessagesTenus, Avises, Acceptation, Suivante
<1>16. QED
  BY <1>8, <1>9, <1>10, <1>12, <1>13, <1>14, <1>15 DEF IInv

\* The event is recorded: who had unsubscribed is remembered, nothing is sent yet.
LEMMA EnregistrerTenu ==
    ASSUME Hypotheses, IInv, NEW r \in Evenements, NEW code \in Etapes,
           NEW englobe \in BOOLEAN, NEW visible \in BOOLEAN, Enregistrer(r, code, englobe, visible)
    PROVE  IInv'
<1> DEFINE e == ApresEvenement(code, englobe)
           o == IF englobe THEN "ouvert" ELSE "valide"
           t == [Repos EXCEPT !.etat = e, !.code = code, !.visible = visible, !.sort = o]
           abs == {a \in Abonnes : abonnement[a] # "actif"}
<1>1. /\ suite[r].etat = "repos" /\ suite[r].sort = "aucun" /\ ~Verrouille
      /\ code = "DEVIS_ACCEPTE" => propose /\ englobe
      /\ UNCHANGED <<paiement, chiffre, propose, factures, liens, abonnement, messages, pannes>>
  BY SuiteTypee DEF Lance, Enregistrer, Place, Suivante
<1>2. suite' = [suite EXCEPT ![r] = t]
  BY DEF Enregistrer
<1>3. absents' = [absents EXCEPT ![r] = abs]
  BY DEF Enregistrer
<1>4. /\ IF code = "DEVIS_ACCEPTE" THEN e = "lire" /\ o = "ouvert"
         ELSE (e = "valider" /\ o = "ouvert") \/ (e = "facturer" /\ o = "valide")
      /\ e \in Etats /\ o \in {"ouvert", "valide"}
  <2>1. (o = "ouvert" /\ englobe) \/ (o = "valide" /\ ~englobe)
    OBVIOUS
  <2>2. \/ e = "lire" /\ code = "DEVIS_ACCEPTE"
        \/ e = "valider" /\ code # "DEVIS_ACCEPTE" /\ englobe
        \/ e = "facturer" /\ code # "DEVIS_ACCEPTE" /\ ~englobe
    BY DEF ApresEvenement
  <2> HIDE DEF e, o
  <2>3. QED
    BY <1>1, <2>1, <2>2 DEF Etats
<1>5. code \in PrisesEnCharge \cup {"DEVIS_ACCEPTE", "INFO"}
  BY DEF Hypotheses
<1> HIDE DEF e, o
<1>6. t \in Suite /\ t.etat = e /\ t.code = code /\ t.sort = o
  BY <1>4, <1>5 DEF Repos, Suite
<1> HIDE DEF t
<1>7. /\ suite' \in [Evenements -> Suite]
      /\ suite'[r] = t /\ \A q \in Evenements \ {r} : suite'[q] = suite[q]
  BY <1>2, <1>6, SuiteApres DEF IInv
<1>8. /\ absents' \in [Evenements -> SUBSET Abonnes]
      /\ absents'[r] = abs /\ \A q \in Evenements \ {r} : absents'[q] = absents[q]
  BY <1>3 DEF IInv, EffetsTypes
<1>9. Place(t) /\ ~Droit(t)
  BY <1>4, <1>6 DEF Lance, Place, Droit, Recherche, Acceptation, Suivante
<1>10. EffetsTypes'
  BY <1>1, <1>7, <1>8 DEF IInv, EffetsTypes
<1>11. (\A q \in Evenements : Place(suite[q]))'
  BY <1>1, <1>7, <1>9 DEF Lance, IInv, Place, Emet, Acceptation, Suivante
<1>12. FacturesTenues'
  <2>1. ASSUME NEW f \in factures
        PROVE  IF f.validee THEN f.par = "declaration" \/ Soutient(suite'[f.par])
               ELSE /\ f.par \in Evenements
                    /\ suite'[f.par].etat = "valider" /\ Acceptation(suite'[f.par])
    <3>1. f.par \in Evenements \cup {"declaration"}
      BY DEF IInv, EffetsTypes
    <3>2. IF f.validee THEN f.par = "declaration" \/ Soutient(suite[f.par])
          ELSE /\ f.par \in Evenements
               /\ suite[f.par].etat = "valider" /\ Acceptation(suite[f.par])
      BY DEF IInv, FacturesTenues, Soutient, Lance, Acceptation
    <3>3. QED
      BY <1>1, <1>7, <3>1, <3>2 DEF Soutient, Lance, Acceptation
  <2>2. \A f, g \in factures : f = g
    BY DEF IInv, FacturesTenues, Soutient, Lance, Acceptation
  <2>3. ASSUME NEW q \in Evenements, suite'[q].etat = "valider", Acceptation(suite'[q])
        PROVE  \E f \in factures : f.par = q
    <3>1. q # r
      BY <1>4, <1>6, <1>7, <2>3 DEF Acceptation
    <3>2. QED
      BY <1>7, <2>3, <3>1 DEF IInv, FacturesTenues, Soutient, Lance, Acceptation
  <2>4. QED
    BY <1>1, <2>1, <2>2, <2>3 DEF FacturesTenues, Acceptation, Soutient, Lance
<1>13. Facturee' <=> Facturee
  BY <1>1 DEF Facturee
<1>14. \A q \in Evenements : Droit(suite'[q]) <=> Droit(suite[q])
  BY <1>1, <1>7, <1>9 DEF Lance, Droit, Suivante
<1>15. LiensTenus'
  <2>1. \A q \in Evenements : Droit(suite'[q]) =>
           liens = 0 /\ Facturee /\ \A p \in Evenements : Droit(suite'[p]) => p = q
    BY <1>14 DEF IInv, LiensTenus
  <2>2. QED
    BY <1>1, <1>13, <2>1 DEF Lance, IInv, LiensTenus, Droit, Acceptation, Suivante
<1>16. PropositionTenue'
  <2>1. \A q \in Evenements : suite'[q].sort = "ouvert" => q = r
    BY <1>1, <1>7 DEF Verrouille
  <2>2. Acceptation(t) => propose
    BY <1>1, <1>6 DEF Acceptation
  <2>3. QED
    BY <1>1, <1>7, <1>13, <2>1, <2>2 DEF IInv, PropositionTenue, Acceptation
<1>17. SansPanne'
  <2> SUFFICES ASSUME pannes = 0
               PROVE  /\ \A q \in Evenements : suite'[q].etat = "relire" => Facturee
                      /\ \A q \in Evenements :
                            Lance(suite'[q]) /\ Emet(suite'[q])
                               /\ suite'[q].etat \notin Recherche \cup {"facturer"} => Facturee
                      /\ paiement = "a_la_reception" /\ Facturee =>
                            liens = 1 \/ \E q \in Evenements : Droit(suite'[q])
    BY <1>1, <1>13 DEF Lance, SansPanne, Emet, Droit, Acceptation, Suivante
  <2>1. t.etat # "relire" /\ ~(Lance(t) /\ t.etat \notin Recherche \cup {"facturer"})
    BY <1>4, <1>6 DEF Lance, Recherche
  <2>2. QED
    BY <1>7, <1>14, <2>1 DEF IInv, SansPanne, Lance
<1>18. MessagesTenus'
  <2>1. Avises(t, messages[r], abs)
    BY <1>1, <1>4, <1>6, SuiteTypee DEF Lance, Avises, Recherche, Suivante
  <2>2. \A q \in Evenements : Avises(suite'[q], messages[q], absents'[q])
    BY <1>7, <1>8, <2>1 DEF IInv, MessagesTenus
  <2>3. \A q \in Evenements : \A a \in absents'[q] : abonnement[a] # "actif"
    BY <1>8 DEF IInv, MessagesTenus
  <2>4. QED
    BY <1>1, <2>2, <2>3 DEF Lance, MessagesTenus, Avises, Acceptation, Suivante
<1>19. QED
  BY <1>10, <1>11, <1>12, <1>15, <1>16, <1>17, <1>18 DEF IInv

\* COMMIT: the invoice of an acceptance becomes visible, and with it the right to its link.
LEMMA ValiderTenu ==
    ASSUME Hypotheses, IInv, NEW r \in Evenements, Valider(r)
    PROVE  IInv'
<1> DEFINE t == [suite[r] EXCEPT !.etat = "facturer", !.sort = "valide"]
           apres(f) == [f EXCEPT !.validee = @ \/ f.par = r]
<1>1. /\ suite[r].etat = "valider" /\ suite[r].sort = "ouvert"
      /\ propose' = (propose /\ ~Acceptation(suite[r]))
      /\ UNCHANGED <<paiement, chiffre, liens, abonnement, messages, absents, pannes>>
  BY SuiteTypee DEF Lance, Valider, Place, Acceptation, Suivante
<1>2. suite' = [suite EXCEPT ![r] = t]
  BY SuiteTypee DEF Valider, IInv, EffetsTypes
<1>3. /\ t \in Suite /\ t.code = suite[r].code /\ t.sort = "valide" /\ t.etat = "facturer"
      /\ Acceptation(t) <=> Acceptation(suite[r])
  BY SuiteTypee DEF Suite, Etats, Acceptation
<1> HIDE DEF t
<1>4. /\ suite' \in [Evenements -> Suite]
      /\ suite'[r] = t /\ \A q \in Evenements \ {r} : suite'[q] = suite[q]
  BY <1>2, <1>3, SuiteApres DEF IInv
<1>5. factures' = {apres(f) : f \in factures}
  BY DEF Valider
<1>6. \A f \in factures : /\ apres(f) \in [par : Evenements \cup {"declaration"}, validee : BOOLEAN]
                          /\ apres(f).par = f.par /\ (apres(f).validee <=> f.validee \/ f.par = r)
  BY DEF IInv, EffetsTypes
<1> HIDE DEF apres
<1>7. Place(t) /\ (Droit(t) <=> Acceptation(suite[r])) /\ ~Droit(suite[r])
  BY <1>1, <1>3 DEF Lance, Place, Droit, Recherche, Suivante
<1>8. Acceptation(suite[r]) =>
         /\ propose /\ ~Facturee /\ liens = 0 /\ paiement = "a_l_acceptation"
         /\ Facturee' /\ \A q \in Evenements : ~Droit(suite[q])
  <2> SUFFICES ASSUME Acceptation(suite[r])
               PROVE  /\ propose /\ ~Facturee /\ liens = 0 /\ paiement = "a_l_acceptation"
                      /\ Facturee' /\ \A q \in Evenements : ~Droit(suite[q])
    OBVIOUS
  <2>1. propose /\ ~Facturee /\ liens = 0 /\ paiement = "a_l_acceptation"
    BY <1>1 DEF IInv, PropositionTenue
  <2>2. PICK f \in factures : f.par = r
    BY <1>1 DEF IInv, FacturesTenues, Soutient, Lance, Acceptation
  <2>3. apres(f) \in factures' /\ apres(f).validee
    BY <1>5, <1>6, <2>2
  <2>4. Facturee'
    BY <2>3 DEF Facturee
  <2>5. \A q \in Evenements : ~Droit(suite[q])
    BY <2>1 DEF IInv, LiensTenus
  <2>6. QED
    BY <2>1, <2>4, <2>5
<1>9. ~Acceptation(suite[r]) => (Facturee' <=> Facturee)
  <2> SUFFICES ASSUME ~Acceptation(suite[r]) PROVE Facturee' <=> Facturee
    OBVIOUS
  <2>1. \A f \in factures : f.par = r => f.validee
    BY DEF IInv, FacturesTenues, Soutient, Lance, Acceptation
  <2>2. QED
    BY <1>5, <1>6, <2>1 DEF Facturee
<1>10. EffetsTypes'
  <2>1. propose' \in BOOLEAN
    BY <1>1
  <2>2. factures' \in SUBSET [par : Evenements \cup {"declaration"}, validee : BOOLEAN]
    BY <1>5, <1>6
  <2>3. QED
    BY <1>1, <1>4, <2>1, <2>2 DEF IInv, EffetsTypes
<1>11. (\A q \in Evenements : Place(suite[q]))'
  BY <1>1, <1>4, <1>7 DEF Lance, IInv, Place, Emet, Acceptation, Suivante
<1>12. FacturesTenues'
  <2>1. ASSUME NEW f \in factures
        PROVE  IF apres(f).validee THEN apres(f).par = "declaration" \/ Soutient(suite'[apres(f).par])
               ELSE /\ apres(f).par \in Evenements
                    /\ suite'[apres(f).par].etat = "valider"
                    /\ Acceptation(suite'[apres(f).par])
    <3>1. f.par \in Evenements \cup {"declaration"}
      BY DEF IInv, EffetsTypes
    <3>2. IF f.validee THEN f.par = "declaration" \/ Soutient(suite[f.par])
          ELSE /\ f.par \in Evenements
               /\ suite[f.par].etat = "valider" /\ Acceptation(suite[f.par])
      BY DEF IInv, FacturesTenues, Soutient, Lance, Acceptation
    <3>3. apres(f).par = f.par /\ (apres(f).validee <=> f.validee \/ f.par = r)
      BY <1>6
    <3>4. CASE f.par = r
      BY <1>3, <1>4, <3>3, <3>4 DEF Soutient, Lance
    <3>5. CASE f.par # r
      BY <1>4, <3>1, <3>2, <3>3, <3>5
    <3>6. QED
      BY <3>4, <3>5
  <2>2. \A f, g \in factures' : f = g
    BY <1>5 DEF IInv, FacturesTenues, Soutient, Lance, Acceptation
  <2>3. ASSUME NEW q \in Evenements, suite'[q].etat = "valider", Acceptation(suite'[q])
        PROVE  \E f \in factures' : f.par = q
    <3>1. PICK f \in factures : f.par = q
      BY <1>3, <1>4, <2>3 DEF IInv, FacturesTenues, Soutient, Lance, Acceptation
    <3>2. QED
      BY <1>5, <1>6, <3>1
  <2>4. \A f \in factures' :
          IF f.validee THEN f.par = "declaration" \/ Soutient(suite'[f.par])
          ELSE /\ f.par \in Evenements
               /\ suite'[f.par].etat = "valider" /\ Acceptation(suite'[f.par])
    BY <1>5, <2>1
  <2>5. QED
    BY <2>2, <2>3, <2>4 DEF FacturesTenues, Acceptation, Soutient, Lance
<1>13. LiensTenus'
  <2>1. liens' <= 1 /\ (liens' = 1 => Facturee')
    BY <1>1, <1>8, <1>9 DEF IInv, LiensTenus
  <2>2. \A q \in Evenements : Droit(suite'[q]) =>
           liens = 0 /\ Facturee' /\ \A p \in Evenements : Droit(suite'[p]) => p = q
    <3>1. CASE Acceptation(suite[r])
      BY <1>4, <1>8, <3>1
    <3>2. CASE ~Acceptation(suite[r])
      <4>1. \A q \in Evenements : Droit(suite'[q]) => Droit(suite[q])
        BY <1>4, <1>7, <3>2
      <4>2. QED
        BY <1>9, <3>2, <4>1 DEF IInv, LiensTenus
    <3>3. QED
      BY <3>1, <3>2
  <2>3. QED
    BY <1>1, <2>1, <2>2 DEF Lance, LiensTenus, Droit, Acceptation, Suivante
<1>14. PropositionTenue'
  <2>1. propose' => propose /\ ~Acceptation(suite[r])
    BY <1>1
  <2>2. \A q \in Evenements : suite'[q].sort = "ouvert" => q # r /\ suite[q].sort = "ouvert"
    BY <1>3, <1>4
  <2>3. \A q \in Evenements : ~(suite'[q].sort = "ouvert")
    BY <1>1, <2>2 DEF IInv, PropositionTenue
  <2>4. QED
    BY <1>1, <1>9, <2>1, <2>3 DEF IInv, PropositionTenue
<1>15. SansPanne'
  <2> SUFFICES ASSUME pannes = 0
               PROVE  /\ \A q \in Evenements : suite'[q].etat = "relire" => Facturee'
                      /\ \A q \in Evenements :
                            Lance(suite'[q]) /\ Emet(suite'[q])
                               /\ suite'[q].etat \notin Recherche \cup {"facturer"} => Facturee'
                      /\ paiement = "a_la_reception" /\ Facturee' =>
                            liens = 1 \/ \E q \in Evenements : Droit(suite'[q])
    BY <1>1 DEF Lance, SansPanne, Emet, Droit, Acceptation, Suivante
  <2>1. Facturee => Facturee'
    BY <1>8, <1>9
  <2>2. \A q \in Evenements : Droit(suite[q]) => Droit(suite'[q])
    BY <1>4, <1>7
  <2>3. QED
    BY <1>3, <1>4, <1>8, <1>9, <2>1, <2>2 DEF IInv, SansPanne, Lance
<1>16. MessagesTenus'
  <2>1. Avises(t, messages[r], absents[r])
    BY <1>1, <1>3, SuiteTypee DEF Lance, Avises, Recherche, Suivante
  <2>2. \A q \in Evenements : Avises(suite'[q], messages[q], absents[q])
    BY <1>4, <2>1 DEF IInv, MessagesTenus
  <2>3. QED
    BY <1>1, <2>2 DEF Lance, IInv, MessagesTenus, Avises, Acceptation, Suivante
<1>17. QED
  BY <1>10, <1>11, <1>12, <1>13, <1>14, <1>15, <1>16 DEF IInv

\* Nothing changes but the subscriptions.
LEMMA AbonnementTenu ==
    ASSUME IInv, UNCHANGED <<paiement, chiffre, propose, factures, liens, suite, messages, pannes>>,
           abonnement' \in [Abonnes -> {"aucun", "actif", "resilie"}],
           absents' \in [Evenements -> SUBSET Abonnes],
           \A r \in Evenements : absents'[r] \subseteq absents[r],
           \A r \in Evenements : \A a \in absents'[r] : abonnement'[a] # "actif"
    PROVE  IInv'
<1>1. EffetsTypes'
  BY DEF IInv, EffetsTypes
<1>2. (\A q \in Evenements : Place(suite[q]))' /\ FacturesTenues' /\ LiensTenus'
  BY DEF Lance, IInv, Place, FacturesTenues, LiensTenus, Facturee, Droit, Acceptation, Emet, Soutient, Suivante
<1>3. PropositionTenue' /\ SansPanne'
  BY DEF Lance, IInv, PropositionTenue, SansPanne, Facturee, Droit, Acceptation, Emet, Suivante
<1>4. MessagesTenus'
  <2>1. \A q \in Evenements : Avises(suite[q], messages[q], absents'[q])
    BY DEF Lance, IInv, MessagesTenus, Avises, Suivante
  <2>2. QED
    BY <2>1 DEF Lance, MessagesTenus, Avises, Acceptation, Suivante
<1>5. QED
  BY <1>1, <1>2, <1>3, <1>4 DEF IInv

LEMMA AbonnerTenu ==
    ASSUME IInv, NEW a \in Abonnes, Abonner(a) \/ Desabonner(a)
    PROVE  IInv'
<1>1. abonnement' \in [Abonnes -> {"aucun", "actif", "resilie"}]
  BY DEF Abonner, Desabonner, IInv, EffetsTypes
<1>2. /\ absents' \in [Evenements -> SUBSET Abonnes]
      /\ \A r \in Evenements : absents'[r] \subseteq absents[r]
  BY DEF Abonner, Desabonner, IInv, EffetsTypes
<1>3. \A r \in Evenements : \A b \in absents'[r] : abonnement'[b] # "actif"
  BY DEF Abonner, Desabonner, IInv, EffetsTypes, MessagesTenus
<1>4. QED
  BY <1>1, <1>2, <1>3, AbonnementTenu DEF Abonner, Desabonner

-----------------------------------------------------------------------------
(* The theorem *)

LEMMA InitIInv ==
    ASSUME Hypotheses, Init
    PROVE  IInv
<1>1. \A r \in Evenements : suite[r] = Repos /\ absents[r] = {}
                            /\ messages[r] = [d \in Destinations |-> 0]
  BY DEF Init
<1>2. Repos \in Suite /\ Repos.etat = "repos" /\ Repos.sort = "aucun" /\ ~Acceptation(Repos)
  BY DEF Repos, Suite, Etats, Acceptation
<1>3. Facturee <=> paiement = "a_la_commande"
  <2> DEFINE f0 == [par |-> "declaration", validee |-> TRUE]
  <2>1. f0.validee
    OBVIOUS
  <2> HIDE DEF f0
  <2>2. factures = IF paiement = "a_la_commande" THEN {f0} ELSE {}
    BY DEF Init, f0
  <2>3. QED
    BY <2>1, <2>2 DEF Facturee
<1>4. EffetsTypes
  <2>1. factures \in SUBSET [par : Evenements \cup {"declaration"}, validee : BOOLEAN]
    BY DEF Init
  <2>2. suite \in [Evenements -> Suite]
    BY <1>2 DEF Init
  <2>3. QED
    BY <2>1, <2>2 DEF Init, EffetsTypes
<1>5. \A r \in Evenements : Place(suite[r]) /\ ~Droit(suite[r])
  BY <1>1, <1>2 DEF Lance, Place, Droit, Recherche, Suivante
<1>6. FacturesTenues
  <2> DEFINE f0 == [par |-> "declaration", validee |-> TRUE]
  <2>1. f0.validee /\ f0.par = "declaration"
    OBVIOUS
  <2> HIDE DEF f0
  <2>2. \A f \in factures : f = f0
    BY DEF Init, f0
  <2>3. QED
    BY <1>1, <1>2, <2>1, <2>2 DEF FacturesTenues, Soutient, Lance, Acceptation
<1>7. LiensTenus
  BY <1>3, <1>5 DEF Init, LiensTenus
<1>8. PropositionTenue
  BY <1>1, <1>2, <1>3 DEF Init, PropositionTenue
<1>9. SansPanne
  BY <1>1, <1>2, <1>3 DEF Init, SansPanne, Lance
<1>10. MessagesTenus
  <2>1. \A d \in Destinations : [x \in Destinations |-> 0][d] = 0
    OBVIOUS
  <2>2. Avises(Repos, [d \in Destinations |-> 0], {})
    BY <1>2, <2>1 DEF Lance, Avises, Suivante
  <2>3. QED
    BY <1>1, <2>2 DEF MessagesTenus
<1>11. QED
  BY <1>4, <1>5, <1>6, <1>7, <1>8, <1>9, <1>10 DEF IInv

LEMMA StutterIInv ==
    ASSUME IInv, UNCHANGED vars
    PROVE  IInv'
<1>1. absents' = absents /\ abonnement' = abonnement
  BY DEF vars
<1>2. QED
  BY <1>1, AbonnementTenu DEF vars, IInv, EffetsTypes, MessagesTenus

LEMMA NextIInv ==
    ASSUME Hypotheses, IInv, [Next]_vars
    PROVE  IInv'
<1>1. ASSUME NEW a \in Abonnes, Abonner(a) \/ Desabonner(a)
      PROVE  IInv'
  BY <1>1, AbonnerTenu
<1>2. ASSUME NEW r \in Evenements,
             \/ \E code \in Etapes, englobe, visible \in BOOLEAN :
                   Enregistrer(r, code, englobe, visible)
             \/ Valider(r) \/ CommitEnEchec(r) \/ Annuler(r) \/ Facturer(r) \/ LireFacture(r)
             \/ CreerFacture(r) \/ HeurterReference(r) \/ RelireFacture(r) \/ EnvoyerLien(r) \/ Notifier(r)
             \/ Diffuser(r) \/ Echouer(r) \/ Perdre(r)
             \/ \E a \in Abonnes : Prevenir(r, a)
      PROVE  IInv'
  BY <1>2, EnregistrerTenu, ValiderTenu, CommitEnEchecTenu, AnnulerTenu, FacturerTenu, LireTenu, CreerTenu,
     HeurterTenu, RelireTenu, EnvoyerTenu, NotifierTenu, DiffuserTenu, EchouerTenu, PerdreTenu,
     PrevenirTenu
<1>3. CASE UNCHANGED vars
  BY <1>3, StutterIInv
<1>4. QED
  BY <1>1, <1>2, <1>3 DEF Next

\* An acceptance whose COMMIT failed left the proposal to another one.
ReponseRendue ==
    \A r \in Evenements : Acceptation(suite[r]) /\ suite[r].sort = "perdu" =>
        propose \/ \E q \in Evenements : Acceptation(suite[q]) /\ suite[q].sort = "valide"

\* What a step may do to a request: an acceptance fails at its COMMIT if it is open, and one that
\* is committed stays so.
Fidele(s, t) ==
    /\ t.sort = "perdu" /\ Acceptation(t) => s.sort \in {"ouvert", "perdu"} /\ Acceptation(s)
    /\ s.sort = "valide" /\ Acceptation(s) => t.sort = "valide" /\ Acceptation(t)

LEMMA FideleReste ==
    ASSUME IInv, NEW r \in Evenements, NEW t \in Suite, suite' = [suite EXCEPT ![r] = t],
           t.code = suite[r].code, t.sort \in {suite[r].sort, "annule"},
           t.sort = "annule" => suite[r].sort # "valide"
    PROVE  \A q \in Evenements : Fidele(suite[q], suite'[q])
<1>1. suite'[r] = t /\ \A q \in Evenements \ {r} : suite'[q] = suite[q]
  BY SuiteApres DEF IInv
<1>2. QED
  BY <1>1 DEF Fidele, Acceptation

LEMMA AllerFidele ==
    ASSUME IInv, NEW r \in Evenements, NEW e \in Etats, Aller(r, e)
    PROVE  \A q \in Evenements : Fidele(suite[q], suite'[q])
<1> DEFINE t == [suite[r] EXCEPT !.etat = e]
<1>1. t \in Suite /\ t.code = suite[r].code /\ t.sort = suite[r].sort
  BY SuiteTypee, AllerType
<1>2. suite' = [suite EXCEPT ![r] = t]
  BY DEF Aller
<1> HIDE DEF t
<1>3. suite[r].sort = "annule" => suite[r].sort # "valide"
  OBVIOUS
<1>4. QED
  BY <1>1, <1>2, <1>3, FideleReste

LEMMA PasFidele ==
    ASSUME Hypotheses, IInv, [Next]_vars
    PROVE  \A q \in Evenements : Fidele(suite[q], suite'[q])
<1>1. CASE UNCHANGED suite
  BY <1>1 DEF Fidele
<1>2. ASSUME NEW r \in Evenements, NEW code \in Etapes, NEW englobe \in BOOLEAN,
             NEW visible \in BOOLEAN, Enregistrer(r, code, englobe, visible)
      PROVE  \A q \in Evenements : Fidele(suite[q], suite'[q])
  <2>1. suite[r].sort = "aucun"
    BY <1>2, SuiteTypee DEF Enregistrer, Place
  <2>2. suite'[r].sort \in {"ouvert", "valide"} /\ \A q \in Evenements \ {r} : suite'[q] = suite[q]
    BY <1>2 DEF Enregistrer, IInv, EffetsTypes, Repos
  <2>3. QED
    BY <2>1, <2>2 DEF Fidele
<1>3. ASSUME NEW r \in Evenements, Valider(r) \/ CommitEnEchec(r)
      PROVE  \A q \in Evenements : Fidele(suite[q], suite'[q])
  <2>1. suite[r].sort = "ouvert"
    BY <1>3, SuiteTypee DEF Valider, CommitEnEchec, Place
  <2>2. /\ suite'[r].code = suite[r].code /\ suite'[r].sort \in {"valide", "perdu"}
        /\ \A q \in Evenements \ {r} : suite'[q] = suite[q]
    BY <1>3 DEF Valider, CommitEnEchec, IInv, EffetsTypes, Suite
  <2>3. QED
    BY <2>1, <2>2 DEF Fidele, Acceptation
<1>4. ASSUME NEW r \in Evenements, Annuler(r) \/ RelireFacture(r)
      PROVE  \A q \in Evenements : Fidele(suite[q], suite'[q])
  <2> DEFINE n == suite[r].essai + 1
             t1 == [suite[r] EXCEPT !.etat = ApresFacture(r, FALSE)]
             t2 == [suite[r] EXCEPT !.etat = "creer", !.essai = n]
             t3 == [suite[r] EXCEPT !.etat = "fini", !.sort = "annule"]
             t4 == [suite[r] EXCEPT !.etat = "notifier"]
             Garde(t) == t.code = suite[r].code /\ t.sort = suite[r].sort
  <2>1. Garde(t1) /\ Garde(t2) /\ Garde(t4) /\ t3.code = suite[r].code /\ t3.sort = "annule"
    BY SuiteTypee DEF Suite
  <2>2. \/ suite' = [suite EXCEPT ![r] = t1] \/ suite' = [suite EXCEPT ![r] = t2]
        \/ suite[r].sort = "ouvert" /\ suite' = [suite EXCEPT ![r] = t3]
        \/ suite' = [suite EXCEPT ![r] = t4]
    <3>1. CASE Annuler(r)
      BY <3>1, SuiteTypee DEF Annuler, IInv, EffetsTypes
    <3>2. CASE RelireFacture(r)
      BY <3>2 DEF RelireFacture
    <3>3. QED
      BY <1>4, <3>1, <3>2
  <2> HIDE DEF t1, t2, t3, t4, n
  <2>3. PICK t : /\ suite' = [suite EXCEPT ![r] = t]
                 /\ Garde(t) \/ (t.code = suite[r].code /\ t.sort = "annule" /\ suite[r].sort = "ouvert")
    BY <2>1, <2>2
  <2>4. suite'[r] = t /\ \A q \in Evenements \ {r} : suite'[q] = suite[q]
    BY <2>3 DEF IInv, EffetsTypes
  <2>5. QED
    BY <2>3, <2>4 DEF Fidele, Acceptation
<1>5. ASSUME NEW r \in Evenements, NEW e \in Etats, Aller(r, e)
      PROVE  \A q \in Evenements : Fidele(suite[q], suite'[q])
  BY <1>5, AllerFidele
<1>6. ASSUME NEW r \in Evenements,
             \/ Diffuser(r) \/ \E a \in Abonnes : Retirer(r, a)
      PROVE  \A q \in Evenements : Fidele(suite[q], suite'[q])
  <2>1. PICK e, reste : suite' = [suite EXCEPT ![r] = [suite[r] EXCEPT !.etat = e, !.reste = reste]]
    <3>1. CASE Diffuser(r)
      BY <3>1, SuiteTypee DEF Diffuser, IInv, EffetsTypes
    <3>2. ASSUME NEW a \in Abonnes, Retirer(r, a)
          PROVE  suite' = [suite EXCEPT ![r] = [suite[r] EXCEPT
                    !.etat = IF suite[r].reste = {a} THEN Fin(r) ELSE "prevenir",
                    !.reste = suite[r].reste \ {a}]]
      BY <3>2, SuiteTypee DEF Retirer, IInv, EffetsTypes, Suite
    <3>3. QED
      BY <1>6, <3>1, <3>2
  <2> DEFINE t == [suite[r] EXCEPT !.etat = e, !.reste = reste]
  <2>2. t.code = suite[r].code /\ t.sort = suite[r].sort
    BY SuiteTypee DEF Suite
  <2> HIDE DEF t
  <2>3. suite'[r] = t /\ \A q \in Evenements \ {r} : suite'[q] = suite[q]
    BY <2>1 DEF IInv, EffetsTypes, t
  <2>4. QED
    BY <2>2, <2>3 DEF Fidele, Acceptation
<1>7. ASSUME NEW r \in Evenements,
             \/ Facturer(r) \/ LireFacture(r) \/ CreerFacture(r) \/ HeurterReference(r)
             \/ EnvoyerLien(r) \/ Notifier(r) \/ Perdre(r) \/ Echouer(r)
      PROVE  \/ \E e \in Etats : Aller(r, e)
             \/ \E a \in Abonnes : Retirer(r, a)
  <2>1. {"lire", "notifier", "creer", "relire", "lien", "valider", "fini", "diffuser"} \subseteq Etats
    BY DEF Etats
  <2>2. Fin(r) \in Etats /\ ApresFacture(r, TRUE) \in Etats /\ ApresFacture(r, FALSE) \in Etats
    BY DEF Fin, ApresFacture, Etats
  <2>3. suite[r].reste \subseteq Abonnes
    BY SuiteTypee DEF Suite
  <2>4. CASE Echouer(r)
    BY <2>1, <2>2, <2>3, <2>4 DEF Echouer
  <2>5. CASE Facturer(r) \/ LireFacture(r) \/ CreerFacture(r) \/ HeurterReference(r)
    BY <2>1, <2>2, <2>5 DEF Facturer, LireFacture, CreerFacture, HeurterReference
  <2>6. CASE EnvoyerLien(r) \/ Notifier(r) \/ Perdre(r)
    BY <2>1, <2>2, <2>6 DEF EnvoyerLien, Notifier, Perdre
  <2>7. QED
    BY <1>7, <2>4, <2>5, <2>6
<1>8. CASE Next
  <2>1. CASE \E a \in Abonnes : Abonner(a) \/ Desabonner(a)
    BY <1>1, <2>1 DEF Abonner, Desabonner
  <2>2. ASSUME NEW r \in Evenements, NEW a \in Abonnes, Prevenir(r, a)
        PROVE  Retirer(r, a)
    BY <2>2 DEF Prevenir
  <2>3. QED
    BY <1>2, <1>3, <1>4, <1>5, <1>6, <1>7, <1>8, <2>1, <2>2 DEF Next
<1>9. QED
  BY <1>1, <1>8 DEF vars

LEMMA ReponseTenue ==
    ASSUME Hypotheses, IInv, ReponseRendue, [Next]_vars
    PROVE  ReponseRendue'
<1>1. \A q \in Evenements : Fidele(suite[q], suite'[q])
  BY PasFidele
<1>2. propose => propose' \/ \E q \in Evenements : Acceptation(suite'[q]) /\ suite'[q].sort = "valide"
  <2>1. ASSUME NEW r \in Evenements, Valider(r)
        PROVE  /\ propose' = (propose /\ ~Acceptation(suite[r]))
               /\ suite'[r].sort = "valide" /\ suite'[r].code = suite[r].code
    BY <2>1 DEF Valider, IInv, EffetsTypes, Suite, Acceptation
  <2>2. (\E r \in Evenements : Valider(r)) \/ propose' = propose
    BY DEF Next, vars, Abonner, Desabonner, Enregistrer, CommitEnEchec, Annuler, Facturer,
           LireFacture, CreerFacture, HeurterReference, RelireFacture, EnvoyerLien, Notifier,
           Diffuser, Echouer, Perdre, Prevenir
  <2>3. QED
    BY <2>1, <2>2 DEF Acceptation
<1>3. \A q \in Evenements : Acceptation(suite'[q]) /\ suite'[q].sort = "perdu" =>
         propose \/ \E p \in Evenements : Acceptation(suite[p]) /\ suite[p].sort = "valide"
  BY <1>1 DEF Fidele, ReponseRendue, IInv, PropositionTenue
<1>4. \A q \in Evenements : Acceptation(suite'[q]) /\ suite'[q].sort = "perdu" =>
         propose' \/ \E p \in Evenements : Acceptation(suite'[p]) /\ suite'[p].sort = "valide"
  BY <1>1, <1>2, <1>3 DEF Fidele
<1>5. QED
  BY <1>4 DEF ReponseRendue, Acceptation

\* What the induction says implies the property of the runs.
LEMMA IInvSuffit ==
    ASSUME Hypotheses, IInv, ReponseRendue
    PROVE  EffetsJustes
<1>1. Cardinality(factures) <= 1
  <2>1. CASE factures = {}
    BY <2>1, FS_EmptySet
  <2>2. CASE factures # {}
    <3>1. PICK f : f \in factures
      BY <2>2
    <3>2. factures = {f}
      BY <3>1 DEF IInv, FacturesTenues, Soutient, Lance, Acceptation
    <3>3. Cardinality({f}) = 1
      BY FS_Singleton
    <3>4. QED
      BY <3>2, <3>3
  <2>3. QED
    BY <2>1, <2>2
<1>2. liens <= 1 /\ (liens = 1 => \E f \in factures : f.validee)
  BY DEF IInv, LiensTenus, Facturee
<1>3. ASSUME pannes = 0, \A r \in Evenements : suite[r].etat \in {"repos", "fini"},
             NEW r \in Evenements, suite[r].sort = "valide", AFacturer(r)
      PROVE  liens = 1
  <2>1. suite[r].etat = "fini" /\ Emet(suite[r])
    BY <1>3, SuiteTypee DEF Lance, Place, Suivante
  <2>2. Facturee /\ paiement = "a_la_reception"
    BY <1>3, <2>1 DEF IInv, SansPanne, Recherche, Emet, Lance
  <2>3. \A q \in Evenements : ~Droit(suite[q])
    BY <1>3, SuiteTypee DEF Lance, Droit, Place, Suivante
  <2>4. QED
    BY <1>3, <2>2, <2>3 DEF IInv, SansPanne, Lance
<1>4. FacturationUnique
  BY <1>1, <1>2, <1>3 DEF FacturationUnique
<1>5. AnnoncesFondees
  BY DEF Lance, IInv, MessagesTenus, Avises, AnnoncesFondees, Suivante
<1>6. ASSUME NEW r \in Evenements, Acceptation(suite[r]), suite[r].sort = "perdu"
      PROVE  /\ \A f \in factures : f.par # r
             /\ propose \/ \E q \in Evenements : Acceptation(suite[q]) /\ suite[q].sort = "valide"
             /\ liens = 1 => ~propose
  <2>1. ASSUME NEW f \in factures, f.par = r
        PROVE  FALSE
    <3>1. r # "declaration" /\ suite[r].etat # "valider"
      BY <1>6, SuiteTypee DEF Hypotheses, Place
    <3>2. QED
      BY <1>6, <2>1, <3>1 DEF IInv, FacturesTenues, Soutient
  <2>2. QED
    BY <1>6, <2>1 DEF ReponseRendue, IInv, PropositionTenue
<1>7. AcceptationPerdue
  BY <1>6 DEF AcceptationPerdue, Acceptation
<1>8. QED
  BY <1>4, <1>5, <1>7 DEF EffetsJustes

\* Whatever receptions and acceptances cross and whatever fails, a COMMIT included, a parcel has
\* one invoice and one link to pay it, nobody is told twice, or of an event that is under way or
\* undone by a later step, or after unsubscribing; an acceptance whose COMMIT failed has no invoice
\* and no link (emettreFactureColis, apresCommit, diffuserEvenement).
THEOREM EffetsUniques == Hypotheses /\ Spec => []EffetsJustes
<1> SUFFICES ASSUME Hypotheses PROVE Spec => []EffetsJustes
  OBVIOUS
<1>1. Init => IInv /\ ReponseRendue
  BY InitIInv DEF Init, ReponseRendue, Repos
<1>2. IInv /\ ReponseRendue /\ [Next]_vars => IInv' /\ ReponseRendue'
  BY NextIInv, ReponseTenue
<1>3. IInv /\ ReponseRendue => EffetsJustes
  BY IInvSuffit
<1>4. QED
  BY <1>1, <1>2, <1>3, PTL DEF Spec

-----------------------------------------------------------------------------
(* The account and its addresses *)

LigneAdresse == [type : Types, parDefaut : BOOLEAN]

Transaction ==
    {q \in [etape : {"lue", "ouverte", "declassee"}, id : Adresses, nouvelle : BOOLEAN,
            tenues : SUBSET Adresses, voulue : LigneAdresse, ecrites : SUBSET Colonnes,
            promue : BOOLEAN] :
        q.nouvelle => q.ecrites = Colonnes}

AutreRequete ==
    [etape : {"declaree"}, id : Expeditions]
    \cup [etape : {"accordee", "ecrite"}, statut : {"traitee", "rejetee"}]

CompteTypes ==
    /\ compte \in {"actif", "supprime"}
    /\ adresses \in [Adresses -> LigneAdresse \cup {SansAdresse}]
    /\ expeditions \in [Expeditions -> {"absent", "en_cours", "termine"}]
    /\ requetes \in [Requetes -> Transaction \cup AutreRequete \cup {SansRequete}]
    /\ croisees \in BOOLEAN

Effacees ==
    compte = "supprime" =>
        /\ Enregistrees \subseteq attardees
        /\ \A c \in Expeditions : expeditions[c] = "en_cours" => c \in attardees

\* A transaction that sets the flag holds every other row of the type when it is about to end,
\* and one that does not leaves a flag only on a row that had it.
Suivie(q) ==
    /\ q.nouvelle => /\ adresses[q.id] = SansAdresse
                     /\ q.voulue.parDefaut => q.promue
    /\ ~q.nouvelle /\ adresses[q.id] # SansAdresse =>
          /\ "type" \notin q.ecrites => adresses[q.id].type = q.voulue.type
          /\ ~q.promue /\ "parDefaut" \in q.ecrites => ~q.voulue.parDefaut
          /\ ~q.promue /\ adresses[q.id].parDefaut => adresses[q.id].type = q.voulue.type
    /\ q.etape = "declassee" /\ q.promue =>
          \A b \in Enregistrees \ {q.id} :
              adresses[b].type = q.voulue.type => b \in q.tenues

Seule == \A r, q \in EnVol : r = q
Suivies == \A r \in EnVol : Suivie(requetes[r])
DefautUnique == \A type \in Types : \A a, b \in ParDefaut(type) : a = b

InvCompte == CompteTypes /\ Effacees /\ (~croisees => Seule /\ Suivies /\ DefautUnique)

LEMMA RequetesDisjointes ==
    /\ \A q \in Transaction : q.etape \in {"lue", "ouverte", "declassee"}
    /\ \A q \in AutreRequete : q.etape \in {"declaree", "accordee", "ecrite"}
    /\ SansRequete.etape = "libre"
  BY DEF Transaction, AutreRequete, SansRequete

LEMMA EnVolTypee ==
    ASSUME CompteTypes
    PROVE  \A r \in EnVol : r \in Requetes /\ requetes[r] \in Transaction
<1> SUFFICES ASSUME NEW r \in EnVol PROVE r \in Requetes /\ requetes[r] \in Transaction
  OBVIOUS
<1>1. r \in Requetes /\ requetes[r].etape \in {"lue", "ouverte", "declassee"}
  BY DEF EnVol
<1>2. requetes[r] \in Transaction \cup AutreRequete \cup {SansRequete}
  BY <1>1 DEF CompteTypes
<1>3. QED
  BY <1>1, <1>2, RequetesDisjointes

\* Rows that go, and requests that end.
LEMMA RetraitTenu ==
    ASSUME ~croisees => Seule /\ Suivies /\ DefautUnique,
           ~croisees' => ~croisees,
           \A r \in EnVol' : r \in EnVol /\ requetes'[r] = requetes[r],
           \A r \in EnVol : requetes[r].id \in Adresses,
           \A a \in Adresses : adresses'[a] \in {adresses[a], SansAdresse}
    PROVE  ~croisees' => (Seule /\ Suivies /\ DefautUnique)'
<1> SUFFICES ASSUME ~croisees' PROVE (Seule /\ Suivies /\ DefautUnique)'
  OBVIOUS
<1>0. Seule /\ Suivies /\ DefautUnique
  OBVIOUS
<1>1. Seule'
  BY <1>0 DEF Seule
<1>2. Enregistrees' \subseteq Enregistrees /\ \A a \in Enregistrees' : adresses'[a] = adresses[a]
  BY DEF Enregistrees
<1>3. DefautUnique'
  <2>1. \A type \in Types : ParDefaut(type)' \subseteq ParDefaut(type)
    BY <1>2 DEF ParDefaut
  <2>2. QED
    BY <1>0, <2>1 DEF DefautUnique
<1>4. Suivies'
  <2> SUFFICES ASSUME NEW r \in EnVol' PROVE Suivie(requetes[r])'
    BY DEF Suivies
  <2>1. PICK q : q = requetes[r]
    OBVIOUS
  <2>2. Suivie(q) /\ requetes'[r] = q /\ q.id \in Adresses
    BY <2>1, <1>0 DEF Suivies
  <2>3. Suivie(q)'
    BY <2>2, <1>2 DEF Suivie, Enregistrees
  <2>4. QED
    BY <2>2, <2>3
<1>5. QED
  BY <1>1, <1>3, <1>4

\* One request steps, on rows that stay.
LEMMA TransactionTenue ==
    ASSUME CompteTypes, ~croisees => Seule /\ Suivies /\ DefautUnique,
           NEW r \in Requetes, NEW q,
           requetes' = [requetes EXCEPT ![r] = q], UNCHANGED adresses,
           ~croisees' => ~croisees /\ EnVol \subseteq {r} /\ Suivie(q)
    PROVE  ~croisees' => (Seule /\ Suivies /\ DefautUnique)'
<1> SUFFICES ASSUME ~croisees' PROVE (Seule /\ Suivies /\ DefautUnique)'
  OBVIOUS
<1>1. EnVol' \subseteq {r} /\ requetes'[r] = q
  BY DEF EnVol, CompteTypes
<1>2. Suivie(q)'
  BY DEF Suivie, Enregistrees
<1>3. Suivies'
  BY <1>1, <1>2 DEF Suivies
<1>4. Seule'
  BY <1>1 DEF Seule
<1>5. DefautUnique'
  BY DEF DefautUnique, ParDefaut, Enregistrees
<1>6. QED
  BY <1>3, <1>4, <1>5

LEMMA LireCreationTenue ==
    ASSUME HypothesesCompte, InvCompte, NEW r \in Requetes, NEW a \in Adresses,
           NEW type \in Types, NEW d \in BOOLEAN, LireCreation(r, a, type, d)
    PROVE  InvCompte'
<1>1. PICK q : q = [etape |-> "lue", id |-> a, nouvelle |-> TRUE, tenues |-> {},
                    voulue |-> Adresse(type, d), ecrites |-> Colonnes, promue |-> d]
  OBVIOUS
<1>2. requetes' = [requetes EXCEPT ![r] = q]
  BY <1>1 DEF LireCreation, Avancer
<1>3. croisees' = (croisees \/ EnVol # {}) /\ UNCHANGED <<donnees, attardees>> /\ a \in Libres
  BY DEF LireCreation
<1>4. q \in Transaction
  BY <1>1 DEF Transaction, Adresse, LigneAdresse
<1>5. Suivie(q)
  BY <1>1, <1>3 DEF Suivie, Adresse, Libres, Enregistrees
<1>6. CompteTypes'
  <2>1. requetes' \in [Requetes -> Transaction \cup AutreRequete \cup {SansRequete}]
    BY <1>2, <1>4 DEF InvCompte, CompteTypes
  <2>2. croisees' \in BOOLEAN
    BY <1>3, ZenonT(30) DEF InvCompte, CompteTypes
  <2>3. QED
    BY <1>3, <2>1, <2>2 DEF InvCompte, CompteTypes, donnees
<1>7. Effacees'
  BY <1>3 DEF InvCompte, Effacees, Enregistrees, donnees
<1>8. ~croisees' => ~croisees /\ EnVol \subseteq {r}
  BY <1>3, ZenonT(30)
<1>9. QED
  BY <1>2, <1>3, <1>5, <1>6, <1>7, <1>8, TransactionTenue DEF InvCompte, donnees

LEMMA LireModificationTenue ==
    ASSUME HypothesesCompte, InvCompte, NEW r \in Requetes, NEW a \in Adresses,
           NEW type \in Types, NEW drapeau \in Drapeaux, LireModification(r, a, type, drapeau)
    PROVE  InvCompte'
<1>1. PICK lue : lue = adresses[a]
  OBVIOUS
<1>2. PICK d : d = IF drapeau = "inchange" THEN lue.parDefaut ELSE drapeau = "pose"
  OBVIOUS
<1>3. PICK E : E = {c \in Colonnes : \/ c = "type" /\ type # lue.type
                                     \/ c = "parDefaut" /\ d # lue.parDefaut}
  OBVIOUS
<1>4. PICK q : q = [etape |-> "lue", id |-> a, nouvelle |-> FALSE, tenues |-> {},
                    voulue |-> Adresse(type, d), ecrites |-> E, promue |-> drapeau = "pose"]
  OBVIOUS
<1>5. requetes' = [requetes EXCEPT ![r] = q] /\ a \in Enregistrees
  BY <1>1, <1>2, <1>3, <1>4 DEF LireModification, Avancer
<1>6. croisees' = (croisees \/ EnVol # {} \/ (lue.parDefaut /\ type # lue.type))
      /\ UNCHANGED <<donnees, attardees>>
  BY <1>1 DEF LireModification
<1>7. lue \in LigneAdresse
  BY <1>1, <1>5 DEF InvCompte, CompteTypes, Enregistrees
<1>8. d \in BOOLEAN
  BY <1>2, <1>7 DEF LigneAdresse
<1>9. q \in Transaction
  BY <1>3, <1>4, <1>8 DEF Transaction, Adresse, LigneAdresse
<1>10. ~croisees' => ~croisees /\ EnVol = {} /\ ~(lue.parDefaut /\ type # lue.type)
  BY <1>6, ZenonT(30)
<1>11. ~croisees' => Suivie(q)
  <2> SUFFICES ASSUME ~croisees' PROVE Suivie(q)
    OBVIOUS
  <2>1. q.nouvelle = FALSE /\ q.id = a /\ q.etape = "lue" /\ q.voulue.type = type
        /\ q.voulue.parDefaut = d /\ q.ecrites = E /\ q.promue = (drapeau = "pose")
    BY <1>4 DEF Adresse
  <2>2. "type" \notin E => lue.type = type
    BY <1>3 DEF Colonnes
  <2>3. drapeau # "pose" /\ "parDefaut" \in E => ~d
    BY <1>2, <1>3 DEF Drapeaux
  <2>4. drapeau # "pose" /\ lue.parDefaut => lue.type = type
    BY <1>10
  <2>5. QED
    BY <2>1, <2>2, <2>3, <2>4, <1>1 DEF Suivie
<1>12. CompteTypes'
  <2>1. requetes' \in [Requetes -> Transaction \cup AutreRequete \cup {SansRequete}]
    BY <1>5, <1>9 DEF InvCompte, CompteTypes
  <2>2. croisees' \in BOOLEAN
    BY <1>6, ZenonT(30) DEF InvCompte, CompteTypes
  <2>3. QED
    BY <1>6, <2>1, <2>2 DEF InvCompte, CompteTypes, donnees
<1>13. Effacees'
  BY <1>6 DEF InvCompte, Effacees, Enregistrees, donnees
<1>14. QED
  BY <1>5, <1>6, <1>10, <1>11, <1>12, <1>13, TransactionTenue DEF InvCompte, donnees

\* The steps of a transaction before its end: it keeps what it is about to write.
LEMMA EtapeTenue ==
    ASSUME HypothesesCompte, InvCompte, NEW r \in EnVol, NEW e \in {"ouverte", "declassee"},
           NEW D \in SUBSET Adresses,
           requetes' = [requetes EXCEPT ![r] = [requetes[r] EXCEPT !.etape = e, !.tenues = D]],
           UNCHANGED <<donnees, attardees, croisees>>,
           e = "declassee" /\ requetes[r].promue => ADeclasser(r) \subseteq D
    PROVE  InvCompte'
<1>0. r \in Requetes /\ requetes[r] \in Transaction
  BY EnVolTypee DEF InvCompte
<1>1. PICK p : p = requetes[r]
  OBVIOUS
<1>2. PICK q : q = [p EXCEPT !.etape = e, !.tenues = D]
  OBVIOUS
<1>3. requetes' = [requetes EXCEPT ![r] = q]
  BY <1>1, <1>2
<1>4. /\ q \in Transaction /\ q.etape = e /\ q.tenues = D
      /\ q.id = p.id /\ q.nouvelle = p.nouvelle /\ q.voulue = p.voulue
      /\ q.ecrites = p.ecrites /\ q.promue = p.promue
  BY <1>0, <1>1, <1>2 DEF Transaction
<1>5. ~croisees => EnVol \subseteq {r} /\ Suivie(p)
  BY <1>1 DEF InvCompte, Seule, Suivies
<1>6. Suivie(p) => Suivie(q)
  BY <1>1, <1>4 DEF Suivie, ADeclasser, Enregistrees
<1>7. CompteTypes'
  <2>1. requetes' \in [Requetes -> Transaction \cup AutreRequete \cup {SansRequete}]
    BY <1>3, <1>4 DEF InvCompte, CompteTypes
  <2>2. QED
    BY <2>1 DEF InvCompte, CompteTypes, donnees
<1>8. Effacees'
  BY DEF InvCompte, Effacees, Enregistrees, donnees
<1>9. QED
  BY <1>0, <1>3, <1>5, <1>6, <1>7, <1>8, TransactionTenue DEF InvCompte, donnees

LEMMA OuvrirTenu ==
    ASSUME HypothesesCompte, InvCompte, NEW r \in Requetes, Ouvrir(r) \/ Declasser(r)
    PROVE  InvCompte'
<1>1. CASE Ouvrir(r)
  <2>1. r \in EnVol
    BY <1>1 DEF Ouvrir, Phase, EnVol
  <2>2. requetes[r] \in Transaction
    BY <2>1, EnVolTypee DEF InvCompte
  <2>3. PICK D : D = IF requetes[r].ecrites = {} THEN {} ELSE {requetes[r].id}
    OBVIOUS
  <2>4. D \in SUBSET Adresses
    BY <2>2, <2>3 DEF Transaction
  <2>5. requetes' = [requetes EXCEPT ![r] = [requetes[r] EXCEPT !.etape = "ouverte", !.tenues = D]]
    BY <1>1, <2>3 DEF Ouvrir, Avancer
  <2>6. UNCHANGED <<donnees, attardees, croisees>>
    BY <1>1 DEF Ouvrir
  <2>7. QED
    BY <2>1, <2>4, <2>5, <2>6, EtapeTenue
<1>2. CASE Declasser(r)
  <2>1. r \in EnVol
    BY <1>2 DEF Declasser, Phase, EnVol
  <2>2. requetes[r] \in Transaction
    BY <2>1, EnVolTypee DEF InvCompte
  <2>3. PICK D : D = requetes[r].tenues \cup (IF requetes[r].promue THEN ADeclasser(r) ELSE {})
    OBVIOUS
  <2>4. D \in SUBSET Adresses /\ (requetes[r].promue => ADeclasser(r) \subseteq D)
    BY <2>2, <2>3 DEF Transaction, ADeclasser, Enregistrees
  <2>5. requetes' = [requetes EXCEPT ![r] = [requetes[r] EXCEPT !.etape = "declassee", !.tenues = D]]
    BY <1>2, <2>3 DEF Declasser, Avancer
  <2>6. UNCHANGED <<donnees, attardees, croisees>>
    BY <1>2 DEF Declasser
  <2>7. QED
    BY <2>1, <2>4, <2>5, <2>6, EtapeTenue
<1>3. QED
  BY <1>1, <1>2

\* The rows a transaction leaves.
LEMMA LaisseeTypee ==
    ASSUME HypothesesCompte, InvCompte, NEW q \in Transaction, NEW a \in Adresses
    PROVE  /\ Laissee(q, a) \in LigneAdresse \cup {SansAdresse}
           /\ Laissee(q, a) # SansAdresse => a \in Enregistrees \/ (a = q.id /\ q.nouvelle)
<1>1. adresses[a] \in LigneAdresse \cup {SansAdresse}
  BY DEF InvCompte, CompteTypes
<1>2. q.voulue \in LigneAdresse /\ (q.nouvelle => q.ecrites = Colonnes)
  BY DEF Transaction
<1>3. CASE a = q.id /\ (q.nouvelle \/ adresses[a] # SansAdresse)
  <2>1. Laissee(q, a) = Ecrite(q, adresses[a])
    BY <1>3 DEF Laissee
  <2>2. "type" \in q.ecrites \/ adresses[a] \in LigneAdresse
    BY <1>1, <1>2, <1>3 DEF Colonnes
  <2>3. "parDefaut" \in q.ecrites \/ adresses[a] \in LigneAdresse
    BY <1>1, <1>2, <1>3 DEF Colonnes
  <2>4. Ecrite(q, adresses[a]) \in LigneAdresse
    BY <1>2, <2>2, <2>3 DEF Ecrite, Adresse, LigneAdresse
  <2>5. QED
    BY <1>3, <2>1, <2>4 DEF Enregistrees
<1>4. CASE a # q.id /\ a \in q.tenues /\ adresses[a] # SansAdresse
  <2>1. Laissee(q, a) = Adresse(adresses[a].type, FALSE)
    BY <1>4 DEF Laissee
  <2>2. QED
    BY <1>1, <1>4, <2>1 DEF Adresse, LigneAdresse, Enregistrees
<1>5. CASE /\ ~(a = q.id /\ (q.nouvelle \/ adresses[a] # SansAdresse))
           /\ ~(a # q.id /\ a \in q.tenues /\ adresses[a] # SansAdresse)
  <2>1. Laissee(q, a) = adresses[a]
    BY <1>5 DEF Laissee
  <2>2. QED
    BY <1>1, <2>1 DEF Enregistrees
<1>6. QED
  BY <1>3, <1>4, <1>5

\* The end of a transaction that is alone.
LEMMA DefautApres ==
    ASSUME HypothesesCompte, InvCompte, ~croisees, NEW r \in EnVol, NEW q \in Transaction,
           q = requetes[r], q.etape = "declassee",
           adresses' = [a \in Adresses |-> Laissee(q, a)]
    PROVE  DefautUnique'
<1>0. Suivie(q) /\ DefautUnique
  BY DEF InvCompte, Suivies
<1>1. ASSUME NEW type \in Types, NEW a \in ParDefaut(type)', a # q.id
      PROVE  a \in ParDefaut(type) /\ a \notin q.tenues
  <2>1. a \in Adresses /\ adresses'[a] = Laissee(q, a)
    BY <1>1 DEF ParDefaut, Enregistrees
  <2>2. adresses'[a] # SansAdresse /\ adresses'[a].type = type /\ adresses'[a].parDefaut
    BY <1>1 DEF ParDefaut, Enregistrees
  <2>3. a \in Enregistrees
    BY <2>1, <2>2, <1>0, <1>1, LaisseeTypee
  <2>4. a \notin q.tenues
    <3> SUFFICES ASSUME a \in q.tenues PROVE FALSE
      OBVIOUS
    <3>1. Laissee(q, a) = Adresse(adresses[a].type, FALSE)
      BY <1>1, <2>3 DEF Laissee, Enregistrees
    <3>2. QED
      BY <3>1, <2>1, <2>2 DEF Adresse
  <2>5. Laissee(q, a) = adresses[a]
    BY <1>1, <2>4 DEF Laissee
  <2>6. QED
    BY <2>1, <2>2, <2>3, <2>4, <2>5 DEF ParDefaut
<1>2. ASSUME NEW type \in Types, q.id \in ParDefaut(type)'
      PROVE  /\ q.voulue.type = type
             /\ ~q.promue => q.id \in ParDefaut(type)
  <2>1. q.id \in Adresses /\ adresses'[q.id] = Laissee(q, q.id)
    BY <1>2 DEF ParDefaut, Enregistrees
  <2>2. adresses'[q.id] # SansAdresse /\ adresses'[q.id].type = type /\ adresses'[q.id].parDefaut
    BY <1>2 DEF ParDefaut, Enregistrees
  <2>3. q.nouvelle \/ adresses[q.id] # SansAdresse
    BY <2>1, <2>2, <1>0, LaisseeTypee DEF Enregistrees
  <2>4. Laissee(q, q.id) = Ecrite(q, adresses[q.id])
    BY <2>3 DEF Laissee
  <2>5. /\ type = IF "type" \in q.ecrites THEN q.voulue.type ELSE adresses[q.id].type
        /\ IF "parDefaut" \in q.ecrites THEN q.voulue.parDefaut ELSE adresses[q.id].parDefaut
    BY <2>1, <2>2, <2>4 DEF Ecrite, Adresse
  <2>6. CASE q.nouvelle
    <3>1. q.ecrites = Colonnes /\ (q.voulue.parDefaut => q.promue)
      BY <2>6, <1>0 DEF Suivie, Transaction
    <3>2. QED
      BY <3>1, <2>5 DEF Colonnes
  <2>7. CASE ~q.nouvelle
    <3>1. adresses[q.id] # SansAdresse
      BY <2>3, <2>7
    <3>2. /\ "type" \notin q.ecrites => adresses[q.id].type = q.voulue.type
          /\ ~q.promue /\ "parDefaut" \in q.ecrites => ~q.voulue.parDefaut
          /\ ~q.promue /\ adresses[q.id].parDefaut => adresses[q.id].type = q.voulue.type
      BY <2>7, <3>1, <1>0 DEF Suivie
    <3>3. q.voulue.type = type
      BY <2>5, <3>2
    <3>4. ~q.promue => adresses[q.id].parDefaut /\ adresses[q.id].type = type
      BY <2>5, <3>2, <3>3
    <3>5. QED
      BY <2>1, <3>1, <3>3, <3>4 DEF ParDefaut, Enregistrees
  <2>8. QED
    BY <2>6, <2>7
<1>3. ASSUME NEW type \in Types, NEW a \in ParDefaut(type)', q.id \in ParDefaut(type)', a # q.id
      PROVE  FALSE
  <2>1. a \in ParDefaut(type) /\ a \notin q.tenues /\ q.voulue.type = type
    BY <1>1, <1>2, <1>3
  <2>2. ~q.promue
    BY <2>1, <1>0, <1>3 DEF Suivie, ParDefaut
  <2>3. q.id \in ParDefaut(type)
    BY <1>2, <1>3, <2>2
  <2>4. QED
    BY <1>0, <1>3, <2>1, <2>3 DEF DefautUnique
<1>4. SUFFICES ASSUME NEW type \in Types, NEW a \in ParDefaut(type)', NEW b \in ParDefaut(type)',
                      a # b
               PROVE  FALSE
  BY DEF DefautUnique
<1>5. CASE a = q.id \/ b = q.id
  BY <1>3, <1>4, <1>5
<1>6. CASE a # q.id /\ b # q.id
  <2>1. a \in ParDefaut(type) /\ b \in ParDefaut(type)
    BY <1>1, <1>6
  <2>2. QED
    BY <1>0, <1>4, <2>1 DEF DefautUnique
<1>7. QED
  BY <1>5, <1>6

LEMMA ValiderAdresseTenue ==
    ASSUME HypothesesCompte, InvCompte, NEW r \in Requetes, ValiderAdresse(r)
    PROVE  InvCompte'
<1>0. PICK q : q = requetes[r]
  OBVIOUS
<1>1. /\ r \in EnVol /\ q.etape = "declassee"
      /\ adresses' = [a \in Adresses |-> Laissee(q, a)]
      /\ attardees' = IF q.nouvelle /\ compte = "supprime" THEN attardees \cup {q.id} ELSE attardees
      /\ requetes' = [requetes EXCEPT ![r] = SansRequete]
      /\ UNCHANGED <<compte, expeditions, demande, croisees>>
  BY <1>0 DEF ValiderAdresse, Phase, EnVol, Avancer
<1>2. q \in Transaction
  BY <1>0, <1>1, EnVolTypee DEF InvCompte
<1>3. ~croisees => DefautUnique'
  BY <1>0, <1>1, <1>2, DefautApres
<1>4. ~croisees => EnVol' = {}
  <2>1. ~croisees => EnVol = {r}
    BY <1>1 DEF InvCompte, Seule
  <2>2. EnVol' \subseteq EnVol \ {r}
    BY <1>1, RequetesDisjointes DEF EnVol, InvCompte, CompteTypes
  <2>3. QED
    BY <2>1, <2>2
<1>5. adresses' \in [Adresses -> LigneAdresse \cup {SansAdresse}]
  BY <1>1, <1>2, LaisseeTypee
<1>6. Enregistrees' \subseteq Enregistrees \cup {a \in Adresses : a = q.id /\ q.nouvelle}
  BY <1>1, <1>2, LaisseeTypee DEF Enregistrees
<1>7. CompteTypes'
  BY <1>1, <1>5 DEF InvCompte, CompteTypes
<1>8. Effacees'
  BY <1>1, <1>6 DEF InvCompte, Effacees
<1>9. QED
  BY <1>1, <1>3, <1>4, <1>7, <1>8 DEF InvCompte, Seule, Suivies

\* A request that is no transaction steps, and rows go.
LEMMA AutreRequeteTenue ==
    ASSUME HypothesesCompte, InvCompte, NEW r \in Requetes,
           NEW q \in AutreRequete \cup {SansRequete},
           requetes' = [requetes EXCEPT ![r] = q], UNCHANGED croisees,
           compte' \in {"actif", "supprime"},
           expeditions' \in [Expeditions -> {"absent", "en_cours", "termine"}],
           adresses' \in [Adresses -> LigneAdresse \cup {SansAdresse}],
           \A a \in Adresses : adresses'[a] \in {adresses[a], SansAdresse},
           Effacees'
    PROVE  InvCompte'
<1>1. CompteTypes'
  BY DEF InvCompte, CompteTypes
<1>2. \A o \in EnVol' : o \in EnVol /\ requetes'[o] = requetes[o]
  BY RequetesDisjointes DEF EnVol, InvCompte, CompteTypes
<1>3. \A o \in EnVol : requetes[o].id \in Adresses
  BY EnVolTypee DEF InvCompte, Transaction
<1>4. QED
  BY <1>1, <1>2, <1>3, RetraitTenu DEF InvCompte

LEMMA SansRequeteTenue ==
    ASSUME HypothesesCompte, InvCompte, UNCHANGED <<requetes, croisees>>,
           compte' \in {"actif", "supprime"},
           expeditions' \in [Expeditions -> {"absent", "en_cours", "termine"}],
           adresses' \in [Adresses -> LigneAdresse \cup {SansAdresse}],
           \A a \in Adresses : adresses'[a] \in {adresses[a], SansAdresse},
           Effacees'
    PROVE  InvCompte'
<1>1. CompteTypes'
  BY DEF InvCompte, CompteTypes
<1>2. \A o \in EnVol' : o \in EnVol /\ requetes'[o] = requetes[o]
  BY DEF EnVol
<1>3. \A o \in EnVol : requetes[o].id \in Adresses
  BY EnVolTypee DEF InvCompte, Transaction
<1>4. QED
  BY <1>1, <1>2, <1>3, RetraitTenu DEF InvCompte

LEMMA Pseudonymisee ==
    ASSUME Pseudonymiser, InvCompte, UNCHANGED attardees
    PROVE  /\ compte' = "supprime" /\ UNCHANGED expeditions /\ Effacees'
           /\ adresses' \in [Adresses -> LigneAdresse \cup {SansAdresse}]
           /\ \A a \in Adresses : adresses'[a] = SansAdresse
<1>1. compte' = "supprime" /\ UNCHANGED expeditions /\ AucunEnCours
      /\ adresses' = [a \in Adresses |-> SansAdresse]
  BY DEF Pseudonymiser
<1>2. Enregistrees' = {}
  BY <1>1 DEF Enregistrees
<1>3. Effacees'
  BY <1>1, <1>2 DEF Effacees, AucunEnCours
<1>4. QED
  BY <1>1, <1>3

LEMMA RequeteCompteTenue ==
    ASSUME HypothesesCompte, InvCompte, NEW r \in Requetes,
           \/ InterrompreAdresse(r) \/ InscrireExpedition(r) \/ Accorder(r) \/ EcrireDemande(r)
           \/ \E c \in Expeditions : LireExpedition(r, c)
           \/ \E statut \in {"traitee", "rejetee"} : LireDemandeSuppression(r, statut)
    PROVE  InvCompte'
<1>0. CompteTypes /\ Effacees
  BY DEF InvCompte
<1>1. \A q \in AutreRequete \cup {SansRequete} :
         requetes' = [requetes EXCEPT ![r] = q] /\ UNCHANGED <<donnees, attardees, croisees>>
            => InvCompte'
  <2> SUFFICES ASSUME NEW q \in AutreRequete \cup {SansRequete},
                      requetes' = [requetes EXCEPT ![r] = q],
                      UNCHANGED <<donnees, attardees, croisees>>
               PROVE  InvCompte'
    OBVIOUS
  <2>1. Effacees'
    BY <1>0 DEF Effacees, Enregistrees, donnees
  <2>2. QED
    BY <1>0, <2>1, AutreRequeteTenue DEF CompteTypes, donnees
<1>2. CASE InterrompreAdresse(r)
  BY <1>1, <1>2 DEF InterrompreAdresse, Avancer
<1>3. CASE \E c \in Expeditions : LireExpedition(r, c)
  <2>1. PICK c \in Expeditions : LireExpedition(r, c)
    BY <1>3
  <2>2. [etape |-> "declaree", id |-> c] \in AutreRequete
    BY DEF AutreRequete
  <2>3. QED
    BY <1>1, <2>1, <2>2 DEF LireExpedition, Avancer
<1>4. CASE \E statut \in {"traitee", "rejetee"} : LireDemandeSuppression(r, statut)
  <2>1. PICK statut \in {"traitee", "rejetee"} : LireDemandeSuppression(r, statut)
    BY <1>4
  <2>2. PICK e : e = IF statut = "traitee" /\ compte = "actif" THEN "accordee" ELSE "ecrite"
    OBVIOUS
  <2>3. [etape |-> e, statut |-> statut] \in AutreRequete
    BY <2>2 DEF AutreRequete
  <2>4. requetes' = [requetes EXCEPT ![r] = [etape |-> e, statut |-> statut]]
    BY <2>1, <2>2 DEF LireDemandeSuppression, Avancer
  <2>5. QED
    BY <1>1, <2>1, <2>3, <2>4 DEF LireDemandeSuppression
<1>5. CASE InscrireExpedition(r)
  <2>1. PICK c : c = requetes[r].id
    OBVIOUS
  <2>2. /\ expeditions' = [expeditions EXCEPT ![c] = IF @ = "absent" THEN "en_cours" ELSE @]
        /\ attardees' = IF compte = "supprime" THEN attardees \cup {c} ELSE attardees
        /\ requetes' = [requetes EXCEPT ![r] = SansRequete]
        /\ UNCHANGED <<compte, adresses, demande, croisees>>
    BY <1>5, <2>1 DEF InscrireExpedition, Avancer
  <2>3. expeditions' \in [Expeditions -> {"absent", "en_cours", "termine"}]
        /\ \A d \in Expeditions : d # c => expeditions'[d] = expeditions[d]
    BY <1>0, <2>2 DEF CompteTypes
  <2>4. Effacees'
    BY <1>0, <2>2, <2>3 DEF Effacees, Enregistrees
  <2>5. QED
    BY <1>0, <2>2, <2>3, <2>4, AutreRequeteTenue DEF CompteTypes
<1>6. CASE Accorder(r)
  <2>1. requetes[r].etape = "accordee" /\ UNCHANGED <<demande, attardees, croisees>>
    BY <1>6 DEF Accorder, Phase
  <2>2. CASE Pseudonymiser /\ Avancer(r, [requetes[r] EXCEPT !.etape = "ecrite"])
    <3>1. requetes[r] \in AutreRequete
      BY <1>0, <2>1, RequetesDisjointes DEF CompteTypes
    <3>2. PICK q : q = [requetes[r] EXCEPT !.etape = "ecrite"]
      OBVIOUS
    <3>3. q \in AutreRequete
      BY <2>1, <3>1, <3>2 DEF AutreRequete
    <3>4. requetes' = [requetes EXCEPT ![r] = q]
      BY <2>2, <3>2 DEF Avancer
    <3>5. /\ compte' = "supprime" /\ UNCHANGED expeditions /\ Effacees'
          /\ adresses' \in [Adresses -> LigneAdresse \cup {SansAdresse}]
          /\ \A a \in Adresses : adresses'[a] = SansAdresse
      BY <2>1, <2>2, Pseudonymisee
    <3>6. QED
      BY <1>0, <2>1, <3>3, <3>4, <3>5, AutreRequeteTenue DEF CompteTypes
  <2>3. CASE Avancer(r, SansRequete) /\ UNCHANGED <<compte, adresses, expeditions>>
    BY <1>1, <2>1, <2>3 DEF Avancer, donnees
  <2>4. QED
    BY <1>6, <2>2, <2>3 DEF Accorder
<1>7. CASE EcrireDemande(r)
  <2>1. Effacees'
    BY <1>0, <1>7 DEF Effacees, Enregistrees, EcrireDemande
  <2>2. QED
    BY <1>0, <1>7, <2>1, AutreRequeteTenue DEF CompteTypes, EcrireDemande, Avancer
<1>8. QED
  BY <1>2, <1>3, <1>4, <1>5, <1>6, <1>7

LEMMA ClientTenu ==
    ASSUME HypothesesCompte, InvCompte,
           \/ \E a \in Adresses : SupprimerAdresse(a)
           \/ \E c \in Expeditions : Terminer(c)
           \/ SupprimerMonCompte \/ DeposerDemande
    PROVE  InvCompte'
<1>0. CompteTypes /\ Effacees
  BY DEF InvCompte
<1>1. CASE \E a \in Adresses : SupprimerAdresse(a)
  <2>1. PICK a \in Adresses : SupprimerAdresse(a)
    BY <1>1
  <2>2. adresses' = [adresses EXCEPT ![a] = SansAdresse]
        /\ UNCHANGED <<compte, expeditions, demande, requetes, attardees, croisees>>
    BY <2>1 DEF SupprimerAdresse
  <2>3. adresses' \in [Adresses -> LigneAdresse \cup {SansAdresse}]
        /\ \A b \in Adresses : adresses'[b] \in {adresses[b], SansAdresse}
    BY <1>0, <2>2 DEF CompteTypes
  <2>4. Effacees'
    BY <1>0, <2>2, <2>3 DEF Effacees, Enregistrees
  <2>5. QED
    BY <1>0, <2>2, <2>3, <2>4, SansRequeteTenue DEF CompteTypes
<1>2. CASE \E c \in Expeditions : Terminer(c)
  <2>1. PICK c \in Expeditions : Terminer(c)
    BY <1>2
  <2>2. expeditions' = [expeditions EXCEPT ![c] = "termine"]
        /\ UNCHANGED <<compte, adresses, demande, requetes, attardees, croisees>>
    BY <2>1 DEF Terminer
  <2>3. expeditions' \in [Expeditions -> {"absent", "en_cours", "termine"}]
        /\ \A d \in Expeditions : expeditions'[d] \in {expeditions[d], "termine"}
    BY <1>0, <2>2 DEF CompteTypes
  <2>4. Effacees'
    BY <1>0, <2>2, <2>3 DEF Effacees, Enregistrees
  <2>5. QED
    BY <1>0, <2>2, <2>3, <2>4, SansRequeteTenue DEF CompteTypes
<1>3. CASE SupprimerMonCompte
  <2>1. Pseudonymiser /\ UNCHANGED <<demande, requetes, attardees, croisees>>
    BY <1>3 DEF SupprimerMonCompte
  <2>2. /\ compte' = "supprime" /\ UNCHANGED expeditions /\ Effacees'
        /\ adresses' \in [Adresses -> LigneAdresse \cup {SansAdresse}]
        /\ \A a \in Adresses : adresses'[a] = SansAdresse
    BY <2>1, Pseudonymisee
  <2>3. QED
    BY <1>0, <2>1, <2>2, SansRequeteTenue DEF CompteTypes
<1>4. CASE DeposerDemande
  <2>1. Effacees'
    BY <1>0, <1>4 DEF Effacees, Enregistrees, DeposerDemande
  <2>2. QED
    BY <1>0, <1>4, <2>1, SansRequeteTenue DEF CompteTypes, DeposerDemande
<1>5. QED
  BY <1>1, <1>2, <1>3, <1>4

LEMMA NextInvCompte ==
    ASSUME HypothesesCompte, InvCompte, [NextCompte]_varsCompte
    PROVE  InvCompte'
<1>1. CASE \E r \in Requetes, a \in Adresses, type \in Types, d \in BOOLEAN :
              LireCreation(r, a, type, d)
  BY <1>1, LireCreationTenue
<1>2. CASE \E r \in Requetes, a \in Adresses, type \in Types, drapeau \in Drapeaux :
              LireModification(r, a, type, drapeau)
  BY <1>2, LireModificationTenue
<1>3. CASE \E r \in Requetes : Ouvrir(r) \/ Declasser(r)
  BY <1>3, OuvrirTenu
<1>4. CASE \E r \in Requetes : ValiderAdresse(r)
  BY <1>4, ValiderAdresseTenue
<1>5. CASE \E r \in Requetes :
              \/ InterrompreAdresse(r) \/ InscrireExpedition(r) \/ Accorder(r) \/ EcrireDemande(r)
              \/ \E c \in Expeditions : LireExpedition(r, c)
              \/ \E statut \in {"traitee", "rejetee"} : LireDemandeSuppression(r, statut)
  BY <1>5, RequeteCompteTenue
<1>6. CASE \/ \E a \in Adresses : SupprimerAdresse(a)
           \/ \E c \in Expeditions : Terminer(c)
           \/ SupprimerMonCompte \/ DeposerDemande
  BY <1>6, ClientTenu
<1>7. CASE UNCHANGED varsCompte
  <2>1. UNCHANGED <<compte, adresses, expeditions, demande, requetes, attardees, croisees>>
    BY <1>7 DEF varsCompte, donnees
  <2>2. CompteTypes /\ Effacees /\ Effacees'
    BY <2>1 DEF InvCompte, Effacees, Enregistrees
  <2>3. QED
    BY <2>1, <2>2, SansRequeteTenue DEF CompteTypes
<1>8. QED
  BY <1>1, <1>2, <1>3, <1>4, <1>5, <1>6, <1>7, Zenon DEF NextCompte

\* Equal members make a set of one at most.
LEMMA AuPlusUn ==
    ASSUME NEW S, \A a, b \in S : a = b
    PROVE  Cardinality(S) <= 1
<1>1. CASE S = {}
  BY <1>1, FS_EmptySet
<1>2. CASE S # {}
  <2>1. PICK a \in S : S = {a}
    BY <1>2
  <2>2. QED
    BY <2>1, FS_Singleton
<1>3. QED
  BY <1>1, <1>2

\* Nothing survives the deletion of an account but what was in flight, and a type has one
\* default address unless two requests on the address book overlapped.
THEOREM ComptesEffaces == HypothesesCompte /\ SpecCompte => []CompteEfface
<1> SUFFICES ASSUME HypothesesCompte PROVE SpecCompte => []CompteEfface
  OBVIOUS
<1>1. InitCompte => InvCompte
  <2> SUFFICES ASSUME InitCompte PROVE InvCompte
    OBVIOUS
  <2>1. CompteTypes
    BY DEF InitCompte, CompteTypes
  <2>2. Enregistrees = {} /\ EnVol = {}
    BY DEF InitCompte, Enregistrees, EnVol, SansRequete
  <2>3. Effacees
    BY DEF InitCompte, Effacees
  <2>4. Seule /\ Suivies /\ DefautUnique
    BY <2>2 DEF Seule, Suivies, DefautUnique, ParDefaut
  <2>5. QED
    BY <2>1, <2>3, <2>4 DEF InvCompte
<1>2. InvCompte /\ [NextCompte]_varsCompte => InvCompte'
  BY NextInvCompte
<1>3. InvCompte => CompteEfface
  <2> SUFFICES ASSUME InvCompte PROVE CompteEfface
    OBVIOUS
  <2>1. ~croisees => \A type \in Types : Cardinality(ParDefaut(type)) <= 1
    BY AuPlusUn DEF InvCompte, DefautUnique
  <2>2. QED
    BY <2>1 DEF InvCompte, Effacees, CompteEfface
<1>4. QED
  BY <1>1, <1>2, <1>3, PTL DEF SpecCompte

-----------------------------------------------------------------------------
(* The rounds and the pick-ups *)

StatutsTournee ==
    {"absent", "brouillon", "ouverte", "complete", "en_cours", "terminee", "annulee", "supprimee"}
StatutsEcrits == {"planifie", "en_cours", "effectue", "echoue", "annule"}
StatutsColis == {"absent", "en_attente", "enlevement_planifie", "enleve", "annule"}

LigneTournee == [statut : StatutsTournee, capacite : Nat, inscrits : Nat]
LigneEnlevement ==
    [statut : StatutsEcrits \cup {"absent", "demande"}, tournee : Tournees \cup {Nul},
     colis : Colis \cup {Nul}, echec : BOOLEAN]
LigneColis == [statut : StatutsColis, tournee : Tournees \cup {Nul}]

Passage ==
    [etape : {"supprimer"}, tournee : Tournees]
    \cup [etape : {"declarer"}, colis : Colis, tournee : Tournees \cup {Nul}]
    \cup [etape : {"demander"}, colis : Colis \cup {Nul}, tournee : Tournees \cup {Nul}]
    \cup [etape : {"ecrire"}, enlevement : Enlevements, statut : StatutsEcrits,
          par : {"client", "coursier", "admin"}]
    \cup [etape : {"rendre"}, enlevement : Enlevements]
    \cup [etape : {"annoncer"}, colis : Colis, statut : {"planifie", "effectue"}]

CollectesTypes ==
    /\ tournee \in [Tournees -> LigneTournee]
    /\ enlevement \in [Enlevements -> LigneEnlevement]
    /\ colis \in [Colis -> LigneColis]
    /\ guichet \in [Guichets -> Passage \cup {Inactif}]
    /\ bouscules \subseteq Enlevements

\* What a row or a request refers to exists.
RequeteConnue(q) ==
    /\ q.etape = "demander" /\ q.colis # Nul => colis[q.colis].statut # Absent
    /\ q.etape = "supprimer" => tournee[q.tournee].statut # Absent
    /\ q.etape \in {"ecrire", "rendre"} => enlevement[q.enlevement].statut # Absent

Connus ==
    /\ \A c \in Colis :
          /\ colis[c].statut = Absent => colis[c].tournee = Nul
          /\ colis[c].tournee # Nul => tournee[colis[c].tournee].statut # Absent
    /\ \A e \in Enlevements :
          /\ enlevement[e].statut = Absent => enlevement[e] = Aucune
          /\ enlevement[e].tournee # Nul => tournee[enlevement[e].tournee].statut # Absent
          /\ enlevement[e].colis # Nul => colis[enlevement[e].colis].statut # Absent
    /\ \A r \in Guichets : RequeteConnue(guichet[r])

\* A request that has read a pick-up which no other one disputes finds it as it read it.
Tient(q) == q.etape \in {"ecrire", "rendre"}

LectureFondee(q) ==
    q.etape = "ecrire" =>
        /\ enlevement[q.enlevement].statut # "annule"
        /\ q.statut = "planifie" => enlevement[q.enlevement].statut \in {"demande", "echoue"}

LecturesFondees ==
    \A r \in Guichets :
        Tient(guichet[r]) /\ guichet[r].enlevement \notin bouscules =>
            /\ LectureFondee(guichet[r])
            /\ \A o \in Guichets :
                  Tient(guichet[o]) /\ guichet[o].enlevement = guichet[r].enlevement => o = r

\* The places that cancellations are about to give back.
Rendus(t) ==
    {r \in Guichets : guichet[r].etape = "rendre"
                        /\ enlevement[guichet[r].enlevement].tournee = t}

EnMarge(t) == \E e \in bouscules : enlevement[e].tournee = t

PlacesSuivies ==
    \A t \in Tournees :
        ~EnMarge(t) => Cardinality(Places(t)) + Cardinality(Rendus(t)) <= tournee[t].inscrits

\* A failed pick-up carries the reason of its failure.
EchecsMotives == \A e \in Enlevements : enlevement[e].statut = "echoue" => enlevement[e].echec

InscritsBornes == \A t \in Tournees \ reduites : tournee[t].inscrits <= tournee[t].capacite

InvCollectes ==
    /\ CollectesTypes /\ Connus /\ LecturesFondees /\ PlacesSuivies /\ InscritsBornes
    /\ EchecsMotives /\ PasDEnlevementSansColis

LEMMA UnDePlus ==
    ASSUME NEW S, NEW T, NEW x, IsFiniteSet(S), T \subseteq S \cup {x}
    PROVE  /\ Cardinality(S) \in Nat /\ Cardinality(T) \in Nat
           /\ Cardinality(T) <= Cardinality(S) + 1
<1>1. IsFiniteSet(S \cup {x}) /\ Cardinality(S \cup {x}) <= Cardinality(S) + 1
      /\ Cardinality(S) \in Nat
  BY FS_AddElement, FS_CardinalityType
<1>2. IsFiniteSet(T) /\ Cardinality(T) <= Cardinality(S \cup {x})
  BY <1>1, FS_Subset
<1>3. QED
  BY <1>1, <1>2, FS_CardinalityType

LEMMA UnDeMoins ==
    ASSUME NEW S, NEW T, NEW x \in S, IsFiniteSet(S), T \subseteq S \ {x}
    PROVE  /\ Cardinality(S) \in Nat /\ Cardinality(T) \in Nat
           /\ Cardinality(T) <= Cardinality(S) - 1
<1>1. IsFiniteSet(S \ {x}) /\ Cardinality(S \ {x}) = Cardinality(S) - 1
      /\ Cardinality(S) \in Nat
  BY FS_RemoveElement, FS_CardinalityType
<1>2. IsFiniteSet(T) /\ Cardinality(T) <= Cardinality(S \ {x})
  BY <1>1, FS_Subset
<1>3. QED
  BY <1>1, <1>2, FS_CardinalityType

LEMMA PasDePlus ==
    ASSUME NEW S, NEW T, IsFiniteSet(S), T \subseteq S
    PROVE  /\ Cardinality(S) \in Nat /\ Cardinality(T) \in Nat
           /\ Cardinality(T) <= Cardinality(S)
  BY FS_Subset, FS_CardinalityType

LEMMA PlacesFinies ==
    ASSUME HypothesesCollectes, NEW t
    PROVE  /\ IsFiniteSet(Places(t)) /\ IsFiniteSet(Rendus(t))
           /\ Places(t)' \subseteq Colis \cup Enlevements /\ Rendus(t)' \subseteq Guichets
<1>1. IsFiniteSet(Colis \cup Enlevements)
  BY FS_Union DEF HypothesesCollectes
<1>2. Places(t) \subseteq Colis \cup Enlevements /\ Rendus(t) \subseteq Guichets
  BY DEF Places, Rendus
<1>3. IsFiniteSet(Places(t)) /\ IsFiniteSet(Rendus(t))
  BY <1>1, <1>2, FS_Subset DEF HypothesesCollectes
<1>4. QED
  BY <1>3 DEF Places, Rendus

LEMMA PassagesDisjoints ==
    /\ \A q \in Passage : q.etape \in {"supprimer", "declarer", "demander", "ecrire", "rendre",
                                       "annoncer"}
    /\ \A q \in Passage : q.etape = "supprimer" => q.tournee \in Tournees
    /\ \A q \in Passage :
          q.etape = "declarer" => q.colis \in Colis /\ q.tournee \in Tournees \cup {Nul}
    /\ \A q \in Passage :
          q.etape = "demander" => q.colis \in Colis \cup {Nul} /\ q.tournee \in Tournees \cup {Nul}
    /\ \A q \in Passage : q.etape = "ecrire" => q.statut \in StatutsEcrits
    /\ \A q \in Passage : Tient(q) => q.enlevement \in Enlevements
    /\ \A q \in Passage : q.etape = "annoncer" => q.colis \in Colis /\ q.statut \in {"planifie", "effectue"}
    /\ Inactif.etape = "libre" /\ ~Tient(Inactif) /\ RequeteConnue(Inactif)
  BY DEF Passage, Tient, Inactif, RequeteConnue

LEMMA RequeteTypee ==
    ASSUME CollectesTypes, NEW r \in Guichets, guichet[r].etape # "libre"
    PROVE  guichet[r] \in Passage
  BY PassagesDisjoints DEF CollectesTypes

LEMMA LuesConnues ==
    /\ \A e \in Lus : \E o \in Guichets : Tient(guichet[o]) /\ guichet[o].enlevement = e
    /\ \A o \in Guichets : Tient(guichet[o]) => guichet[o].enlevement \in Lus
  BY DEF Lus, Tient, Etape

\* A round stays aside.
LEMMA MargeGardee ==
    ASSUME HypothesesCollectes, CollectesTypes, NEW t \in Tournees, bouscules \subseteq bouscules',
           \A e \in Enlevements : enlevement[e].tournee # Nul =>
                                     enlevement'[e].tournee = enlevement[e].tournee
    PROVE  EnMarge(t) => EnMarge(t)'
<1>1. t # Nul
  BY DEF HypothesesCollectes
<1>2. QED
  BY <1>1 DEF EnMarge, CollectesTypes

\* The rounds change, and requests end.
LEMMA TourneesChangees ==
    ASSUME HypothesesCollectes, InvCollectes, UNCHANGED <<enlevement, colis, bouscules>>,
           tournee' \in [Tournees -> LigneTournee],
           \A t \in Tournees :
               tournee[t].statut # Absent =>
                   tournee'[t].statut # Absent /\ tournee'[t].inscrits = tournee[t].inscrits,
           guichet' \in [Guichets -> Passage \cup {Inactif}],
           \A r \in Guichets : guichet'[r] \in {guichet[r], Inactif},
           InscritsBornes'
    PROVE  InvCollectes'
<1>0. /\ CollectesTypes /\ Connus /\ LecturesFondees /\ PlacesSuivies /\ EchecsMotives
      /\ PasDEnlevementSansColis
  BY DEF InvCollectes
<1>1. CollectesTypes'
  BY <1>0 DEF CollectesTypes
<1>2. Connus'
  <2>1. \A c \in Colis : colis[c].tournee \in Tournees \cup {Nul}
    BY <1>0 DEF CollectesTypes, LigneColis
  <2>2. \A e \in Enlevements : enlevement[e].tournee \in Tournees \cup {Nul}
    BY <1>0 DEF CollectesTypes, LigneEnlevement
  <2>3. \A r \in Guichets : RequeteConnue(guichet[r])'
    <3> SUFFICES ASSUME NEW r \in Guichets PROVE RequeteConnue(guichet[r])'
      OBVIOUS
    <3>1. CASE guichet'[r] = Inactif
      BY <3>1, PassagesDisjoints DEF RequeteConnue, Inactif
    <3>2. CASE guichet'[r] = guichet[r] /\ guichet[r] # Inactif
      <4>1. guichet[r] \in Passage
        BY <1>0, <3>2 DEF CollectesTypes
      <4>2. RequeteConnue(guichet[r])
        BY <1>0 DEF Connus
      <4>3. QED
        BY <3>2, <4>1, <4>2, PassagesDisjoints DEF RequeteConnue
    <3>3. QED
      BY <3>1, <3>2
  <2>4. QED
    BY <1>0, <2>1, <2>2, <2>3 DEF Connus
<1>3. LecturesFondees'
  <2>1. \A r \in Guichets : Tient(guichet'[r]) => guichet'[r] = guichet[r]
    BY PassagesDisjoints
  <2>2. QED
    BY <1>0, <2>1 DEF LecturesFondees, LectureFondee, Tient
<1>4. PlacesSuivies'
  <2> SUFFICES ASSUME NEW t \in Tournees, ~EnMarge(t)'
               PROVE  Cardinality(Places(t)') + Cardinality(Rendus(t)') <= tournee'[t].inscrits
    BY DEF PlacesSuivies
  <2>1. Places(t)' = Places(t)
    BY DEF Places
  <2>2. Rendus(t)' \subseteq Rendus(t)
    BY PassagesDisjoints DEF Rendus
  <2>3. IsFiniteSet(Places(t)) /\ IsFiniteSet(Rendus(t))
    BY PlacesFinies
  <2>4. /\ Cardinality(Places(t)) \in Nat /\ Cardinality(Rendus(t)) \in Nat
        /\ Cardinality(Rendus(t)') \in Nat /\ Cardinality(Rendus(t)') <= Cardinality(Rendus(t))
    BY <2>2, <2>3, PasDePlus
  <2>5. tournee[t].inscrits \in Nat /\ tournee'[t].inscrits \in Nat
    BY <1>0 DEF CollectesTypes, LigneTournee
  <2>6. CASE tournee[t].statut # Absent
    <3>1. Cardinality(Places(t)) + Cardinality(Rendus(t)) <= tournee[t].inscrits
      BY <1>0 DEF PlacesSuivies, EnMarge
    <3>2. QED
      BY <2>1, <2>4, <2>5, <2>6, <3>1
  <2>7. CASE tournee[t].statut = Absent
    <3>0. t # Nul
      BY DEF HypothesesCollectes
    <3>1. Places(t) = {}
      BY <1>0, <2>7, <3>0 DEF Places, Connus
    <3>2. Rendus(t) = {}
      <4> SUFFICES ASSUME NEW r \in Rendus(t) PROVE FALSE
        OBVIOUS
      <4>1. r \in Guichets /\ guichet[r].etape = "rendre"
            /\ enlevement[guichet[r].enlevement].tournee = t
        BY DEF Rendus
      <4>2. guichet[r].enlevement \in Enlevements
        BY <1>0, <4>1, RequeteTypee, PassagesDisjoints DEF Tient
      <4>3. QED
        BY <1>0, <2>7, <3>0, <4>1, <4>2 DEF Connus
    <3>3. Cardinality(Places(t)) = 0 /\ Cardinality(Rendus(t)) = 0
      BY <3>1, <3>2, FS_EmptySet
    <3>4. QED
      BY <2>1, <2>4, <2>5, <3>3
  <2>8. QED
    BY <2>6, <2>7
<1>5. EchecsMotives' /\ PasDEnlevementSansColis'
  BY <1>0 DEF EchecsMotives, PasDEnlevementSansColis
<1>6. QED
  BY <1>1, <1>2, <1>3, <1>4, <1>5 DEF InvCollectes

LEMMA TourneeTenue ==
    ASSUME HypothesesCollectes, InvCollectes, NEW t \in Tournees,
           \/ ChangerStatutTournee(t)
           \/ \E n \in 1 .. CapaciteMax : CreerTournee(t, n) \/ ModifierTournee(t, n)
    PROVE  InvCollectes'
<1>0. CollectesTypes /\ InscritsBornes
  BY DEF InvCollectes
<1>1. CapaciteMax \in Nat
  BY DEF HypothesesCollectes
<1>2. PICK l : l = tournee[t]
  OBVIOUS
<1>3. l \in LigneTournee
  BY <1>0, <1>2 DEF CollectesTypes
<1>4. ASSUME NEW k \in LigneTournee, tournee' = [tournee EXCEPT ![t] = k],
             l.statut # Absent => k.statut # Absent /\ k.inscrits = l.inscrits,
             UNCHANGED <<enlevement, colis, guichet, bouscules>>,
             reduites \subseteq reduites', t \notin reduites' => k.inscrits <= k.capacite
      PROVE  InvCollectes'
  <2>1. tournee' \in [Tournees -> LigneTournee]
    BY <1>0, <1>4 DEF CollectesTypes
  <2>2. \A u \in Tournees :
           tournee[u].statut # Absent =>
               tournee'[u].statut # Absent /\ tournee'[u].inscrits = tournee[u].inscrits
    BY <1>0, <1>2, <1>4 DEF CollectesTypes
  <2>3. InscritsBornes'
    BY <1>0, <1>4 DEF InscritsBornes, CollectesTypes
  <2>4. QED
    BY <1>0, <1>4, <2>1, <2>2, <2>3, TourneesChangees DEF CollectesTypes
<1>5. CASE ChangerStatutTournee(t)
  <2>1. PICK s \in TRANSITIONS_TOURNEE(l.statut) : tournee' = [tournee EXCEPT ![t].statut = s]
    BY <1>2, <1>5 DEF ChangerStatutTournee
  <2>2. l.statut # Absent /\ s \in StatutsTournee /\ s # Absent
    BY <2>1 DEF TRANSITIONS_TOURNEE, Absent, StatutsTournee
  <2>3. PICK k : k = [l EXCEPT !.statut = s]
    OBVIOUS
  <2>4. k \in LigneTournee /\ k.statut = s /\ k.inscrits = l.inscrits /\ k.capacite = l.capacite
    BY <1>3, <2>2, <2>3 DEF LigneTournee
  <2>5. tournee' = [tournee EXCEPT ![t] = k]
    BY <1>2, <2>1, <2>3
  <2>6. UNCHANGED <<enlevement, colis, guichet, reduites, bouscules>>
    BY <1>5 DEF ChangerStatutTournee
  <2>7. t \notin reduites' => k.inscrits <= k.capacite
    BY <1>0, <1>2, <2>4, <2>6 DEF InscritsBornes
  <2>8. QED
    BY <1>4, <2>2, <2>4, <2>5, <2>6, <2>7
<1>6. CASE \E n \in 1 .. CapaciteMax : CreerTournee(t, n)
  <2>1. PICK n \in 1 .. CapaciteMax : CreerTournee(t, n)
    BY <1>6
  <2>2. PICK k : k = [statut |-> "brouillon", capacite |-> n, inscrits |-> 0]
    OBVIOUS
  <2>3. k \in LigneTournee /\ k.inscrits <= k.capacite
    BY <1>1, <2>2 DEF LigneTournee, StatutsTournee
  <2>4. l.statut = Absent /\ tournee' = [tournee EXCEPT ![t] = k]
        /\ UNCHANGED <<enlevement, colis, guichet, reduites, bouscules>>
    BY <1>2, <2>1, <2>2 DEF CreerTournee
  <2>5. QED
    BY <1>4, <2>3, <2>4
<1>7. CASE \E n \in 1 .. CapaciteMax : ModifierTournee(t, n)
  <2>1. PICK n \in 1 .. CapaciteMax : ModifierTournee(t, n)
    BY <1>7
  <2>2. PICK k : k = [l EXCEPT !.capacite = n]
    OBVIOUS
  <2>3. k \in LigneTournee /\ k.statut = l.statut /\ k.inscrits = l.inscrits /\ k.capacite = n
    BY <1>1, <1>3, <2>2 DEF LigneTournee
  <2>4. tournee' = [tournee EXCEPT ![t] = k]
        /\ UNCHANGED <<enlevement, colis, guichet, bouscules>>
    BY <1>2, <2>1, <2>2 DEF ModifierTournee
  <2>5. reduites' = reduites \cup (IF n < l.inscrits THEN {t} ELSE {})
    BY <1>2, <2>1 DEF ModifierTournee
  <2>6. t \notin reduites' => k.inscrits <= k.capacite
    <3>1. l.inscrits \in Nat /\ n \in Nat
      BY <1>1, <1>3 DEF LigneTournee
    <3>2. QED
      BY <2>3, <2>5, <3>1
  <2>7. QED
    BY <1>4, <2>3, <2>4, <2>5, <2>6
<1>8. QED
  BY <1>5, <1>6, <1>7

\* A request reads, or ends.
LEMMA GuichetPasse ==
    ASSUME HypothesesCollectes, InvCollectes, UNCHANGED <<tournee, enlevement, colis, reduites>>,
           bouscules \subseteq bouscules', bouscules' \subseteq Enlevements,
           NEW r \in Guichets, NEW q \in Passage \cup {Inactif},
           guichet' = [guichet EXCEPT ![r] = q], q.etape # "rendre", RequeteConnue(q),
           Tient(q) /\ q.enlevement \notin bouscules' =>
               LectureFondee(q) /\ q.enlevement \notin Lus
    PROVE  InvCollectes'
<1>0. /\ CollectesTypes /\ Connus /\ LecturesFondees /\ PlacesSuivies /\ InscritsBornes
      /\ EchecsMotives /\ PasDEnlevementSansColis
  BY DEF InvCollectes
<1>1. CollectesTypes'
  BY <1>0 DEF CollectesTypes
<1>2. \A o \in Guichets : guichet'[o] = IF o = r THEN q ELSE guichet[o]
  BY <1>0 DEF CollectesTypes
<1>3. Connus'
  <2>1. \A o \in Guichets : RequeteConnue(guichet[o])'
    <3> SUFFICES ASSUME NEW o \in Guichets PROVE RequeteConnue(guichet[o])'
      OBVIOUS
    <3>1. PICK p : p = guichet'[o]
      OBVIOUS
    <3>2. RequeteConnue(p)
      BY <1>0, <1>2, <3>1 DEF Connus
    <3>3. QED
      BY <3>1, <3>2 DEF RequeteConnue
  <2>2. QED
    BY <1>0, <2>1 DEF Connus
<1>4. LecturesFondees'
  <2>1. \A p : LectureFondee(p)' = LectureFondee(p)
    BY DEF LectureFondee
  <2> SUFFICES ASSUME NEW s \in Guichets, Tient(guichet'[s]),
                      guichet'[s].enlevement \notin bouscules'
               PROVE  /\ LectureFondee(guichet[s])'
                      /\ \A o \in Guichets :
                            Tient(guichet'[o]) /\ guichet'[o].enlevement = guichet'[s].enlevement
                               => o = s
    BY DEF LecturesFondees, Tient
  <2>2. LectureFondee(guichet'[s])
    BY <1>0, <1>2 DEF LecturesFondees
  <2>3. \A o \in Guichets :
           Tient(guichet'[o]) /\ guichet'[o].enlevement = guichet'[s].enlevement => o = s
    BY <1>0, <1>2, LuesConnues DEF LecturesFondees
  <2>4. LectureFondee(guichet[s])'
    BY <2>2 DEF LectureFondee
  <2>5. QED
    BY <2>3, <2>4
<1>5. PlacesSuivies'
  <2> SUFFICES ASSUME NEW t \in Tournees, ~EnMarge(t)'
               PROVE  Cardinality(Places(t)') + Cardinality(Rendus(t)') <= tournee'[t].inscrits
    BY DEF PlacesSuivies
  <2>1. Places(t)' = Places(t)
    BY DEF Places
  <2>2. Rendus(t)' \subseteq Rendus(t)
    BY <1>2 DEF Rendus
  <2>3. IsFiniteSet(Places(t)) /\ IsFiniteSet(Rendus(t))
    BY PlacesFinies
  <2>4. /\ Cardinality(Places(t)) \in Nat /\ Cardinality(Rendus(t)) \in Nat
        /\ Cardinality(Rendus(t)') \in Nat /\ Cardinality(Rendus(t)') <= Cardinality(Rendus(t))
    BY <2>2, <2>3, PasDePlus
  <2>5. tournee[t].inscrits \in Nat
    BY <1>0 DEF CollectesTypes, LigneTournee
  <2>6. ~EnMarge(t)
    BY <1>0, MargeGardee
  <2>7. Cardinality(Places(t)) + Cardinality(Rendus(t)) <= tournee[t].inscrits
    BY <1>0, <2>6 DEF PlacesSuivies
  <2>8. QED
    BY <2>1, <2>4, <2>5, <2>7
<1>6. InscritsBornes' /\ EchecsMotives' /\ PasDEnlevementSansColis'
  BY <1>0 DEF InscritsBornes, EchecsMotives, PasDEnlevementSansColis
<1>7. QED
  BY <1>1, <1>3, <1>4, <1>5, <1>6 DEF InvCollectes

\* A reservation and a restitution touch one counter by one.
LEMMA ReserverTenu ==
    ASSUME HypothesesCollectes, CollectesTypes, InscritsBornes, NEW t0 \in Tournees \cup {Nul},
           t0 # Nul => PlaceRestante(t0), tournee' = Reserver(t0), UNCHANGED reduites
    PROVE  /\ tournee' \in [Tournees -> LigneTournee] /\ InscritsBornes'
           /\ \A t \in Tournees :
                 /\ tournee'[t].statut = tournee[t].statut
                 /\ tournee'[t].inscrits = tournee[t].inscrits + (IF t = t0 THEN 1 ELSE 0)
<1>0. \A t \in Tournees : tournee[t].inscrits \in Nat
  BY DEF CollectesTypes, LigneTournee
<1>1. CASE t0 = Nul
  <2>1. tournee' = tournee /\ t0 \notin Tournees
    BY <1>1 DEF Reserver, HypothesesCollectes
  <2>2. \A t \in Tournees : tournee[t].inscrits = tournee[t].inscrits + (IF t = t0 THEN 1 ELSE 0)
    BY <1>0, <2>1
  <2>3. QED
    BY <2>1, <2>2 DEF CollectesTypes, InscritsBornes
<1>2. CASE t0 # Nul
  <2>1. t0 \in Tournees /\ tournee[t0].inscrits < tournee[t0].capacite
    BY <1>2 DEF PlaceRestante
  <2>2. PICK k : k = [tournee[t0] EXCEPT !.inscrits = tournee[t0].inscrits + 1]
    OBVIOUS
  <2>3. tournee' = [tournee EXCEPT ![t0] = k]
    BY <1>2, <2>2 DEF Reserver
  <2>4. tournee[t0] \in LigneTournee
    BY <2>1 DEF CollectesTypes
  <2>5. k \in LigneTournee /\ k.statut = tournee[t0].statut /\ k.capacite = tournee[t0].capacite
        /\ k.inscrits = tournee[t0].inscrits + 1
    BY <2>2, <2>4 DEF LigneTournee
  <2>6. k.inscrits <= k.capacite
    BY <2>1, <2>4, <2>5 DEF LigneTournee
  <2>7. \A t \in Tournees : tournee'[t] = IF t = t0 THEN k ELSE tournee[t]
    BY <2>3 DEF CollectesTypes
  <2>8. tournee' \in [Tournees -> LigneTournee]
    BY <2>3, <2>5 DEF CollectesTypes
  <2>9. InscritsBornes'
    BY <2>6, <2>7 DEF InscritsBornes
  <2>10. QED
    BY <1>0, <2>5, <2>7, <2>8, <2>9
<1>3. QED
  BY <1>1, <1>2

LEMMA RendreTenu ==
    ASSUME HypothesesCollectes, CollectesTypes, InscritsBornes, NEW t0 \in Tournees \cup {Nul},
           tournee' = Rendre(t0), UNCHANGED reduites
    PROVE  /\ tournee' \in [Tournees -> LigneTournee] /\ InscritsBornes'
           /\ \A t \in Tournees :
                 /\ tournee'[t].statut = tournee[t].statut
                 /\ tournee'[t].inscrits >= tournee[t].inscrits - (IF t = t0 THEN 1 ELSE 0)
<1>0. \A t \in Tournees : tournee[t].inscrits \in Nat
  BY DEF CollectesTypes, LigneTournee
<1>1. CASE t0 = Nul
  <2>1. tournee' = tournee /\ t0 \notin Tournees
    BY <1>1 DEF Rendre, HypothesesCollectes
  <2>2. \A t \in Tournees : tournee[t].inscrits >= tournee[t].inscrits - (IF t = t0 THEN 1 ELSE 0)
    BY <1>0, <2>1
  <2>3. QED
    BY <2>1, <2>2 DEF CollectesTypes, InscritsBornes
<1>2. CASE t0 # Nul
  <2>0. t0 \in Tournees
    BY <1>2
  <2>1. PICK i : i = tournee[t0].inscrits
    OBVIOUS
  <2>2. PICK n : n = IF Existe(t0) /\ i > 0 THEN i - 1 ELSE i
    OBVIOUS
  <2>3. PICK k : k = [tournee[t0] EXCEPT !.inscrits = n]
    OBVIOUS
  <2>4. tournee' = [tournee EXCEPT ![t0] = k]
    BY <1>2, <2>1, <2>2, <2>3 DEF Rendre
  <2>5. i \in Nat
    BY <1>0, <2>0, <2>1
  <2>6. n \in Nat /\ n <= i /\ n >= i - 1
    BY <2>2, <2>5
  <2>7. tournee[t0] \in LigneTournee
    BY <2>0 DEF CollectesTypes
  <2>8. k \in LigneTournee /\ k.statut = tournee[t0].statut /\ k.capacite = tournee[t0].capacite
        /\ k.inscrits = n
    BY <2>3, <2>6, <2>7 DEF LigneTournee
  <2>9. \A t \in Tournees : tournee'[t] = IF t = t0 THEN k ELSE tournee[t]
    BY <2>4 DEF CollectesTypes
  <2>10. tournee' \in [Tournees -> LigneTournee]
    BY <2>4, <2>8 DEF CollectesTypes
  <2>11. t0 \notin reduites => i <= k.capacite
    BY <2>0, <2>1, <2>8 DEF InscritsBornes
  <2>12. t0 \notin reduites => k.inscrits <= k.capacite
    BY <2>5, <2>6, <2>8, <2>11 DEF LigneTournee
  <2>13. InscritsBornes'
    BY <2>9, <2>12 DEF InscritsBornes
  <2>14. \A t \in Tournees : tournee[t].inscrits >= tournee[t].inscrits - 0
    BY <1>0
  <2>15. QED
    BY <2>1, <2>6, <2>8, <2>9, <2>10, <2>13, <2>14
<1>3. QED
  BY <1>1, <1>2

\* The rounds keep what they owe when one more place is taken and one more is counted, or none.
LEMMA InscriptionSuivie ==
    ASSUME HypothesesCollectes, InvCollectes, NEW t0, NEW x,
           \A t \in Tournees :
               /\ tournee'[t].inscrits = tournee[t].inscrits + (IF t = t0 THEN 1 ELSE 0)
               /\ EnMarge(t) => EnMarge(t)'
               /\ Places(t)' \subseteq Places(t) \cup (IF t = t0 THEN {x} ELSE {})
               /\ Rendus(t)' \subseteq Rendus(t)
    PROVE  PlacesSuivies'
<1> SUFFICES ASSUME NEW t \in Tournees, ~EnMarge(t)'
             PROVE  Cardinality(Places(t)') + Cardinality(Rendus(t)') <= tournee'[t].inscrits
  BY DEF PlacesSuivies
<1>1. IsFiniteSet(Places(t)) /\ IsFiniteSet(Rendus(t))
  BY PlacesFinies
<1>2. Cardinality(Places(t)) + Cardinality(Rendus(t)) <= tournee[t].inscrits
  BY DEF InvCollectes, PlacesSuivies
<1>3. tournee[t].inscrits \in Nat
  BY DEF InvCollectes, CollectesTypes, LigneTournee
<1>4. Rendus(t)' \subseteq Rendus(t)
  OBVIOUS
<1>5. /\ Cardinality(Rendus(t)) \in Nat /\ Cardinality(Rendus(t)') \in Nat
      /\ Cardinality(Rendus(t)') <= Cardinality(Rendus(t))
  BY <1>1, <1>4, PasDePlus
<1>6. CASE t = t0
  <2>1. Places(t)' \subseteq Places(t) \cup {x} /\ tournee'[t].inscrits = tournee[t].inscrits + 1
    BY <1>6
  <2>2. /\ Cardinality(Places(t)) \in Nat /\ Cardinality(Places(t)') \in Nat
        /\ Cardinality(Places(t)') <= Cardinality(Places(t)) + 1
    BY <1>1, <2>1, UnDePlus
  <2>3. QED
    BY <1>2, <1>3, <1>5, <2>1, <2>2
<1>7. CASE t # t0
  <2>1. Places(t)' \subseteq Places(t) /\ tournee'[t].inscrits = tournee[t].inscrits + 0
    BY <1>7
  <2>2. /\ Cardinality(Places(t)) \in Nat /\ Cardinality(Places(t)') \in Nat
        /\ Cardinality(Places(t)') <= Cardinality(Places(t))
    BY <1>1, <2>1, PasDePlus
  <2>3. QED
    BY <1>2, <1>3, <1>5, <2>1, <2>2
<1>8. QED
  BY <1>6, <1>7

\* A new pick-up, for the parcel c0 or none, on the round t0 or none.
PriseEnCompte(r, e, t0, c0, x) ==
    /\ enlevement[e].statut = Absent
    /\ t0 # Nul => PlaceRestante(t0)
    /\ tournee' = Reserver(t0)
    /\ enlevement' = [enlevement EXCEPT ![e] = Nouvelle(t0, c0)]
    /\ guichet' = [guichet EXCEPT ![r] = Inactif]
    /\ UNCHANGED reduites
    /\ bouscules \subseteq bouscules' /\ bouscules' \subseteq Enlevements
    /\ colis' \in [Colis -> LigneColis]
    /\ \A c \in Colis : \/ colis'[c] = colis[c]
                        \/ c = c0 /\ colis[c].statut = Absent /\ colis'[c].tournee = t0
                           /\ colis'[c].statut = "en_attente"
    /\ c0 # Nul => colis'[c0].statut # Absent
    /\ c0 # Nul /\ e \notin bouscules' => colis'[c0].statut # "annule"
    /\ \A t \in Tournees : Places(t)' \subseteq Places(t) \cup (IF t = t0 THEN {x} ELSE {})

LEMMA PriseTenue ==
    ASSUME HypothesesCollectes, InvCollectes, NEW r \in Guichets, NEW e \in Enlevements,
           NEW t0 \in Tournees \cup {Nul}, NEW c0 \in Colis \cup {Nul}, NEW x,
           PriseEnCompte(r, e, t0, c0, x)
    PROVE  InvCollectes'
<1> USE DEF PriseEnCompte
<1>0. /\ CollectesTypes /\ Connus /\ LecturesFondees /\ InscritsBornes
      /\ EchecsMotives /\ PasDEnlevementSansColis
  BY DEF InvCollectes
<1>1. /\ tournee' \in [Tournees -> LigneTournee] /\ InscritsBornes'
      /\ \A t \in Tournees :
            /\ tournee'[t].statut = tournee[t].statut
            /\ tournee'[t].inscrits = tournee[t].inscrits + (IF t = t0 THEN 1 ELSE 0)
  BY <1>0, ReserverTenu
<1>2. PICK n : n = Nouvelle(t0, c0)
  OBVIOUS
<1>3. n \in LigneEnlevement /\ n.statut = "demande" /\ n.tournee = t0 /\ n.colis = c0
  BY <1>2 DEF LigneEnlevement, Nouvelle
<1>4. \A f \in Enlevements : enlevement'[f] = IF f = e THEN n ELSE enlevement[f]
  BY <1>0, <1>2 DEF CollectesTypes
<1>5. \A o \in Guichets : guichet'[o] = IF o = r THEN Inactif ELSE guichet[o]
  BY <1>0 DEF CollectesTypes
<1>6. CollectesTypes'
  BY <1>0, <1>1, <1>2, <1>3 DEF CollectesTypes
<1>7. e \notin Lus /\ \A o \in Guichets : Tient(guichet[o]) => guichet[o].enlevement # e
  BY <1>0, LuesConnues DEF Connus, RequeteConnue, Tient
<1>8. enlevement[e].tournee = Nul
  <2>1. enlevement[e] = Aucune
    BY <1>0, Zenon DEF Connus
  <2>2. QED
    BY <2>1 DEF Aucune
<1>9. \A c \in Colis : colis[c].statut # Absent => colis'[c] = colis[c]
  OBVIOUS
<1>10. t0 # Nul => tournee[t0].statut # Absent
  BY DEF PlaceRestante, Existe
<1>11. Connus'
  <2>1. \A c \in Colis : colis[c].tournee \in Tournees \cup {Nul}
    BY <1>0 DEF CollectesTypes, LigneColis
  <2>2. \A f \in Enlevements : enlevement[f].tournee \in Tournees \cup {Nul}
                                 /\ enlevement[f].colis \in Colis \cup {Nul}
    BY <1>0 DEF CollectesTypes, LigneEnlevement
  <2>3. \A c \in Colis :
          /\ colis'[c].statut = Absent => colis'[c].tournee = Nul
          /\ colis'[c].tournee # Nul => tournee'[colis'[c].tournee].statut # Absent
    <3> SUFFICES ASSUME NEW c \in Colis
                 PROVE  /\ colis'[c].statut = Absent => colis'[c].tournee = Nul
                        /\ colis'[c].tournee # Nul => tournee'[colis'[c].tournee].statut # Absent
      OBVIOUS
    <3>1. CASE colis'[c] = colis[c]
      BY <1>0, <1>1, <2>1, <3>1 DEF Connus
    <3>2. CASE colis'[c].tournee = t0 /\ colis'[c].statut = "en_attente"
      BY <1>1, <1>10, <3>2 DEF Absent
    <3>3. QED
      BY <3>1, <3>2
  <2>4. \A f \in Enlevements :
          /\ enlevement'[f].statut = Absent => enlevement'[f] = Aucune
          /\ enlevement'[f].tournee # Nul => tournee'[enlevement'[f].tournee].statut # Absent
          /\ enlevement'[f].colis # Nul => colis'[enlevement'[f].colis].statut # Absent
    <3> SUFFICES ASSUME NEW f \in Enlevements
                 PROVE  /\ enlevement'[f].statut = Absent => enlevement'[f] = Aucune
                        /\ enlevement'[f].tournee # Nul =>
                              tournee'[enlevement'[f].tournee].statut # Absent
                        /\ enlevement'[f].colis # Nul => colis'[enlevement'[f].colis].statut # Absent
      OBVIOUS
    <3>1. CASE f = e
      BY <1>1, <1>3, <1>4, <1>10, <3>1 DEF Absent
    <3>2. CASE f # e
      BY <1>0, <1>1, <1>4, <1>9, <2>2, <3>2 DEF Connus
    <3>3. QED
      BY <3>1, <3>2
  <2>5. \A o \in Guichets : RequeteConnue(guichet[o])'
    <3> SUFFICES ASSUME NEW o \in Guichets PROVE RequeteConnue(guichet[o])'
      OBVIOUS
    <3>1. CASE guichet'[o] = Inactif
      BY <3>1, PassagesDisjoints DEF RequeteConnue, Inactif
    <3>2. CASE guichet'[o] = guichet[o] /\ guichet[o] # Inactif
      <4>1. PICK p : p = guichet[o]
        OBVIOUS
      <4>2. p \in Passage /\ RequeteConnue(p)
        BY <1>0, <3>2, <4>1 DEF CollectesTypes, Connus
      <4>3. RequeteConnue(p)'
        <5>1. p.etape = "demander" /\ p.colis # Nul => colis'[p.colis].statut # Absent
          BY <1>9, <4>2, PassagesDisjoints DEF RequeteConnue
        <5>2. p.etape = "supprimer" => tournee'[p.tournee].statut # Absent
          BY <1>1, <4>2, PassagesDisjoints DEF RequeteConnue
        <5>3. p.etape \in {"ecrire", "rendre"} => enlevement'[p.enlevement].statut # Absent
          BY <1>3, <1>4, <4>2, PassagesDisjoints DEF RequeteConnue, Tient, Absent
        <5>4. QED
          BY <5>1, <5>2, <5>3 DEF RequeteConnue
      <4>4. QED
        BY <3>2, <4>1, <4>3
    <3>3. QED
      BY <1>5, <3>1, <3>2
  <2>6. QED
    BY <2>3, <2>4, <2>5 DEF Connus
<1>12. LecturesFondees'
  <2> SUFFICES ASSUME NEW s \in Guichets, Tient(guichet'[s]),
                      guichet'[s].enlevement \notin bouscules'
               PROVE  /\ LectureFondee(guichet[s])'
                      /\ \A o \in Guichets :
                            Tient(guichet'[o]) /\ guichet'[o].enlevement = guichet'[s].enlevement
                               => o = s
    BY DEF LecturesFondees, Tient
  <2>1. guichet'[s] = guichet[s] /\ Tient(guichet[s])
    BY <1>5, PassagesDisjoints
  <2>2. guichet[s].enlevement \in Enlevements /\ guichet[s].enlevement # e
    BY <1>0, <1>7, <2>1, PassagesDisjoints DEF CollectesTypes
  <2>3. LectureFondee(guichet[s])
    BY <1>0, <2>1 DEF LecturesFondees
  <2>4. LectureFondee(guichet[s])'
    BY <1>4, <2>1, <2>2, <2>3 DEF LectureFondee
  <2>5. QED
    BY <1>0, <1>5, <2>1, <2>4, PassagesDisjoints DEF LecturesFondees
<1>13. PlacesSuivies'
  <2>1. \A t \in Tournees : EnMarge(t) => EnMarge(t)'
    BY <1>0, <1>4, <1>8, MargeGardee
  <2>2. \A t \in Tournees : Rendus(t)' \subseteq Rendus(t)
    <3> SUFFICES ASSUME NEW t \in Tournees, NEW o \in Rendus(t)' PROVE o \in Rendus(t)
      OBVIOUS
    <3>1. o \in Guichets /\ guichet'[o].etape = "rendre"
          /\ enlevement'[guichet'[o].enlevement].tournee = t
      BY DEF Rendus
    <3>2. guichet'[o] = guichet[o] /\ Tient(guichet[o])
      BY <1>5, <3>1, PassagesDisjoints DEF Tient
    <3>3. guichet[o].enlevement \in Enlevements /\ guichet[o].enlevement # e
      BY <1>0, <1>7, <3>1, <3>2, PassagesDisjoints DEF CollectesTypes
    <3>4. QED
      BY <1>4, <3>1, <3>2, <3>3 DEF Rendus
  <2>3. \A t \in Tournees :
           /\ tournee'[t].inscrits = tournee[t].inscrits + (IF t = t0 THEN 1 ELSE 0)
           /\ EnMarge(t) => EnMarge(t)'
           /\ Places(t)' \subseteq Places(t) \cup (IF t = t0 THEN {x} ELSE {})
           /\ Rendus(t)' \subseteq Rendus(t)
    BY <1>1, <2>1, <2>2
  <2>4. QED
    BY <2>3, InscriptionSuivie
<1>14. PasDEnlevementSansColis'
  <2> SUFFICES ASSUME NEW f \in Enlevements \ bouscules',
                      enlevement'[f].statut \in {"demande", "planifie"}, enlevement'[f].colis # Nul,
                      colis'[enlevement'[f].colis].statut = "annule"
               PROVE  enlevement'[f].statut = "planifie" /\ enlevement'[f].echec
    BY DEF PasDEnlevementSansColis
  <2>1. CASE f = e
    BY <1>3, <1>4, <2>1
  <2>2. CASE f # e
    <3>1. enlevement'[f] = enlevement[f] /\ enlevement[f].colis \in Colis
      BY <1>0, <1>4, <2>2 DEF CollectesTypes, LigneEnlevement
    <3>2. colis[enlevement[f].colis].statut # Absent
      BY <1>0, <3>1 DEF Connus
    <3>3. QED
      BY <1>0, <1>9, <3>1, <3>2 DEF PasDEnlevementSansColis
  <2>3. QED
    BY <2>1, <2>2
<1>15. EchecsMotives'
  BY <1>0, <1>3, <1>4 DEF EchecsMotives
<1>16. QED
  BY <1>1, <1>6, <1>11, <1>12, <1>13, <1>14, <1>15 DEF InvCollectes

LEMMA DeclarerTenu ==
    ASSUME HypothesesCollectes, InvCollectes, NEW r \in Guichets, NEW e \in Enlevements,
           Declarer(r, e)
    PROVE  InvCollectes'
<1>0. CollectesTypes /\ Connus
  BY DEF InvCollectes
<1>1. PICK q : q = guichet[r]
  OBVIOUS
<1>2. PICK c0, t0 : c0 = q.colis /\ t0 = q.tournee
  OBVIOUS
<1>3. /\ q.etape = "declarer" /\ colis[c0].statut = Absent /\ enlevement[e].statut = Absent
      /\ t0 # Nul => PlaceRestante(t0)
      /\ tournee' = Reserver(t0)
      /\ colis' = [colis EXCEPT ![c0] = [statut |-> "en_attente", tournee |-> t0]]
      /\ enlevement' = [enlevement EXCEPT ![e] = Nouvelle(t0, c0)]
      /\ guichet' = [guichet EXCEPT ![r] = Inactif]
      /\ UNCHANGED <<reduites, bouscules>>
  BY <1>1, <1>2 DEF Declarer, Etape, Suivre
<1>4. c0 \in Colis /\ t0 \in Tournees \cup {Nul}
  BY <1>0, <1>1, <1>2, <1>3, RequeteTypee, PassagesDisjoints
<1>5. PICK n : n = [statut |-> "en_attente", tournee |-> t0]
  OBVIOUS
<1>6. n \in LigneColis /\ n.statut = "en_attente" /\ n.tournee = t0
  BY <1>4, <1>5 DEF LigneColis, StatutsColis
<1>7. /\ colis' \in [Colis -> LigneColis]
      /\ \A c \in Colis : colis'[c] = IF c = c0 THEN n ELSE colis[c]
  BY <1>0, <1>3, <1>5, <1>6 DEF CollectesTypes
<1>8. \A f \in Enlevements : f # e => enlevement'[f] = enlevement[f]
  BY <1>0, <1>3 DEF CollectesTypes
<1>9. enlevement'[e] = [statut |-> "demande", tournee |-> t0, colis |-> c0, echec |-> FALSE]
  BY <1>0, <1>3 DEF CollectesTypes, Nouvelle
<1>10. enlevement'[e].tournee = t0 /\ enlevement'[e].colis = c0 /\ c0 # Nul
  BY <1>4, <1>9 DEF HypothesesCollectes
<1>11. \A f \in Enlevements : enlevement[f].colis # Nul => enlevement[f].colis # c0
  BY <1>0, <1>3 DEF Connus
<1>12. \A f \in Enlevements : enlevement[f].colis \in Colis \cup {Nul}
  BY <1>0 DEF CollectesTypes, LigneEnlevement
<1>13. ASSUME NEW t \in Tournees
       PROVE  Places(t)' \subseteq Places(t) \cup (IF t = t0 THEN {c0} ELSE {})
  <2> SUFFICES ASSUME NEW p \in Places(t)', p \notin Places(t) PROVE p = c0 /\ t = t0
    OBVIOUS
  <2>1. CASE p \in Colis /\ colis'[p].tournee = t /\ colis'[p].statut # "annule"
    <3>1. p # c0 => p \in Places(t)
      BY <1>7, <2>1 DEF Places
    <3>2. QED
      BY <1>6, <1>7, <2>1, <3>1
  <2>2. CASE /\ p \in Enlevements /\ enlevement'[p].tournee = t /\ enlevement'[p].statut # "annule"
             /\ enlevement'[p].colis # Nul => colis'[enlevement'[p].colis].tournee # t
    <3>1. CASE p = e
      BY <1>4, <1>6, <1>7, <1>10, <2>2, <3>1
    <3>2. CASE p # e
      BY <1>7, <1>8, <1>11, <1>12, <2>2, <3>2 DEF Places
    <3>3. QED
      BY <3>1, <3>2
  <2>3. QED
    BY <2>1, <2>2 DEF Places
<1>14. QED
  <2>1. bouscules \subseteq bouscules' /\ bouscules' \subseteq Enlevements
    BY <1>0, <1>3 DEF CollectesTypes
  <2>2. \A c \in Colis : \/ colis'[c] = colis[c]
                         \/ c = c0 /\ colis[c].statut = Absent /\ colis'[c].tournee = t0
                            /\ colis'[c].statut = "en_attente"
    BY <1>3, <1>6, <1>7
  <2>3. colis'[c0].statut # Absent /\ colis'[c0].statut # "annule"
    BY <1>4, <1>6, <1>7 DEF Absent
  <2>4. QED
    <3>1. \A t \in Tournees : Places(t)' \subseteq Places(t) \cup (IF t = t0 THEN {c0} ELSE {})
      BY <1>13
    <3>2. c0 # Nul => colis'[c0].statut # Absent
      BY <2>3
    <3>3. c0 # Nul /\ e \notin bouscules' => colis'[c0].statut # "annule"
      BY <2>3
    <3>4. colis' \in [Colis -> LigneColis]
      BY <1>7
    <3>5. PriseEnCompte(r, e, t0, c0, c0)
      BY <1>3, <2>1, <2>2, <3>1, <3>2, <3>3, <3>4 DEF PriseEnCompte
    <3>6. QED
      BY <1>4, <3>5, PriseTenue

LEMMA CreerDemandeTenue ==
    ASSUME HypothesesCollectes, InvCollectes, NEW r \in Guichets, NEW e \in Enlevements,
           CreerDemande(r, e)
    PROVE  InvCollectes'
<1>0. CollectesTypes /\ Connus
  BY DEF InvCollectes
<1>1. PICK q : q = guichet[r]
  OBVIOUS
<1>2. PICK c0, t0 : c0 = q.colis /\ t0 = q.tournee
  OBVIOUS
<1>3. /\ q.etape = "demander" /\ enlevement[e].statut = Absent
      /\ t0 # Nul => PlaceRestante(t0)
      /\ tournee' = Reserver(t0)
      /\ enlevement' = [enlevement EXCEPT ![e] = Nouvelle(t0, c0)]
      /\ bouscules' = bouscules \cup
            (IF c0 # Nul /\ colis[c0].statut # "en_attente" THEN {e} ELSE {})
      /\ guichet' = [guichet EXCEPT ![r] = Inactif]
      /\ UNCHANGED <<colis, reduites>>
  BY <1>1, <1>2 DEF CreerDemande, Etape, Suivre, Bousculer
<1>4. c0 \in Colis \cup {Nul} /\ t0 \in Tournees \cup {Nul}
  BY <1>0, <1>1, <1>2, <1>3, RequeteTypee, PassagesDisjoints
<1>5. \A f \in Enlevements : f # e => enlevement'[f] = enlevement[f]
  BY <1>0, <1>3 DEF CollectesTypes
<1>6. enlevement'[e] = [statut |-> "demande", tournee |-> t0, colis |-> c0, echec |-> FALSE]
  BY <1>0, <1>3 DEF CollectesTypes, Nouvelle
<1>7. ASSUME NEW t \in Tournees
      PROVE  Places(t)' \subseteq Places(t) \cup (IF t = t0 THEN {e} ELSE {})
  <2> SUFFICES ASSUME NEW p \in Places(t)', p \notin Places(t) PROVE p = e /\ t = t0
    OBVIOUS
  <2>1. p = e
    BY <1>3, <1>5 DEF Places
  <2>2. p \notin Colis
    BY <2>1 DEF HypothesesCollectes
  <2>3. enlevement'[e].tournee = t
    BY <2>1, <2>2 DEF Places
  <2>4. QED
    BY <1>6, <2>1, <2>3
<1>8. bouscules \subseteq bouscules' /\ bouscules' \subseteq Enlevements
  BY <1>0, <1>3 DEF CollectesTypes
<1>9. colis' \in [Colis -> LigneColis] /\ \A c \in Colis : colis'[c] = colis[c]
  BY <1>0, <1>3 DEF CollectesTypes
<1>10. c0 # Nul => colis'[c0].statut # Absent
  BY <1>0, <1>1, <1>2, <1>3 DEF Connus, RequeteConnue
<1>11. c0 # Nul /\ e \notin bouscules' => colis'[c0].statut # "annule"
  BY <1>3
<1>12. QED
  <2>1. \A t \in Tournees : Places(t)' \subseteq Places(t) \cup (IF t = t0 THEN {e} ELSE {})
    BY <1>7
  <2>2. \A c \in Colis : \/ colis'[c] = colis[c]
                         \/ c = c0 /\ colis[c].statut = Absent /\ colis'[c].tournee = t0
                            /\ colis'[c].statut = "en_attente"
    BY <1>9
  <2>3. colis' \in [Colis -> LigneColis] /\ UNCHANGED reduites
    BY <1>3, <1>9
  <2>4. PriseEnCompte(r, e, t0, c0, e)
    BY <1>3, <1>8, <1>10, <1>11, <2>1, <2>2, <2>3 DEF PriseEnCompte
  <2>5. QED
    BY <1>4, <2>4, PriseTenue

\* The transitions of a pick-up, for those who may make them.
LEMMA SuitesPermises ==
    ASSUME NEW par \in {"client", "coursier", "admin"}, NEW s, NEW v \in Suites(par, s)
    PROVE  /\ v \in StatutsEcrits /\ s # "annule" /\ s # Absent
           /\ v = "planifie" => s \in {"demande", "echoue"}
<1>1. CASE par = "client"
  BY <1>1 DEF Suites, StatutsEcrits, Absent
<1>2. CASE par # "client"
  <2>1. v \in TRANSITIONS(s) /\ v \in {"en_cours", "effectue", "echoue", "planifie", "annule"}
    BY <1>2 DEF Suites
  <2>2. QED
    BY <2>1 DEF TRANSITIONS, StatutsEcrits, Absent
<1>3. QED
  BY <1>1, <1>2

LEMMA LectureTenues ==
    ASSUME HypothesesCollectes, InvCollectes, NEW r \in Guichets,
           \/ \E t \in Tournees : LireSuppression(r, t)
           \/ \E c \in Colis, t \in Tournees \cup {Nul} : LireDeclaration(r, c, t)
           \/ \E c \in Colis \cup {Nul}, t \in Tournees \cup {Nul} : LireDemande(r, c, t)
           \/ \E e \in Enlevements, par \in {"client", "coursier", "admin"} :
                 LireEnlevement(r, e, par)
           \/ InterrompreEnlevement(r)
    PROVE  InvCollectes'
<1>0. CollectesTypes /\ Connus
  BY DEF InvCollectes
<1>1. CASE \E t \in Tournees : LireSuppression(r, t)
  <2>1. PICK t \in Tournees : LireSuppression(r, t)
    BY <1>1
  <2>2. PICK q : q = [etape |-> "supprimer", tournee |-> t]
    OBVIOUS
  <2>3. q \in Passage /\ q.etape = "supprimer" /\ q.tournee = t
    BY <2>2 DEF Passage
  <2>4. guichet' = [guichet EXCEPT ![r] = q]
        /\ UNCHANGED <<tournee, enlevement, colis, reduites, bouscules>>
        /\ tournee[t].statut # Absent
    BY <2>1, <2>2 DEF LireSuppression, Debuter, Existe
  <2>5. RequeteConnue(q) /\ ~Tient(q)
    BY <2>3, <2>4 DEF RequeteConnue, Tient
  <2>6. QED
    BY <1>0, <2>3, <2>4, <2>5, GuichetPasse DEF CollectesTypes
<1>2. CASE \E c \in Colis, t \in Tournees \cup {Nul} : LireDeclaration(r, c, t)
  <2>1. PICK c \in Colis, t \in Tournees \cup {Nul} : LireDeclaration(r, c, t)
    BY <1>2
  <2>2. PICK q : q = [etape |-> "declarer", colis |-> c, tournee |-> t]
    OBVIOUS
  <2>3. q \in Passage /\ q.etape = "declarer"
    BY <2>2 DEF Passage
  <2>4. guichet' = [guichet EXCEPT ![r] = q]
        /\ UNCHANGED <<tournee, enlevement, colis, reduites, bouscules>>
    BY <2>1, <2>2 DEF LireDeclaration, Debuter
  <2>5. RequeteConnue(q) /\ ~Tient(q)
    BY <2>3 DEF RequeteConnue, Tient
  <2>6. QED
    BY <1>0, <2>3, <2>4, <2>5, GuichetPasse DEF CollectesTypes
<1>3. CASE \E c \in Colis \cup {Nul}, t \in Tournees \cup {Nul} : LireDemande(r, c, t)
  <2>1. PICK c \in Colis \cup {Nul}, t \in Tournees \cup {Nul} : LireDemande(r, c, t)
    BY <1>3
  <2>2. PICK q : q = [etape |-> "demander", colis |-> c, tournee |-> t]
    OBVIOUS
  <2>3. q \in Passage /\ q.etape = "demander" /\ q.colis = c
    BY <2>2 DEF Passage
  <2>4. guichet' = [guichet EXCEPT ![r] = q]
        /\ UNCHANGED <<tournee, enlevement, colis, reduites, bouscules>>
        /\ (c # Nul => colis[c].statut = "en_attente")
    BY <2>1, <2>2 DEF LireDemande, Debuter
  <2>5. RequeteConnue(q) /\ ~Tient(q)
    BY <2>3, <2>4 DEF RequeteConnue, Tient, Absent
  <2>6. QED
    BY <1>0, <2>3, <2>4, <2>5, GuichetPasse DEF CollectesTypes
<1>4. CASE \E e \in Enlevements, par \in {"client", "coursier", "admin"} :
              LireEnlevement(r, e, par)
  <2>1. PICK e \in Enlevements, par \in {"client", "coursier", "admin"} :
                LireEnlevement(r, e, par)
    BY <1>4
  <2>2. PICK s : s = enlevement[e].statut
    OBVIOUS
  <2>3. PICK v \in Suites(par, s) :
           /\ guichet' = [guichet EXCEPT ![r] =
                 [etape |-> "ecrire", enlevement |-> e, statut |-> v, par |-> par]]
           /\ bouscules' = bouscules \cup ({e} \cap Lus)
    BY <2>1, <2>2 DEF LireEnlevement, Debuter, Bousculer
  <2>4. PICK q : q = [etape |-> "ecrire", enlevement |-> e, statut |-> v, par |-> par]
    OBVIOUS
  <2>5. /\ v \in StatutsEcrits /\ s # "annule" /\ s # Absent
        /\ v = "planifie" => s \in {"demande", "echoue"}
    BY SuitesPermises
  <2>6. q \in Passage /\ q.etape = "ecrire" /\ q.enlevement = e /\ q.statut = v
    BY <2>4, <2>5 DEF Passage
  <2>7. RequeteConnue(q)
    BY <2>2, <2>5, <2>6 DEF RequeteConnue
  <2>8. bouscules \subseteq bouscules' /\ bouscules' \subseteq Enlevements
    BY <1>0, <2>3 DEF CollectesTypes
  <2>9. q.enlevement \notin bouscules' => LectureFondee(q) /\ q.enlevement \notin Lus
    BY <2>2, <2>3, <2>5, <2>6 DEF LectureFondee
  <2>10. guichet' = [guichet EXCEPT ![r] = q] /\ UNCHANGED <<tournee, enlevement, colis, reduites>>
    BY <2>1, <2>3, <2>4 DEF LireEnlevement
  <2>11. QED
    BY <2>6, <2>7, <2>8, <2>9, <2>10, GuichetPasse
<1>5. CASE InterrompreEnlevement(r)
  <2>1. guichet' = [guichet EXCEPT ![r] = Inactif]
        /\ UNCHANGED <<tournee, enlevement, colis, reduites, bouscules>>
    BY <1>5 DEF InterrompreEnlevement, Suivre
  <2>2. QED
    BY <1>0, <2>1, GuichetPasse, PassagesDisjoints DEF CollectesTypes
<1>6. QED
  BY <1>1, <1>2, <1>3, <1>4, <1>5

LEMMA TourneeSupprimee ==
    ASSUME HypothesesCollectes, InvCollectes, NEW r \in Guichets, SupprimerTournee(r)
    PROVE  InvCollectes'
<1>0. CollectesTypes /\ InscritsBornes
  BY DEF InvCollectes
<1>1. PICK t : t = guichet[r].tournee
  OBVIOUS
<1>2. /\ guichet[r].etape = "supprimer" /\ guichet' = [guichet EXCEPT ![r] = Inactif]
      /\ tournee' = [tournee EXCEPT ![t].statut = "supprimee"]
      /\ UNCHANGED <<enlevement, colis, reduites, bouscules>>
  BY <1>1 DEF SupprimerTournee, Etape, Suivre
<1>3. t \in Tournees
  BY <1>0, <1>1, <1>2, RequeteTypee, PassagesDisjoints
<1>4. PICK k : k = [tournee[t] EXCEPT !.statut = "supprimee"]
  OBVIOUS
<1>5. tournee[t] \in LigneTournee
  BY <1>0, <1>3 DEF CollectesTypes
<1>6. k \in LigneTournee /\ k.statut = "supprimee" /\ k.inscrits = tournee[t].inscrits
      /\ k.capacite = tournee[t].capacite
  BY <1>4, <1>5 DEF LigneTournee, StatutsTournee
<1>7. \A u \in Tournees : tournee'[u] = IF u = t THEN k ELSE tournee[u]
  BY <1>0, <1>2, <1>4 DEF CollectesTypes
<1>8. tournee' \in [Tournees -> LigneTournee]
  BY <1>0, <1>2, <1>4, <1>6 DEF CollectesTypes
<1>9. \A u \in Tournees :
         tournee[u].statut # Absent =>
             tournee'[u].statut # Absent /\ tournee'[u].inscrits = tournee[u].inscrits
  BY <1>6, <1>7 DEF Absent
<1>10. InscritsBornes'
  BY <1>0, <1>2, <1>6, <1>7 DEF InscritsBornes
<1>11. guichet' \in [Guichets -> Passage \cup {Inactif}]
       /\ \A o \in Guichets : guichet'[o] \in {guichet[o], Inactif}
  BY <1>0, <1>2 DEF CollectesTypes
<1>12. QED
  BY <1>2, <1>8, <1>9, <1>10, <1>11, TourneesChangees

\* The rounds keep what they owe when one place is given back: what counted on it, x, is gone.
LEMMA RestitutionSuivie ==
    ASSUME HypothesesCollectes, InvCollectes, NEW t0, NEW x,
           \A t \in Tournees :
               /\ tournee'[t].inscrits \in Nat
               /\ tournee'[t].inscrits >= tournee[t].inscrits - (IF t = t0 THEN 1 ELSE 0)
               /\ EnMarge(t) => EnMarge(t)'
               /\ Places(t)' \subseteq Places(t)
               /\ Rendus(t)' \subseteq Rendus(t)
               /\ t = t0 => \/ x \in Places(t) /\ x \notin Places(t)'
                            \/ x \in Rendus(t) /\ x \notin Rendus(t)'
    PROVE  PlacesSuivies'
<1> SUFFICES ASSUME NEW t \in Tournees, ~EnMarge(t)'
             PROVE  Cardinality(Places(t)') + Cardinality(Rendus(t)') <= tournee'[t].inscrits
  BY DEF PlacesSuivies
<1>1. IsFiniteSet(Places(t)) /\ IsFiniteSet(Rendus(t))
  BY PlacesFinies
<1>2. Cardinality(Places(t)) + Cardinality(Rendus(t)) <= tournee[t].inscrits
  BY DEF InvCollectes, PlacesSuivies
<1>3. tournee[t].inscrits \in Nat /\ tournee'[t].inscrits \in Nat
  BY DEF InvCollectes, CollectesTypes, LigneTournee
<1>4. Places(t)' \subseteq Places(t) /\ Rendus(t)' \subseteq Rendus(t)
  OBVIOUS
<1>5. /\ Cardinality(Rendus(t)) \in Nat /\ Cardinality(Rendus(t)') \in Nat
      /\ Cardinality(Rendus(t)') <= Cardinality(Rendus(t))
  BY <1>1, <1>4, PasDePlus
<1>6. /\ Cardinality(Places(t)) \in Nat /\ Cardinality(Places(t)') \in Nat
      /\ Cardinality(Places(t)') <= Cardinality(Places(t))
  BY <1>1, <1>4, PasDePlus
<1>7. CASE t # t0
  <2>1. tournee'[t].inscrits >= tournee[t].inscrits - 0
    BY <1>7
  <2>2. QED
    BY <1>2, <1>3, <1>5, <1>6, <2>1
<1>8. CASE t = t0 /\ x \in Places(t) /\ x \notin Places(t)'
  <2>1. tournee'[t].inscrits >= tournee[t].inscrits - 1
    BY <1>8
  <2>2. Places(t)' \subseteq Places(t) \ {x}
    BY <1>4, <1>8
  <2>3. Cardinality(Places(t)') <= Cardinality(Places(t)) - 1
    BY <1>1, <1>8, <2>2, UnDeMoins
  <2>4. QED
    BY <1>2, <1>3, <1>5, <1>6, <2>1, <2>3
<1>9. CASE t = t0 /\ x \in Rendus(t) /\ x \notin Rendus(t)'
  <2>1. tournee'[t].inscrits >= tournee[t].inscrits - 1
    BY <1>9
  <2>2. Rendus(t)' \subseteq Rendus(t) \ {x}
    BY <1>4, <1>9
  <2>3. Cardinality(Rendus(t)') <= Cardinality(Rendus(t)) - 1
    BY <1>1, <1>9, <2>2, UnDeMoins
  <2>4. QED
    BY <1>2, <1>3, <1>5, <1>6, <2>1, <2>3
<1>10. QED
  BY <1>7, <1>8, <1>9

\* The place is given back, and the request ends.
LEMMA PlaceRendue ==
    ASSUME HypothesesCollectes, InvCollectes, NEW r \in Guichets, RendrePlace(r)
    PROVE  InvCollectes'
<1>0. /\ CollectesTypes /\ Connus /\ LecturesFondees /\ InscritsBornes
      /\ EchecsMotives /\ PasDEnlevementSansColis
  BY DEF InvCollectes
<1>1. PICK e : e = guichet[r].enlevement
  OBVIOUS
<1>2. PICK t0 : t0 = enlevement[e].tournee
  OBVIOUS
<1>3. /\ guichet[r].etape = "rendre" /\ guichet' = [guichet EXCEPT ![r] = Inactif]
      /\ tournee' = Rendre(t0)
      /\ UNCHANGED <<enlevement, colis, reduites, bouscules>>
  BY <1>1, <1>2 DEF RendrePlace, Etape, Suivre
<1>4. e \in Enlevements
  BY <1>0, <1>1, <1>3, RequeteTypee, PassagesDisjoints DEF Tient
<1>5. t0 \in Tournees \cup {Nul}
  BY <1>0, <1>2, <1>4 DEF CollectesTypes, LigneEnlevement
<1>6. /\ tournee' \in [Tournees -> LigneTournee] /\ InscritsBornes'
      /\ \A t \in Tournees :
            /\ tournee'[t].statut = tournee[t].statut
            /\ tournee'[t].inscrits >= tournee[t].inscrits - (IF t = t0 THEN 1 ELSE 0)
  BY <1>0, <1>3, <1>5, RendreTenu
<1>7. \A o \in Guichets : guichet'[o] = IF o = r THEN Inactif ELSE guichet[o]
  BY <1>0, <1>3 DEF CollectesTypes
<1>8. CollectesTypes'
  BY <1>0, <1>3, <1>6 DEF CollectesTypes
<1>9. Connus'
  <2>1. \A c \in Colis : colis[c].tournee \in Tournees \cup {Nul}
    BY <1>0 DEF CollectesTypes, LigneColis
  <2>2. \A f \in Enlevements : enlevement[f].tournee \in Tournees \cup {Nul}
    BY <1>0 DEF CollectesTypes, LigneEnlevement
  <2>3. \A o \in Guichets : RequeteConnue(guichet[o])'
    <3> SUFFICES ASSUME NEW o \in Guichets PROVE RequeteConnue(guichet[o])'
      OBVIOUS
    <3>1. CASE guichet'[o] = Inactif
      BY <3>1, PassagesDisjoints DEF RequeteConnue, Inactif
    <3>2. CASE guichet'[o] = guichet[o] /\ guichet[o] # Inactif
      <4>1. guichet[o] \in Passage /\ RequeteConnue(guichet[o])
        BY <1>0, <3>2 DEF CollectesTypes, Connus
      <4>2. QED
        BY <1>3, <1>6, <3>2, <4>1, PassagesDisjoints DEF RequeteConnue
    <3>3. QED
      BY <1>7, <3>1, <3>2
  <2>4. QED
    BY <1>0, <1>3, <1>6, <2>1, <2>2, <2>3 DEF Connus
<1>10. LecturesFondees'
  <2>1. \A o \in Guichets : Tient(guichet'[o]) => guichet'[o] = guichet[o]
    BY <1>7, PassagesDisjoints
  <2>2. QED
    BY <1>0, <1>3, <2>1 DEF LecturesFondees, LectureFondee, Tient
<1>11. PlacesSuivies'
  <2>1. \A t \in Tournees : tournee'[t].inscrits \in Nat
    BY <1>6 DEF LigneTournee
  <2>2. \A t \in Tournees : EnMarge(t) => EnMarge(t)'
    BY <1>3 DEF EnMarge
  <2>3. \A t \in Tournees : Places(t)' \subseteq Places(t)
    BY <1>3 DEF Places
  <2>4. \A t \in Tournees : Rendus(t)' \subseteq Rendus(t)
    BY <1>3, <1>7, PassagesDisjoints DEF Rendus
  <2>5. \A t \in Tournees : t = t0 => r \in Rendus(t) /\ r \notin Rendus(t)'
    BY <1>1, <1>2, <1>3, <1>7, PassagesDisjoints DEF Rendus
  <2>6. \A t \in Tournees :
           /\ tournee'[t].inscrits \in Nat
           /\ tournee'[t].inscrits >= tournee[t].inscrits - (IF t = t0 THEN 1 ELSE 0)
           /\ EnMarge(t) => EnMarge(t)'
           /\ Places(t)' \subseteq Places(t)
           /\ Rendus(t)' \subseteq Rendus(t)
           /\ t = t0 => \/ r \in Places(t) /\ r \notin Places(t)'
                        \/ r \in Rendus(t) /\ r \notin Rendus(t)'
    BY <1>6, <2>1, <2>2, <2>3, <2>4, <2>5
  <2>7. QED
    BY <2>6, RestitutionSuivie
<1>12. EchecsMotives' /\ PasDEnlevementSansColis'
  BY <1>0, <1>3 DEF EchecsMotives, PasDEnlevementSansColis
<1>13. QED
  BY <1>6, <1>8, <1>9, <1>10, <1>11, <1>12 DEF InvCollectes

\* A cancelled parcel gives its place back, and cancels its pick-ups.
LEMMA ColisAnnule ==
    ASSUME HypothesesCollectes, InvCollectes, NEW c \in Colis, AnnulerColis(c)
    PROVE  InvCollectes'
<1>0. /\ CollectesTypes /\ Connus /\ LecturesFondees /\ InscritsBornes
      /\ EchecsMotives /\ PasDEnlevementSansColis
  BY DEF InvCollectes
<1>1. PICK siens : siens = {e \in Enlevements : enlevement[e].colis = c
                                        /\ enlevement[e].statut \in AnnulesAvecLeColis}
  OBVIOUS
<1>2. PICK l, t0 : l = colis[c] /\ t0 = l.tournee
  OBVIOUS
<1>3. PICK n : n = [l EXCEPT !.statut = "annule"]
  OBVIOUS
<1>4. /\ l.statut \in {"en_attente", "enlevement_planifie"}
      /\ colis' = [colis EXCEPT ![c] = n]
      /\ tournee' = Rendre(t0)
      /\ enlevement' = [e \in Enlevements |->
            IF e \in siens THEN [enlevement[e] EXCEPT !.statut = "annule", !.echec = FALSE]
            ELSE enlevement[e]]
      /\ bouscules' = bouscules \cup (siens \cap Lus)
      /\ UNCHANGED <<guichet, reduites>>
  BY <1>1, <1>2, <1>3 DEF AnnulerColis, Bousculer
<1>5. l \in LigneColis /\ t0 \in Tournees \cup {Nul}
  BY <1>0, <1>2 DEF CollectesTypes, LigneColis
<1>6. n \in LigneColis /\ n.statut = "annule" /\ n.tournee = t0
  BY <1>2, <1>3, <1>5 DEF LigneColis, StatutsColis
<1>7. /\ colis' \in [Colis -> LigneColis]
      /\ \A d \in Colis : colis'[d] = IF d = c THEN n ELSE colis[d]
      /\ \A d \in Colis : colis'[d].tournee = colis[d].tournee
      /\ \A d \in Colis : colis[d].statut # Absent => colis'[d].statut # Absent
      /\ \A d \in Colis : colis'[d].statut # "annule" => colis'[d].statut = colis[d].statut
  BY <1>0, <1>2, <1>4, <1>6 DEF CollectesTypes, Absent
<1>8. \A e \in Enlevements :
         /\ enlevement'[e] \in LigneEnlevement
         /\ e \notin siens => enlevement'[e] = enlevement[e]
         /\ e \in siens => enlevement'[e].statut = "annule"
         /\ enlevement'[e].tournee = enlevement[e].tournee
         /\ enlevement'[e].colis = enlevement[e].colis
  BY <1>0, <1>4 DEF CollectesTypes, LigneEnlevement, StatutsEcrits
<1>9. enlevement' \in [Enlevements -> LigneEnlevement]
  BY <1>4, <1>8
<1>10. /\ tournee' \in [Tournees -> LigneTournee] /\ InscritsBornes'
       /\ \A t \in Tournees :
             /\ tournee'[t].statut = tournee[t].statut
             /\ tournee'[t].inscrits >= tournee[t].inscrits - (IF t = t0 THEN 1 ELSE 0)
  BY <1>0, <1>4, <1>5, RendreTenu
<1>11. bouscules' \subseteq Enlevements /\ bouscules \subseteq bouscules'
  BY <1>0, <1>1, <1>4 DEF CollectesTypes
<1>12. CollectesTypes'
  BY <1>0, <1>4, <1>7, <1>9, <1>10, <1>11 DEF CollectesTypes
<1>13. \A e \in Enlevements :
          /\ enlevement[e].tournee \in Tournees \cup {Nul}
          /\ enlevement[e].colis \in Colis \cup {Nul}
  BY <1>0 DEF CollectesTypes, LigneEnlevement
<1>14. Connus'
  <2>1. \A d \in Colis : colis[d].tournee \in Tournees \cup {Nul}
    BY <1>0 DEF CollectesTypes, LigneColis
  <2>2. \A d \in Colis :
          /\ colis'[d].statut = Absent => colis'[d].tournee = Nul
          /\ colis'[d].tournee # Nul => tournee'[colis'[d].tournee].statut # Absent
    BY <1>0, <1>7, <1>10, <2>1 DEF Connus
  <2>3. \A e \in Enlevements :
          /\ enlevement'[e].statut = Absent => enlevement'[e] = Aucune
          /\ enlevement'[e].tournee # Nul => tournee'[enlevement'[e].tournee].statut # Absent
          /\ enlevement'[e].colis # Nul => colis'[enlevement'[e].colis].statut # Absent
    <3> SUFFICES ASSUME NEW e \in Enlevements
                 PROVE  /\ enlevement'[e].statut = Absent => enlevement'[e] = Aucune
                        /\ enlevement'[e].tournee # Nul =>
                              tournee'[enlevement'[e].tournee].statut # Absent
                        /\ enlevement'[e].colis # Nul => colis'[enlevement'[e].colis].statut # Absent
      OBVIOUS
    <3>1. enlevement'[e].statut = Absent => enlevement'[e] = Aucune
      BY <1>0, <1>8 DEF Connus, Absent
    <3>2. enlevement'[e].tournee # Nul => tournee'[enlevement'[e].tournee].statut # Absent
      BY <1>0, <1>8, <1>10, <1>13 DEF Connus
    <3>3. enlevement'[e].colis # Nul => colis'[enlevement'[e].colis].statut # Absent
      BY <1>0, <1>7, <1>8, <1>13 DEF Connus
    <3>4. QED
      BY <3>1, <3>2, <3>3
  <2>4. \A o \in Guichets : RequeteConnue(guichet[o])'
    <3> SUFFICES ASSUME NEW o \in Guichets PROVE RequeteConnue(guichet[o])'
      OBVIOUS
    <3>1. CASE guichet[o] = Inactif
      BY <1>4, <3>1, PassagesDisjoints DEF RequeteConnue, Inactif
    <3>2. CASE guichet[o] # Inactif
      <4>1. PICK p : p = guichet[o]
        OBVIOUS
      <4>2. p \in Passage /\ RequeteConnue(p) /\ p = guichet'[o]
        BY <1>0, <1>4, <3>2, <4>1 DEF CollectesTypes, Connus
      <4>3. p.etape = "demander" /\ p.colis # Nul => colis'[p.colis].statut # Absent
        BY <1>7, <4>2, PassagesDisjoints DEF RequeteConnue
      <4>4. p.etape = "supprimer" => tournee'[p.tournee].statut # Absent
        BY <1>10, <4>2, PassagesDisjoints DEF RequeteConnue
      <4>5. p.etape \in {"ecrire", "rendre"} => enlevement'[p.enlevement].statut # Absent
        BY <1>8, <4>2, PassagesDisjoints DEF RequeteConnue, Tient, Absent
      <4>6. QED
        BY <4>2, <4>3, <4>4, <4>5 DEF RequeteConnue
    <3>3. QED
      BY <3>1, <3>2
  <2>5. QED
    BY <2>2, <2>3, <2>4 DEF Connus
<1>15. LecturesFondees'
  <2> SUFFICES ASSUME NEW s \in Guichets, Tient(guichet'[s]),
                      guichet'[s].enlevement \notin bouscules'
               PROVE  /\ LectureFondee(guichet[s])'
                      /\ \A o \in Guichets :
                            Tient(guichet'[o]) /\ guichet'[o].enlevement = guichet'[s].enlevement
                               => o = s
    BY DEF LecturesFondees, Tient
  <2>1. guichet'[s] = guichet[s] /\ Tient(guichet[s]) /\ guichet[s].enlevement \notin bouscules
    BY <1>4, <1>11
  <2>2. guichet[s].enlevement \in Enlevements
    BY <1>0, <2>1, PassagesDisjoints DEF CollectesTypes
  <2>3. guichet[s].enlevement \notin siens
    BY <1>4, <2>1, LuesConnues
  <2>4. LectureFondee(guichet[s])
    BY <1>0, <2>1 DEF LecturesFondees
  <2>5. LectureFondee(guichet[s])'
    BY <1>8, <2>1, <2>2, <2>3, <2>4 DEF LectureFondee
  <2>6. \A o \in Guichets :
           Tient(guichet'[o]) /\ guichet'[o].enlevement = guichet'[s].enlevement => o = s
    BY <1>0, <1>4, <2>1 DEF LecturesFondees
  <2>7. QED
    BY <2>5, <2>6
<1>16. PlacesSuivies'
  <2>1. \A t \in Tournees : tournee'[t].inscrits \in Nat
    BY <1>10 DEF LigneTournee
  <2>2. \A t \in Tournees : EnMarge(t) => EnMarge(t)'
    BY <1>0, <1>8, <1>11, MargeGardee
  <2>3. ASSUME NEW t \in Tournees PROVE Places(t)' \subseteq Places(t)
    <3> SUFFICES ASSUME NEW p \in Places(t)' PROVE p \in Places(t)
      OBVIOUS
    <3>1. CASE p \in Colis /\ colis'[p].tournee = t /\ colis'[p].statut # "annule"
      BY <1>7, <3>1 DEF Places
    <3>2. CASE /\ p \in Enlevements /\ enlevement'[p].tournee = t
               /\ enlevement'[p].statut # "annule"
               /\ enlevement'[p].colis # Nul => colis'[enlevement'[p].colis].tournee # t
      <4>1. p \notin siens /\ enlevement'[p] = enlevement[p]
        BY <1>8, <3>2
      <4>2. enlevement[p].colis # Nul => colis[enlevement[p].colis].tournee # t
        BY <1>7, <1>13, <3>2, <4>1
      <4>3. QED
        BY <3>2, <4>1, <4>2 DEF Places
    <3>3. QED
      BY <3>1, <3>2 DEF Places
  <2>4. ASSUME NEW t \in Tournees PROVE Rendus(t)' \subseteq Rendus(t)
    <3> SUFFICES ASSUME NEW o \in Rendus(t)' PROVE o \in Rendus(t)
      OBVIOUS
    <3>1. o \in Guichets /\ guichet[o].etape = "rendre"
          /\ enlevement'[guichet[o].enlevement].tournee = t
      BY <1>4 DEF Rendus
    <3>2. guichet[o].enlevement \in Enlevements
      BY <1>0, <3>1, RequeteTypee, PassagesDisjoints DEF Tient
    <3>3. QED
      BY <1>8, <3>1, <3>2 DEF Rendus
  <2>5. ASSUME NEW t \in Tournees, t = t0 PROVE c \in Places(t) /\ c \notin Places(t)'
    <3>1. c \notin Enlevements
      BY DEF HypothesesCollectes
    <3>2. c \in Places(t)
      BY <1>2, <1>4, <2>5 DEF Places
    <3>3. c \notin Places(t)'
      BY <1>6, <1>7, <3>1 DEF Places
    <3>4. QED
      BY <3>2, <3>3
  <2>6. \A t \in Tournees :
           /\ tournee'[t].inscrits \in Nat
           /\ tournee'[t].inscrits >= tournee[t].inscrits - (IF t = t0 THEN 1 ELSE 0)
           /\ EnMarge(t) => EnMarge(t)'
           /\ Places(t)' \subseteq Places(t)
           /\ Rendus(t)' \subseteq Rendus(t)
           /\ t = t0 => \/ c \in Places(t) /\ c \notin Places(t)'
                        \/ c \in Rendus(t) /\ c \notin Rendus(t)'
    BY <1>10, <2>1, <2>2, <2>3, <2>4, <2>5
  <2>7. QED
    BY <2>6, RestitutionSuivie
<1>17. PasDEnlevementSansColis'
  <2> SUFFICES ASSUME NEW e \in Enlevements \ bouscules',
                      enlevement'[e].statut \in {"demande", "planifie"}, enlevement'[e].colis # Nul,
                      colis'[enlevement'[e].colis].statut = "annule"
               PROVE  enlevement'[e].statut = "planifie" /\ enlevement'[e].echec
    BY DEF PasDEnlevementSansColis
  <2>1. e \notin siens /\ enlevement'[e] = enlevement[e] /\ e \notin bouscules
    BY <1>8, <1>11
  <2>2. enlevement[e].colis # c
    BY <1>1, <2>1 DEF AnnulesAvecLeColis
  <2>3. enlevement[e].colis \in Colis /\ colis[enlevement[e].colis].statut = "annule"
    BY <1>7, <1>13, <2>1, <2>2
  <2>4. QED
    BY <1>0, <2>1, <2>3 DEF PasDEnlevementSansColis
<1>18. EchecsMotives'
  BY <1>0, <1>8 DEF EchecsMotives
<1>19. QED
  BY <1>10, <1>12, <1>14, <1>15, <1>16, <1>17, <1>18 DEF InvCollectes

\* What an event writes on a parcel, if it is accepted.
LEMMA EvenementTenu ==
    ASSUME CollectesTypes, NEW c \in Colis,
           \/ Evenement(c, {"en_attente"}, "enlevement_planifie")
           \/ Evenement(c, {"en_attente", "enlevement_planifie"}, "enleve")
    PROVE  /\ colis' \in [Colis -> LigneColis]
           /\ \A d \in Colis :
                 /\ colis'[d].tournee = colis[d].tournee
                 /\ colis'[d].statut = Absent <=> colis[d].statut = Absent
                 /\ colis'[d].statut = "annule" <=> colis[d].statut = "annule"
<1>1. CASE UNCHANGED colis
  BY <1>1 DEF CollectesTypes
<1>2. ASSUME NEW s \in {"enlevement_planifie", "enleve"},
             colis[c].statut \in {"en_attente", "enlevement_planifie"},
             colis' = [colis EXCEPT ![c].statut = s]
      PROVE  /\ colis' \in [Colis -> LigneColis]
             /\ \A d \in Colis :
                   /\ colis'[d].tournee = colis[d].tournee
                   /\ colis'[d].statut = Absent <=> colis[d].statut = Absent
                   /\ colis'[d].statut = "annule" <=> colis[d].statut = "annule"
  <2>1. PICK n : n = [colis[c] EXCEPT !.statut = s]
    OBVIOUS
  <2>2. c \in Colis /\ colis[c] \in LigneColis /\ colis' = [colis EXCEPT ![c] = n]
    BY <1>2, <2>1 DEF CollectesTypes
  <2>3. n \in LigneColis /\ n.statut = s /\ n.tournee = colis[c].tournee
    BY <2>1, <2>2 DEF LigneColis, StatutsColis
  <2>4. \A d \in Colis : colis'[d] = IF d = c THEN n ELSE colis[d]
    BY <2>2 DEF CollectesTypes
  <2>5. QED
    BY <1>2, <2>2, <2>3, <2>4 DEF CollectesTypes, Absent
<1>3. CASE Evenement(c, {"en_attente"}, "enlevement_planifie")
  BY <1>1, <1>2, <1>3 DEF Evenement
<1>4. CASE Evenement(c, {"en_attente", "enlevement_planifie"}, "enleve")
  BY <1>1, <1>2, <1>4 DEF Evenement
<1>5. QED
  BY <1>1, <1>3, <1>4

\* A pick-up is written as its request read it: a cancellation by its client turns the place it
\* counted on into a place to give back.
LEMMA EnlevementEcrit ==
    ASSUME HypothesesCollectes, InvCollectes, NEW r \in Guichets, EcrireEnlevement(r)
    PROVE  InvCollectes'
<1>0. /\ CollectesTypes /\ Connus /\ LecturesFondees /\ PlacesSuivies /\ InscritsBornes
      /\ EchecsMotives /\ PasDEnlevementSansColis
  BY DEF InvCollectes
<1>1. PICK q : q = guichet[r]
  OBVIOUS
<1>2. PICK e, v : e = q.enlevement /\ v = q.statut
  OBVIOUS
<1>3. q.etape = "ecrire"
  BY <1>1 DEF EcrireEnlevement, Etape
<1>4. q \in Passage /\ e \in Enlevements /\ v \in StatutsEcrits /\ Tient(q) /\ RequeteConnue(q)
  BY <1>0, <1>1, <1>2, <1>3, RequeteTypee, PassagesDisjoints DEF Tient, Connus
<1>5. PICK l, c : l = enlevement[e] /\ c = l.colis
  OBVIOUS
<1>6. l \in LigneEnlevement /\ c \in Colis \cup {Nul} /\ l.tournee \in Tournees \cup {Nul}
      /\ l.statut # Absent
  BY <1>0, <1>2, <1>3, <1>4, <1>5 DEF CollectesTypes, LigneEnlevement, RequeteConnue
<1>7. PICK g : g = IF v = "annule" /\ PlaceARendre(e, q.par)
                     THEN [etape |-> "rendre", enlevement |-> e]
                   ELSE IF v \in {"planifie", "effectue"} /\ c # Nul
                     THEN [etape |-> "annoncer", colis |-> c, statut |-> v]
                   ELSE Inactif
  OBVIOUS
<1>8. PICK b, n : b = Echec(e, v) /\ n = [l EXCEPT !.statut = v, !.echec = b]
  OBVIOUS
<1>9. /\ enlevement' = [enlevement EXCEPT ![e] = n]
      /\ guichet' = [guichet EXCEPT ![r] = g]
      /\ UNCHANGED <<tournee, colis, reduites, bouscules>>
  BY <1>1, <1>2, <1>5, <1>7, <1>8 DEF EcrireEnlevement, Suivre
<1>10. b \in BOOLEAN /\ (v = "echoue" => b) /\ (v = "planifie" /\ l.echec => b)
  BY <1>5, <1>8 DEF Echec
<1>11. colis' \in [Colis -> LigneColis] /\ colis' = colis
  BY <1>0, <1>9 DEF CollectesTypes
<1>12. n \in LigneEnlevement /\ n.statut = v /\ n.tournee = l.tournee /\ n.colis = c /\ n.echec = b
  BY <1>4, <1>5, <1>6, <1>8, <1>10 DEF LigneEnlevement
<1>13. \A f \in Enlevements : enlevement'[f] = IF f = e THEN n ELSE enlevement[f]
  BY <1>0, <1>9 DEF CollectesTypes
<1>14. \A f \in Enlevements :
          /\ enlevement'[f].tournee = enlevement[f].tournee
          /\ enlevement'[f].colis = enlevement[f].colis
          /\ enlevement[f].tournee \in Tournees \cup {Nul}
          /\ enlevement[f].colis \in Colis \cup {Nul}
  BY <1>0, <1>5, <1>12, <1>13 DEF CollectesTypes, LigneEnlevement
<1>15. \A o \in Guichets : guichet'[o] = IF o = r THEN g ELSE guichet[o]
  BY <1>0, <1>9 DEF CollectesTypes
<1>16. g \in Passage \cup {Inactif}
  BY <1>4, <1>6, <1>7 DEF Passage
<1>17. /\ g.etape = "rendre" => v = "annule" /\ l.colis = Nul
       /\ g.etape = "rendre" => g.enlevement = e
       /\ Tient(g) => g.etape = "rendre"
       /\ g = Inactif \/ g.etape \in {"rendre", "annoncer"}
  BY <1>5, <1>7, PassagesDisjoints DEF PlaceARendre, Inactif, Tient
<1>18. CollectesTypes'
  BY <1>0, <1>9, <1>11, <1>12, <1>16 DEF CollectesTypes
<1>19. v # Absent
  BY <1>4 DEF StatutsEcrits, Absent
<1>20. Connus'
  <2>1. \A d \in Colis : colis[d].tournee \in Tournees \cup {Nul}
    BY <1>0 DEF CollectesTypes, LigneColis
  <2>2. \A d \in Colis :
          /\ colis'[d].statut = Absent => colis'[d].tournee = Nul
          /\ colis'[d].tournee # Nul => tournee'[colis'[d].tournee].statut # Absent
    BY <1>0, <1>9, <1>11 DEF Connus
  <2>3. \A f \in Enlevements :
          /\ enlevement'[f].statut = Absent => enlevement'[f] = Aucune
          /\ enlevement'[f].tournee # Nul => tournee'[enlevement'[f].tournee].statut # Absent
          /\ enlevement'[f].colis # Nul => colis'[enlevement'[f].colis].statut # Absent
    <3> SUFFICES ASSUME NEW f \in Enlevements
                 PROVE  /\ enlevement'[f].statut = Absent => enlevement'[f] = Aucune
                        /\ enlevement'[f].tournee # Nul =>
                              tournee'[enlevement'[f].tournee].statut # Absent
                        /\ enlevement'[f].colis # Nul => colis'[enlevement'[f].colis].statut # Absent
      OBVIOUS
    <3>1. enlevement'[f].statut = Absent => enlevement'[f] = Aucune
      BY <1>0, <1>12, <1>13, <1>19 DEF Connus
    <3>2. enlevement'[f].tournee # Nul => tournee'[enlevement'[f].tournee].statut # Absent
      BY <1>0, <1>9, <1>14 DEF Connus
    <3>3. enlevement'[f].colis # Nul => colis'[enlevement'[f].colis].statut # Absent
      BY <1>0, <1>11, <1>14 DEF Connus
    <3>4. QED
      BY <3>1, <3>2, <3>3
  <2>4. \A o \in Guichets : RequeteConnue(guichet[o])'
    <3> SUFFICES ASSUME NEW o \in Guichets PROVE RequeteConnue(guichet[o])'
      OBVIOUS
    <3>1. PICK p : p = guichet'[o]
      OBVIOUS
    <3>2. CASE p = Inactif
      BY <3>1, <3>2, PassagesDisjoints DEF RequeteConnue, Inactif
    <3>3. CASE p = g /\ g.etape \in {"rendre", "annoncer"}
      BY <1>4, <1>12, <1>13, <1>17, <1>19, <3>1, <3>3 DEF RequeteConnue
    <3>4. CASE p = guichet[o] /\ p # Inactif
      <4>1. p \in Passage /\ RequeteConnue(p)
        BY <1>0, <3>4 DEF CollectesTypes, Connus
      <4>2. p.etape = "demander" /\ p.colis # Nul => colis'[p.colis].statut # Absent
        BY <1>11, <4>1, PassagesDisjoints DEF RequeteConnue
      <4>3. p.etape = "supprimer" => tournee'[p.tournee].statut # Absent
        BY <1>9, <4>1 DEF RequeteConnue
      <4>4. p.etape \in {"ecrire", "rendre"} => enlevement'[p.enlevement].statut # Absent
        BY <1>12, <1>13, <1>19, <4>1, PassagesDisjoints DEF RequeteConnue, Tient
      <4>5. QED
        BY <3>1, <4>2, <4>3, <4>4 DEF RequeteConnue
    <3>5. QED
      BY <1>15, <1>17, <3>1, <3>2, <3>3, <3>4
  <2>5. QED
    BY <2>2, <2>3, <2>4 DEF Connus
<1>21. e \notin bouscules =>
          /\ l.statut # "annule"
          /\ v = "planifie" => l.statut \in {"demande", "echoue"}
          /\ \A o \in Guichets : Tient(guichet[o]) /\ guichet[o].enlevement = e => o = r
  BY <1>0, <1>1, <1>2, <1>3, <1>4, <1>5 DEF LecturesFondees, LectureFondee
<1>22. LecturesFondees'
  <2> SUFFICES ASSUME NEW s \in Guichets, Tient(guichet'[s]),
                      guichet'[s].enlevement \notin bouscules
               PROVE  /\ LectureFondee(guichet[s])'
                      /\ \A o \in Guichets :
                            Tient(guichet'[o]) /\ guichet'[o].enlevement = guichet'[s].enlevement
                               => o = s
    BY <1>9 DEF LecturesFondees, Tient
  <2>1. CASE s = r
    <3>1. guichet'[s] = g /\ g.etape = "rendre" /\ g.enlevement = e /\ e \notin bouscules
      BY <1>15, <1>17, <2>1
    <3>2. LectureFondee(guichet[s])'
      BY <3>1 DEF LectureFondee
    <3>3. \A o \in Guichets : Tient(guichet'[o]) /\ guichet'[o].enlevement = e => o = s
      BY <1>15, <1>21, <2>1, <3>1
    <3>4. QED
      BY <3>1, <3>2, <3>3
  <2>2. CASE s # r
    <3>1. guichet'[s] = guichet[s] /\ Tient(guichet[s]) /\ guichet[s].enlevement \in Enlevements
      BY <1>0, <1>15, <2>2, PassagesDisjoints DEF CollectesTypes
    <3>2. guichet[s].enlevement # e
      BY <1>21, <2>2, <3>1
    <3>3. LectureFondee(guichet[s])
      BY <1>0, <3>1 DEF LecturesFondees
    <3>4. LectureFondee(guichet[s])'
      BY <1>13, <3>1, <3>2, <3>3 DEF LectureFondee
    <3>5. \A o \in Guichets :
             Tient(guichet'[o]) /\ guichet'[o].enlevement = guichet'[s].enlevement => o = s
      <4> SUFFICES ASSUME NEW o \in Guichets, Tient(guichet'[o]),
                          guichet'[o].enlevement = guichet'[s].enlevement
                   PROVE  o = s
        OBVIOUS
      <4>1. o # r
        BY <1>15, <1>17, <3>1, <3>2
      <4>2. QED
        BY <1>0, <1>15, <3>1, <4>1 DEF LecturesFondees
    <3>6. QED
      BY <3>4, <3>5
  <2>3. QED
    BY <2>1, <2>2
<1>23. PlacesSuivies'
  <2> SUFFICES ASSUME NEW t \in Tournees, ~EnMarge(t)'
               PROVE  Cardinality(Places(t)') + Cardinality(Rendus(t)') <= tournee'[t].inscrits
    BY DEF PlacesSuivies
  <2>1. ~EnMarge(t)
    BY <1>0, <1>9, <1>14, MargeGardee
  <2>2. IsFiniteSet(Places(t)) /\ IsFiniteSet(Rendus(t))
    BY PlacesFinies
  <2>3. Cardinality(Places(t)) + Cardinality(Rendus(t)) <= tournee[t].inscrits
    BY <1>0, <2>1 DEF PlacesSuivies
  <2>4. tournee[t].inscrits \in Nat /\ tournee'[t].inscrits = tournee[t].inscrits
    BY <1>0, <1>9 DEF CollectesTypes, LigneTournee
  <2>5. l.tournee = t => e \notin bouscules
    BY <1>5, <2>1 DEF EnMarge
  <2>6. ASSUME NEW p \in Places(t)' PROVE p \in Places(t) /\ (p = e => v # "annule" \/ p \in Colis)
    <3>1. CASE p \in Colis /\ colis'[p].tournee = t /\ colis'[p].statut # "annule"
      BY <1>11, <3>1 DEF Places
    <3>2. CASE /\ p \in Enlevements /\ enlevement'[p].tournee = t
               /\ enlevement'[p].statut # "annule"
               /\ enlevement'[p].colis # Nul => colis'[enlevement'[p].colis].tournee # t
      <4>1. enlevement[p].colis # Nul => colis[enlevement[p].colis].tournee # t
        BY <1>11, <1>14, <3>2
      <4>2. enlevement[p].statut # "annule"
        BY <1>5, <1>12, <1>13, <1>21, <2>5, <3>2
      <4>3. p \in Places(t)
        BY <1>14, <3>2, <4>1, <4>2 DEF Places
      <4>4. p = e => v # "annule"
        BY <1>12, <1>13, <3>2
      <4>5. QED
        BY <4>3, <4>4
    <3>3. QED
      BY <3>1, <3>2 DEF Places
  <2>7. ASSUME NEW o \in Rendus(t)'
        PROVE  o \in Rendus(t) \/ (o = r /\ g.etape = "rendre" /\ l.tournee = t)
    <3>1. o \in Guichets /\ guichet'[o].etape = "rendre"
          /\ enlevement'[guichet'[o].enlevement].tournee = t
      BY DEF Rendus
    <3>2. CASE o = r
      BY <1>4, <1>5, <1>14, <1>15, <1>17, <3>1, <3>2
    <3>3. CASE o # r
      <4>1. guichet'[o] = guichet[o] /\ guichet[o].enlevement \in Enlevements
        BY <1>0, <1>15, <3>1, <3>3, RequeteTypee, PassagesDisjoints DEF Tient
      <4>2. QED
        BY <1>14, <3>1, <4>1 DEF Rendus
    <3>4. QED
      BY <3>2, <3>3
  <2>8. CASE ~(g.etape = "rendre" /\ l.tournee = t)
    <3>1. Places(t)' \subseteq Places(t) /\ Rendus(t)' \subseteq Rendus(t)
      BY <2>6, <2>7, <2>8
    <3>2. /\ Cardinality(Places(t)) \in Nat /\ Cardinality(Places(t)') \in Nat
          /\ Cardinality(Places(t)') <= Cardinality(Places(t))
      BY <2>2, <3>1, PasDePlus
    <3>3. /\ Cardinality(Rendus(t)) \in Nat /\ Cardinality(Rendus(t)') \in Nat
          /\ Cardinality(Rendus(t)') <= Cardinality(Rendus(t))
      BY <2>2, <3>1, PasDePlus
    <3>4. QED
      BY <2>3, <2>4, <3>2, <3>3
  <2>9. CASE g.etape = "rendre" /\ l.tournee = t
    <3>1. e \notin Colis
      BY <1>4 DEF HypothesesCollectes
    <3>2. v = "annule" /\ l.colis = Nul /\ l.statut # "annule"
      BY <1>17, <1>21, <2>5, <2>9
    <3>3. e \in Places(t)
      BY <1>4, <1>5, <2>9, <3>2 DEF Places
    <3>4. Places(t)' \subseteq Places(t) \ {e}
      BY <2>6, <3>1, <3>2
    <3>5. Rendus(t)' \subseteq Rendus(t) \cup {r}
      BY <2>7
    <3>6. /\ Cardinality(Places(t)) \in Nat /\ Cardinality(Places(t)') \in Nat
          /\ Cardinality(Places(t)') <= Cardinality(Places(t)) - 1
      BY <2>2, <3>3, <3>4, UnDeMoins
    <3>7. /\ Cardinality(Rendus(t)) \in Nat /\ Cardinality(Rendus(t)') \in Nat
          /\ Cardinality(Rendus(t)') <= Cardinality(Rendus(t)) + 1
      BY <2>2, <3>5, UnDePlus
    <3>8. QED
      BY <2>3, <2>4, <3>6, <3>7
  <2>10. QED
    BY <2>8, <2>9
<1>24. PasDEnlevementSansColis'
  <2> SUFFICES ASSUME NEW f \in Enlevements \ bouscules,
                      enlevement'[f].statut \in {"demande", "planifie"}, enlevement'[f].colis # Nul,
                      colis[enlevement'[f].colis].statut = "annule"
               PROVE  enlevement'[f].statut = "planifie" /\ enlevement'[f].echec
    BY <1>9 DEF PasDEnlevementSansColis
  <2>1. CASE f = e
    <3>1. v = "planifie" /\ l.statut \in {"demande", "echoue"} /\ l.colis # Nul
          /\ colis[l.colis].statut = "annule"
      BY <1>4, <1>5, <1>12, <1>13, <1>21, <2>1 DEF StatutsEcrits
    <3>2. l.statut # "demande"
      BY <1>0, <1>5, <2>1, <3>1 DEF PasDEnlevementSansColis
    <3>3. l.echec
      BY <1>0, <1>4, <1>5, <3>1, <3>2 DEF EchecsMotives
    <3>4. QED
      BY <1>10, <1>12, <1>13, <2>1, <3>1, <3>3
  <2>2. CASE f # e
    BY <1>0, <1>13, <2>2 DEF PasDEnlevementSansColis
  <2>3. QED
    BY <2>1, <2>2
<1>25. InscritsBornes' /\ EchecsMotives'
  BY <1>0, <1>9, <1>10, <1>12, <1>13 DEF InscritsBornes, EchecsMotives
<1>26. QED
  BY <1>18, <1>20, <1>22, <1>23, <1>24, <1>25 DEF InvCollectes

\* The event of a pick-up moves its parcel, and neither cancels one nor brings one back.
LEMMA AnnonceTenue ==
    ASSUME HypothesesCollectes, InvCollectes, NEW r \in Guichets, AnnoncerEnlevement(r)
    PROVE  InvCollectes'
<1>0. /\ CollectesTypes /\ Connus /\ LecturesFondees /\ PlacesSuivies /\ InscritsBornes
      /\ EchecsMotives /\ PasDEnlevementSansColis
  BY DEF InvCollectes
<1>1. PICK q, c : q = guichet[r] /\ c = q.colis
  OBVIOUS
<1>2. /\ q.etape = "annoncer" /\ guichet' = [guichet EXCEPT ![r] = Inactif]
      /\ \/ Evenement(c, {"en_attente"}, "enlevement_planifie")
         \/ Evenement(c, {"en_attente", "enlevement_planifie"}, "enleve")
      /\ UNCHANGED <<tournee, enlevement, reduites, bouscules>>
  BY <1>1 DEF AnnoncerEnlevement, Etape, Suivre
<1>3. c \in Colis
  BY <1>0, <1>1, <1>2, RequeteTypee, PassagesDisjoints
<1>4. /\ colis' \in [Colis -> LigneColis]
      /\ \A d \in Colis :
            /\ colis'[d].tournee = colis[d].tournee
            /\ colis'[d].statut = Absent <=> colis[d].statut = Absent
            /\ colis'[d].statut = "annule" <=> colis[d].statut = "annule"
  BY <1>0, <1>2, <1>3, EvenementTenu
<1>5. \A o \in Guichets : guichet'[o] = IF o = r THEN Inactif ELSE guichet[o]
  BY <1>0, <1>2 DEF CollectesTypes
<1>6. CollectesTypes'
  BY <1>0, <1>2, <1>4 DEF CollectesTypes
<1>7. \A e \in Enlevements : enlevement[e].colis \in Colis \cup {Nul}
  BY <1>0 DEF CollectesTypes, LigneEnlevement
<1>8. Connus'
  <2>1. \A o \in Guichets : RequeteConnue(guichet[o])'
    <3> SUFFICES ASSUME NEW o \in Guichets PROVE RequeteConnue(guichet[o])'
      OBVIOUS
    <3>1. PICK p : p = guichet'[o]
      OBVIOUS
    <3>2. CASE p = Inactif
      BY <3>1, <3>2, PassagesDisjoints DEF RequeteConnue, Inactif
    <3>3. CASE p = guichet[o] /\ p # Inactif
      <4>1. p \in Passage /\ RequeteConnue(p)
        BY <1>0, <3>3 DEF CollectesTypes, Connus
      <4>2. p.etape = "demander" /\ p.colis # Nul => colis'[p.colis].statut # Absent
        BY <1>4, <4>1, PassagesDisjoints DEF RequeteConnue
      <4>3. QED
        BY <1>2, <3>1, <4>1, <4>2 DEF RequeteConnue
    <3>4. QED
      BY <1>5, <3>1, <3>2, <3>3
  <2>2. \A d \in Colis :
          /\ colis'[d].statut = Absent => colis'[d].tournee = Nul
          /\ colis'[d].tournee # Nul => tournee'[colis'[d].tournee].statut # Absent
    BY <1>0, <1>2, <1>4 DEF Connus
  <2>3. \A e \in Enlevements :
          /\ enlevement'[e].statut = Absent => enlevement'[e] = Aucune
          /\ enlevement'[e].tournee # Nul => tournee'[enlevement'[e].tournee].statut # Absent
          /\ enlevement'[e].colis # Nul => colis'[enlevement'[e].colis].statut # Absent
    BY <1>0, <1>2, <1>4, <1>7 DEF Connus
  <2>4. QED
    BY <2>1, <2>2, <2>3 DEF Connus
<1>9. LecturesFondees'
  <2>1. \A o \in Guichets : Tient(guichet'[o]) => guichet'[o] = guichet[o]
    BY <1>5, PassagesDisjoints
  <2>2. QED
    BY <1>0, <1>2, <2>1 DEF LecturesFondees, LectureFondee, Tient
<1>10. PlacesSuivies'
  <2> SUFFICES ASSUME NEW t \in Tournees, ~EnMarge(t)'
               PROVE  Cardinality(Places(t)') + Cardinality(Rendus(t)') <= tournee'[t].inscrits
    BY DEF PlacesSuivies
  <2>1. ~EnMarge(t)
    BY <1>2 DEF EnMarge
  <2>2. Places(t)' = Places(t)
    BY <1>2, <1>4, <1>7 DEF Places
  <2>3. Rendus(t)' \subseteq Rendus(t)
    BY <1>2, <1>5, PassagesDisjoints DEF Rendus
  <2>4. IsFiniteSet(Places(t)) /\ IsFiniteSet(Rendus(t))
    BY PlacesFinies
  <2>5. /\ Cardinality(Places(t)) \in Nat /\ Cardinality(Rendus(t)) \in Nat
        /\ Cardinality(Rendus(t)') \in Nat /\ Cardinality(Rendus(t)') <= Cardinality(Rendus(t))
    BY <2>3, <2>4, PasDePlus
  <2>6. Cardinality(Places(t)) + Cardinality(Rendus(t)) <= tournee[t].inscrits
    BY <1>0, <2>1 DEF PlacesSuivies
  <2>7. tournee'[t].inscrits \in Nat /\ tournee'[t].inscrits = tournee[t].inscrits
    BY <1>0, <1>2 DEF CollectesTypes, LigneTournee
  <2>8. QED
    BY <2>2, <2>5, <2>6, <2>7
<1>11. InscritsBornes' /\ EchecsMotives'
  BY <1>0, <1>2 DEF InscritsBornes, EchecsMotives
<1>12. PasDEnlevementSansColis'
  BY <1>0, <1>2, <1>4, <1>7 DEF PasDEnlevementSansColis
<1>13. QED
  BY <1>6, <1>8, <1>9, <1>10, <1>11, <1>12 DEF InvCollectes

LEMMA CollectesPas ==
    ASSUME HypothesesCollectes, InvCollectes, NextCollectes
    PROVE  InvCollectes'
<1>1. CASE \E t \in Tournees :
              \/ ChangerStatutTournee(t)
              \/ \E n \in 1 .. CapaciteMax : CreerTournee(t, n) \/ ModifierTournee(t, n)
  BY <1>1, TourneeTenue
<1>2. CASE \E c \in Colis : AnnulerColis(c)
  BY <1>2, ColisAnnule
<1>3. ASSUME NEW r \in Guichets,
             \/ \E t \in Tournees : LireSuppression(r, t)
             \/ SupprimerTournee(r) \/ EcrireEnlevement(r) \/ AnnoncerEnlevement(r)
             \/ RendrePlace(r) \/ InterrompreEnlevement(r)
             \/ \E c \in Colis, t \in Tournees \cup {Nul} : LireDeclaration(r, c, t)
             \/ \E c \in Colis \cup {Nul}, t \in Tournees \cup {Nul} : LireDemande(r, c, t)
             \/ \E e \in Enlevements :
                   \/ Declarer(r, e) \/ CreerDemande(r, e)
                   \/ \E par \in {"client", "coursier", "admin"} : LireEnlevement(r, e, par)
      PROVE  InvCollectes'
  <2>1. CASE \/ \E t \in Tournees : LireSuppression(r, t)
             \/ \E c \in Colis, t \in Tournees \cup {Nul} : LireDeclaration(r, c, t)
             \/ \E c \in Colis \cup {Nul}, t \in Tournees \cup {Nul} : LireDemande(r, c, t)
             \/ \E e \in Enlevements, par \in {"client", "coursier", "admin"} :
                   LireEnlevement(r, e, par)
             \/ InterrompreEnlevement(r)
    BY <2>1, LectureTenues
  <2>2. CASE SupprimerTournee(r)
    BY <2>2, TourneeSupprimee
  <2>3. CASE EcrireEnlevement(r)
    BY <2>3, EnlevementEcrit
  <2>4. CASE RendrePlace(r)
    BY <2>4, PlaceRendue
  <2>5. CASE \E e \in Enlevements : Declarer(r, e)
    BY <2>5, DeclarerTenu
  <2>6. CASE \E e \in Enlevements : CreerDemande(r, e)
    BY <2>6, CreerDemandeTenue
  <2>7. CASE AnnoncerEnlevement(r)
    BY <2>7, AnnonceTenue
  <2>8. QED
    BY <1>3, <2>1, <2>2, <2>3, <2>4, <2>5, <2>6, <2>7
<1>4. QED
  BY <1>1, <1>2, <1>3 DEF NextCollectes

\* At the start nothing is asked for.
LEMMA CollectesDebut ==
    ASSUME HypothesesCollectes, InitCollectes
    PROVE  InvCollectes
<1>1. /\ \A t \in Tournees : tournee[t] = [statut |-> Absent, capacite |-> 1, inscrits |-> 0]
      /\ \A e \in Enlevements : enlevement[e] = Aucune
      /\ \A c \in Colis : colis[c] = [statut |-> Absent, tournee |-> Nul]
      /\ \A r \in Guichets : guichet[r] = Inactif
      /\ bouscules = {}
  BY DEF InitCollectes
<1>2. CollectesTypes
  <2>1. Aucune \in LigneEnlevement
    BY DEF Aucune, LigneEnlevement, Absent
  <2>2. /\ [statut |-> Absent, capacite |-> 1, inscrits |-> 0] \in LigneTournee
        /\ [statut |-> Absent, tournee |-> Nul] \in LigneColis
    BY DEF LigneTournee, LigneColis, StatutsTournee, StatutsColis, Absent
  <2>3. QED
    BY <2>1, <2>2 DEF InitCollectes, CollectesTypes
<1>3. Connus
  <2>1. Aucune.tournee = Nul /\ Aucune.colis = Nul
    BY DEF Aucune
  <2>2. /\ \A e \in Enlevements : enlevement[e] = Aucune /\ enlevement[e].tournee = Nul
                                   /\ enlevement[e].colis = Nul
        /\ \A c \in Colis : colis[c].tournee = Nul
    BY <1>1, <2>1
  <2>3. \A r \in Guichets : RequeteConnue(guichet[r])
    BY <1>1, PassagesDisjoints
  <2>4. QED
    BY <2>2, <2>3 DEF Connus
<1>4. LecturesFondees /\ EchecsMotives /\ PasDEnlevementSansColis
  BY <1>1, PassagesDisjoints
  DEF LecturesFondees, EchecsMotives, PasDEnlevementSansColis, Aucune, Absent
<1>5. InscritsBornes
  BY <1>1 DEF InscritsBornes
<1>6. PlacesSuivies
  <2> SUFFICES ASSUME NEW t \in Tournees
               PROVE  Cardinality(Places(t)) + Cardinality(Rendus(t)) <= tournee[t].inscrits
    BY DEF PlacesSuivies
  <2>1. t # Nul
    BY DEF HypothesesCollectes
  <2>2. Places(t) = {}
    BY <1>1, <2>1 DEF Places, Aucune
  <2>3. Rendus(t) = {}
    BY <1>1 DEF Rendus, Inactif
  <2>4. Cardinality(Places(t)) = 0 /\ Cardinality(Rendus(t)) = 0
    BY <2>2, <2>3, FS_EmptySet
  <2>5. QED
    BY <1>1, <2>4
<1>7. QED
  BY <1>2, <1>3, <1>4, <1>5, <1>6 DEF InvCollectes

LEMMA CollectesTiennent ==
    ASSUME HypothesesCollectes, InvCollectes
    PROVE  CollecteTenue
<1>1. PasDEnlevementSansColis
  BY DEF InvCollectes
<1>2. CapaciteTenue
  <2> SUFFICES ASSUME NEW t \in Tournees \ reduites, ~\E e \in bouscules : enlevement[e].tournee = t
               PROVE  Cardinality(Places(t)) <= tournee[t].capacite
    BY DEF CapaciteTenue
  <2>1. Cardinality(Places(t)) + Cardinality(Rendus(t)) <= tournee[t].inscrits
    BY DEF InvCollectes, PlacesSuivies, EnMarge
  <2>2. tournee[t].inscrits <= tournee[t].capacite
    BY DEF InvCollectes, InscritsBornes
  <2>3. Cardinality(Places(t)) \in Nat /\ Cardinality(Rendus(t)) \in Nat
    BY PlacesFinies, FS_CardinalityType
  <2>4. tournee[t].inscrits \in Nat /\ tournee[t].capacite \in Nat
    BY DEF InvCollectes, CollectesTypes, LigneTournee
  <2>5. QED
    BY <2>1, <2>2, <2>3, <2>4
<1>3. QED
  BY <1>1, <1>2 DEF CollecteTenue

\* Whatever the number of requests, of rounds and of parcels, no round is overbooked, and no pick-up
\* of a cancelled parcel is asked for or planned but one that had failed before; rounds whose
\* capacity was reduced and pick-ups two requests wrote together are set aside.
THEOREM CollectesTenues == HypothesesCollectes /\ SpecCollectes => []CollecteTenue
<1> SUFFICES ASSUME HypothesesCollectes PROVE SpecCollectes => []CollecteTenue
  OBVIOUS
<1>1. InitCollectes => InvCollectes
  BY CollectesDebut
<1>2. InvCollectes /\ [NextCollectes]_varsCollectes => InvCollectes'
  <2> SUFFICES ASSUME InvCollectes, [NextCollectes]_varsCollectes PROVE InvCollectes'
    OBVIOUS
  <2>1. CASE NextCollectes
    BY <2>1, CollectesPas
  <2>2. CASE UNCHANGED varsCollectes
    BY <2>2 DEF varsCollectes, InvCollectes, CollectesTypes, Connus, RequeteConnue, LecturesFondees,
                LectureFondee, Tient, PlacesSuivies, EnMarge, Places, Rendus, InscritsBornes,
                EchecsMotives, PasDEnlevementSansColis
  <2>3. QED
    BY <2>1, <2>2
<1>3. InvCollectes => CollecteTenue
  BY CollectesTiennent
<1>4. QED
  BY <1>1, <1>2, <1>3, PTL DEF SpecCollectes
=============================================================================
