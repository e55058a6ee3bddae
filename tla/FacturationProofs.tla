------------------------- MODULE FacturationProofs -------------------------
(***************************************************************************)
(* Proofs about Facturation, for any sets of invoices, payments, credit    *)
(* notes and agents, any price and any VAT rate.                           *)
(*                                                                         *)
(* Three strengthenings of the type invariant carry the proofs:            *)
(*   IInv          a discount in flight does not exceed the price it was   *)
(*                 checked against, or the total that AppliquerRemise      *)
(*                 writes could be negative;                               *)
(*   SInv          the rows that no stale write went over agree with their *)
(*                 status, and a request in flight carries what it checked;*)
(*   ComptesTenus  the amounts of an invoice count the units of its        *)
(*                 payments and credit notes (a sum as a cardinality, which*)
(*                 needs no induction over the table).                     *)
(* A cancellation is for good because nothing is left to give back on a    *)
(* cancelled invoice, and a refund in flight gives something back          *)
(* (RetraitsPositifs).                                                     *)
(***************************************************************************)
EXTENDS Facturation, TLAPS, FiniteSetTheorems

RemiseBornee ==
    \A a \in Caissiers :
        saisie[a].op = "remise" => saisie[a].montant <= saisie[a].lue.base

IInv == TypesFactures /\ RemiseBornee

-----------------------------------------------------------------------------
(* Lemmas about the operators on rows *)

\* The total of a price and a discount that it covers is an amount.
LEMMA TotalEstMontant ==
    ASSUME NEW b \in Nat, NEW r \in Nat, r <= b
    PROVE  MontantTotal(b, r) \in Nat
<1> DEFINE ht == b - r
<1>1. ht \in Nat
  OBVIOUS
<1> HIDE DEF ht
<1>2. ht * TauxTva \in Nat
  BY <1>1, TauxTvaAssumption
<1> DEFINE n == ht * TauxTva + 50
<1>3. n \in Nat
  BY <1>2
<1> HIDE DEF n
<1>4. n \div 100 \in Nat
  BY <1>3
<1>5. Tva(ht) \in Nat
  BY <1>4 DEF Tva, n
<1>6. QED
  BY <1>1, <1>5 DEF MontantTotal, ht

\* What the four operators of the locked transactions do to a row: it remains a
\* row, and what they say of its columns.
LEMMA LigneApres ==
    ASSUME NEW l \in LigneFacture, NEW m \in Nat
    PROVE  /\ ApresAvoir(l, m) \in LigneFacture
           /\ ApresEncaissement(l, m) \in LigneFacture
           /\ ApresRetrait(l, m) \in LigneFacture
           /\ ApresReouverture(l, m) \in LigneFacture
<1> USE DEF LigneFacture, StatutsFacture, Dues
<1>1. ApresAvoir(l, m) \in LigneFacture
  <2>1. l.avoirs + m \in Nat
    OBVIOUS
  <2>2. QED
    BY <2>1 DEF ApresAvoir
<1>2. ApresEncaissement(l, m) \in LigneFacture
  <2>1. l.paye + m \in Nat
    OBVIOUS
  <2>2. QED
    BY <2>1 DEF ApresEncaissement
<1>3. ApresRetrait(l, m) \in LigneFacture
  <2>1. JamaisNegatif(l.paye - m) \in Nat
    BY DEF JamaisNegatif
  <2>2. QED
    BY <2>1 DEF ApresRetrait
<1>4. ApresReouverture(l, m) \in LigneFacture
  <2> DEFINE r == ApresRetrait(l, m)
  <2> HIDE DEF r
  <2>1. r \in LigneFacture
    BY <1>3 DEF r
  <2>2. \A s \in StatutsFacture : [r EXCEPT !.statut = s] \in LigneFacture
    BY <2>1
  <2>3. QED
    BY <2>1, <2>2 DEF ApresReouverture, r
<1>5. QED
  BY <1>1, <1>2, <1>3, <1>4

\* The amount due is a whole number, possibly negative: nothing here overflows.
LEMMA SoldeEntier ==
    ASSUME NEW l \in LigneFacture
    PROVE  SoldeDu(l) \in Int
BY DEF LigneFacture, SoldeDu

-----------------------------------------------------------------------------
(* The inductive invariant *)

LEMMA InitIInv == InitFactures => IInv
<1> SUFFICES ASSUME InitFactures PROVE IInv
  OBVIOUS
<1>1. facture \in [Factures -> LigneFacture]
  <2>1. \A f \in Factures : facture[f] \in LigneFacture
    <3> SUFFICES ASSUME NEW f \in Factures PROVE facture[f] \in LigneFacture
      OBVIOUS
    <3>1. PICK b \in 1 .. MontantMax, r \in 0 .. (MontantMax - 1) :
            facture[f] = [statut |-> "en_attente", base |-> b, remise |-> r,
                          total |-> MontantTotal(b, r), paye |-> 0, avoirs |-> 0]
      BY DEF InitFactures
    <3>2. b \in Nat /\ r \in Nat /\ r <= b
      BY <3>1, MontantMaxAssumption DEF InitFactures
    <3>3. MontantTotal(b, r) \in Nat
      BY <3>2, TotalEstMontant
    <3>4. QED
      BY <3>1, <3>2, <3>3 DEF LigneFacture, StatutsFacture, Dues
  <2>2. QED
    BY <2>1 DEF InitFactures
<1>2. TypesFactures
  BY <1>1 DEF InitFactures, TypesFactures, Saisie
<1>3. RemiseBornee
  BY DEF InitFactures, RemiseBornee, Disponible
<1>4. QED
  BY <1>2, <1>3 DEF IInv

\* What a request in flight holds, from its kind.
LEMMA RequeteTypee ==
    ASSUME TypesFactures, NEW a \in Caissiers
    PROVE  /\ saisie[a].op \in {"encaissement", "avoir"} => saisie[a] \in ReqFacture
           /\ saisie[a].op \in {"remise", "annulation", "pesee"} => saisie[a] \in ReqEcriture
           /\ saisie[a].op = "remboursement" => saisie[a] \in ReqPaiement
BY DEF TypesFactures, Saisie, Disponible, ReqFacture, ReqEcriture, ReqPaiement

\* A request that is put in flight with the right type leaves the rest alone.
LEMMA DeposerTypee ==
    ASSUME IInv, NEW a \in Caissiers, NEW r \in Saisie, Deposer(a, r),
           r.op = "remise" => r.montant <= r.lue.base
    PROVE  IInv'
BY DEF IInv, TypesFactures, RemiseBornee, Deposer

LEMMA LireTypee ==
    ASSUME IInv, NEW a \in Caissiers, Lire(a)
    PROVE  IInv'
<1> USE DEF Saisie, ReqFacture, ReqEcriture, ReqPaiement
<1>a. MontantTotal(MontantMax, 0) \in Nat
  BY TotalEstMontant, MontantMaxAssumption
<1>1. ASSUME NEW f \in Factures, NEW m \in Nat, LireEncaissement(a, f, m)
      PROVE  IInv'
  BY <1>1, DeposerTypee DEF LireEncaissement
<1>2. ASSUME NEW f \in Factures, NEW m \in Nat, LireAvoir(a, f, m)
      PROVE  IInv'
  BY <1>2, DeposerTypee DEF LireAvoir
<1>3. ASSUME NEW f \in Factures, NEW m \in Nat, LireRemise(a, f, m)
      PROVE  IInv'
  BY <1>3, DeposerTypee DEF LireRemise, IInv, TypesFactures
<1>4. ASSUME NEW f \in Factures, NEW m \in Nat, LirePesee(a, f, m)
      PROVE  IInv'
  BY <1>4, DeposerTypee DEF LirePesee, IInv, TypesFactures
<1>5. ASSUME NEW f \in Factures, LireAnnulation(a, f)
      PROVE  IInv'
  BY <1>5, DeposerTypee DEF LireAnnulation, IInv, TypesFactures
<1>6. ASSUME NEW p \in Paiements, NEW m \in Nat, NEW rouvrir \in BOOLEAN,
             LireRemboursement(a, p, m, rouvrir)
      PROVE  IInv'
  BY <1>6, DeposerTypee DEF LireRemboursement
<1>7. QED
  BY <1>1, <1>2, <1>3, <1>4, <1>5, <1>6, <1>a, MontantMaxAssumption DEF Lire

\* A payment row after a refund of at most what remains of it.
LEMMA RendreTypee ==
    ASSUME TypesFactures, NEW p \in Paiements, NEW m \in Nat, Remboursable(p, m), Rendre(p, m)
    PROVE  /\ paiement[p] \in Paiement
           /\ paiement' \in [Paiements -> {Absent} \cup Paiement]
           /\ \A q \in Paiements : q # p => paiement'[q] = paiement[q]
           /\ paiement'[p].montant = paiement[p].montant
           /\ paiement'[p].facture = paiement[p].facture
           /\ paiement'[p].rembourse = paiement[p].rembourse + m
           /\ paiement'[p].statut =
                 IF paiement[p].rembourse + m >= paiement[p].montant
                 THEN "rembourse" ELSE "partiel"
<1>1. paiement[p] \in Paiement
  BY DEF TypesFactures, Remboursable, Absent, StatutsRemboursables
<1>2. paiement[p].rembourse + m \in Nat
  BY <1>1 DEF Paiement
<1> DEFINE n == paiement[p].rembourse + m
           s == IF n >= paiement[p].montant THEN "rembourse" ELSE "partiel"
<1>3. paiement'[p] = [paiement[p] EXCEPT !.rembourse = n, !.statut = s]
  BY <1>1 DEF Rendre, TypesFactures, Paiement
<1>4. s \in StatutsPaiement
  BY DEF StatutsPaiement, StatutsEncaisses, StatutsRemboursables
<1>5. paiement'[p] \in Paiement
  BY <1>1, <1>2, <1>3, <1>4 DEF Paiement
<1>6. \A q \in Paiements : q # p => paiement'[q] = paiement[q]
  BY DEF Rendre, TypesFactures
<1>7. paiement' = [q \in Paiements |-> paiement'[q]]
  BY DEF Rendre, TypesFactures
<1>8. QED
  BY <1>1, <1>3, <1>5, <1>6, <1>7 DEF TypesFactures, Paiement

\* Steps that end a request keep the two conjuncts about requests.
LEMMA LibererTypee ==
    ASSUME IInv, NEW a \in Caissiers, saisie' = [saisie EXCEPT ![a] = Disponible]
    PROVE  saisie' \in [Caissiers -> Saisie] /\ RemiseBornee'
BY DEF IInv, TypesFactures, RemiseBornee, Saisie, Disponible

LEMMA EcrireTypee ==
    ASSUME IInv, NEW a \in Caissiers, NEW ligne \in LigneFacture, Ecrire(a, ligne),
           saisie[a] \in ReqEcriture
    PROVE  IInv'
<1>1. saisie[a].f \in Factures
  BY DEF ReqEcriture
<1>2. facture' \in [Factures -> LigneFacture]
  BY <1>1 DEF Ecrire, IInv, TypesFactures
<1>3. perime' \in [Factures -> BOOLEAN]
  BY <1>1 DEF Ecrire, IInv, TypesFactures
<1>4. saisie' \in [Caissiers -> Saisie] /\ RemiseBornee'
  BY LibererTypee DEF Ecrire
<1>5. QED
  BY <1>2, <1>3, <1>4 DEF Ecrire, IInv, TypesFactures

LEMMA AvoirTypee ==
    ASSUME TypesFactures, NEW v \in Avoirs, NEW f \in Factures, NEW m \in Nat, NEW l \in LigneFacture,
           avoir' = [avoir EXCEPT ![v] = [statut |-> StatutAvoir(l, m),
                                          origine |-> f, montant |-> m]]
    PROVE  avoir' \in [Avoirs -> {Absent} \cup Avoir]
BY DEF TypesFactures, Avoir, StatutAvoir

LEMMA NextIInv == IInv /\ [NextFactures]_varsFactures => IInv'
<1> SUFFICES ASSUME IInv, [NextFactures]_varsFactures PROVE IInv'
  OBVIOUS
<1>t. TypesFactures
  BY DEF IInv
<1>1. ASSUME NEW a \in Caissiers, Lire(a) PROVE IInv'
  BY <1>1, LireTypee
<1>2. ASSUME NEW a \in Caissiers, NEW p \in Paiements, Encaisser(a, p) PROVE IInv'
  <2> DEFINE r == saisie[a]
  <2>1. r.f \in Factures /\ r.montant \in Nat
    BY <1>2, <1>t, RequeteTypee DEF Encaisser, ReqFacture
  <2>2. facture' \in [Factures -> LigneFacture]
    BY <1>2, <1>t, <2>1, LigneApres DEF Encaisser, TypesFactures
  <2>3. paiement' \in [Paiements -> {Absent} \cup Paiement]
    BY <1>2, <1>t, <2>1 DEF Encaisser, TypesFactures, Paiement, StatutsPaiement, StatutsEncaisses,
                            StatutsRemboursables
  <2>4. saisie' \in [Caissiers -> Saisie] /\ RemiseBornee'
    BY <1>2, LibererTypee DEF Encaisser
  <2>5. QED
    BY <1>2, <1>t, <2>2, <2>3, <2>4 DEF Encaisser, IInv, TypesFactures
<1>3. ASSUME NEW a \in Caissiers, NEW v \in Avoirs, RembourserParAvoir(a, v) PROVE IInv'
  <2> DEFINE r == saisie[a]
             f == paiement[r.p].facture
             l == ApresRetrait(facture[f], r.montant)
  <2>1. r.p \in Paiements /\ r.montant \in Nat
    BY <1>3, <1>t, RequeteTypee DEF RembourserParAvoir, ReqPaiement
  <2>2. /\ paiement' \in [Paiements -> {Absent} \cup Paiement]
        /\ f \in Factures
    BY <1>3, <1>t, <2>1, RendreTypee DEF RembourserParAvoir, Paiement
  <2>3. l \in LigneFacture
    BY <1>t, <2>1, <2>2, LigneApres DEF TypesFactures
  <2>4. facture' \in [Factures -> LigneFacture]
    <3>1. ApresAvoir(l, r.montant) \in LigneFacture
      BY <2>1, <2>3, LigneApres
    <3>2. facture' = [facture EXCEPT ![f] = ApresAvoir(l, r.montant)]
      BY <1>3 DEF RembourserParAvoir
    <3>3. QED
      BY <1>t, <2>2, <3>1, <3>2 DEF TypesFactures
  <2>5. avoir' \in [Avoirs -> {Absent} \cup Avoir]
    BY <1>3, <1>t, <2>1, <2>2, <2>3, AvoirTypee DEF RembourserParAvoir
  <2>6. saisie' \in [Caissiers -> Saisie] /\ RemiseBornee'
    BY <1>3, LibererTypee DEF RembourserParAvoir
  <2>7. QED
    BY <1>3, <1>t, <2>2, <2>4, <2>5, <2>6 DEF RembourserParAvoir, IInv, TypesFactures
<1>4. ASSUME NEW a \in Caissiers, RembourserEtRouvrir(a) PROVE IInv'
  <2> DEFINE r == saisie[a]
             f == paiement[r.p].facture
  <2>1. r.p \in Paiements /\ r.montant \in Nat
    BY <1>4, <1>t, RequeteTypee DEF RembourserEtRouvrir, ReqPaiement
  <2>2. /\ paiement' \in [Paiements -> {Absent} \cup Paiement]
        /\ f \in Factures
    BY <1>4, <1>t, <2>1, RendreTypee DEF RembourserEtRouvrir, Paiement
  <2>3. facture' \in [Factures -> LigneFacture]
    <3>1. ApresReouverture(facture[f], r.montant) \in LigneFacture
      BY <1>t, <2>1, <2>2, LigneApres DEF TypesFactures
    <3>2. facture' = [facture EXCEPT ![f] = ApresReouverture(facture[f], r.montant)]
      BY <1>4 DEF RembourserEtRouvrir
    <3>3. QED
      BY <1>t, <2>2, <3>1, <3>2 DEF TypesFactures
  <2>4. saisie' \in [Caissiers -> Saisie] /\ RemiseBornee'
    BY <1>4, LibererTypee DEF RembourserEtRouvrir
  <2>5. QED
    BY <1>4, <1>t, <2>2, <2>3, <2>4 DEF RembourserEtRouvrir, IInv, TypesFactures
<1>5. ASSUME NEW a \in Caissiers, NEW v \in Avoirs, EmettreAvoir(a, v) PROVE IInv'
  <2> DEFINE r == saisie[a]
  <2>1. r.f \in Factures /\ r.montant \in Nat
    BY <1>5, <1>t, RequeteTypee DEF EmettreAvoir, ReqFacture
  <2>2. facture[r.f] \in LigneFacture
    BY <1>t, <2>1 DEF TypesFactures
  <2>3. facture' \in [Factures -> LigneFacture]
    BY <1>5, <1>t, <2>1, <2>2, LigneApres DEF EmettreAvoir, TypesFactures
  <2>4. avoir' \in [Avoirs -> {Absent} \cup Avoir]
    BY <1>5, <1>t, <2>1, <2>2, AvoirTypee DEF EmettreAvoir
  <2>5. saisie' \in [Caissiers -> Saisie] /\ RemiseBornee'
    BY <1>5, LibererTypee DEF EmettreAvoir
  <2>6. QED
    BY <1>5, <1>t, <2>3, <2>4, <2>5 DEF EmettreAvoir, IInv, TypesFactures
<1>6. ASSUME NEW a \in Caissiers, AppliquerRemise(a) PROVE IInv'
  <2> DEFINE r == saisie[a]
  <2>1. r \in ReqEcriture /\ r.montant <= r.lue.base
    BY <1>6, <1>t, RequeteTypee DEF AppliquerRemise, IInv, RemiseBornee
  <2>2. /\ r.f \in Factures /\ r.montant \in Nat
        /\ MontantTotal(r.lue.base, r.montant) \in Nat
    BY <2>1, TotalEstMontant DEF ReqEcriture, LigneFacture
  <2>3. [facture[r.f] EXCEPT !.remise = r.montant,
                             !.total = MontantTotal(r.lue.base, r.montant)] \in LigneFacture
    BY <1>t, <2>2 DEF TypesFactures, LigneFacture
  <2>4. QED
    BY <1>6, <2>1, <2>3, EcrireTypee DEF AppliquerRemise
<1>7. ASSUME NEW a \in Caissiers, AnnulerFacture(a) PROVE IInv'
  <2> DEFINE r == saisie[a]
             s == IF r.lue.statut = "annulee" THEN facture[r.f].statut ELSE "annulee"
  <2>1. r \in ReqEcriture
    BY <1>7, <1>t, RequeteTypee DEF AnnulerFacture
  <2>2. facture[r.f] \in LigneFacture
    BY <1>t, <2>1 DEF TypesFactures, ReqEcriture
  <2>3. s \in StatutsFacture
    BY <2>2 DEF LigneFacture, StatutsFacture
  <2>4. [facture[r.f] EXCEPT !.statut = s] \in LigneFacture
    BY <2>2, <2>3 DEF LigneFacture
  <2>5. QED
    BY <1>7, <2>1, <2>4, EcrireTypee DEF AnnulerFacture
<1>8. ASSUME NEW a \in Caissiers, CorrigerPesee(a) PROVE IInv'
  <2> DEFINE r == saisie[a]
  <2>1. r \in ReqEcriture
    BY <1>8, <1>t, RequeteTypee DEF CorrigerPesee
  <2>2. /\ r.f \in Factures /\ r.montant \in Nat
        /\ MontantTotal(r.montant, 0) \in Nat
    BY <2>1, TotalEstMontant DEF ReqEcriture
  <2>3. [facture[r.f] EXCEPT !.base = r.montant,
                             !.total = MontantTotal(r.montant, 0)] \in LigneFacture
    BY <1>t, <2>2 DEF TypesFactures, LigneFacture
  <2>4. QED
    BY <1>8, <2>1, <2>3, EcrireTypee DEF CorrigerPesee
<1>9. ASSUME NEW a \in Caissiers, RenoncerSaisie(a) PROVE IInv'
  BY <1>9, <1>t, LibererTypee DEF RenoncerSaisie, IInv, TypesFactures
<1>10. ASSUME NEW f \in Factures, AnnulerExpedition(f) PROVE IInv'
  BY <1>10, <1>t DEF AnnulerExpedition, IInv, TypesFactures, RemiseBornee, LigneFacture, StatutsFacture
<1>11. ASSUME NEW p \in Paiements, MarquerEchoue(p) PROVE IInv'
  <2>1. paiement[p] \in Paiement
    BY <1>11, <1>t DEF MarquerEchoue, TypesFactures
  <2>2. [paiement[p] EXCEPT !.statut = "echoue"] \in Paiement
    BY <2>1 DEF Paiement, StatutsPaiement
  <2>3. QED
    BY <1>11, <1>t, <2>2 DEF MarquerEchoue, IInv, TypesFactures, RemiseBornee
<1>12. CASE UNCHANGED varsFactures
  BY <1>12 DEF varsFactures, IInv, TypesFactures, RemiseBornee
<1>13. QED
  BY <1>1, <1>2, <1>3, <1>4, <1>5, <1>6, <1>7, <1>8, <1>9, <1>10, <1>11, <1>12
     DEF NextFactures, CaissierSuivant

-----------------------------------------------------------------------------
(* Theorems *)

LEMMA Invariance == SpecFactures => []IInv
BY InitIInv, NextIInv, PTL DEF SpecFactures

\* Every row and every request keeps the shape the code gives it; in particular no
\* amount of an invoice is ever negative, whatever stale total is written over it.
THEOREM TypeCorrect == SpecFactures => []TypesFactures
<1>1. IInv => TypesFactures
  BY DEF IInv
<1>2. QED
  BY <1>1, Invariance, PTL

-----------------------------------------------------------------------------
(* What a step does to one invoice.  The safety theorems below only look   *)
(* at rows: each step leaves a row alone, applies a locked operation to    *)
(* the row as it is, or writes over it what was computed from a loaded row.*)

EffetVerrouille(l, n) ==
    \/ n = l
    \/ l.paye = 0 /\ n = [l EXCEPT !.statut = "annulee"]
    \/ \E m \in Nat :
          \/ Encaissable(l, m) /\ n = ApresEncaissement(l, m)
          \/ n = ApresAvoir(l, m)
          \/ n = ApresAvoir(ApresRetrait(l, m), m)
          \/ n = ApresReouverture(l, m)

EffetEcriture(r, l, n) ==
    \/ r.op = "remise" /\ n = [l EXCEPT !.remise = r.montant,
                                        !.total = MontantTotal(r.lue.base, r.montant)]
    \/ r.op = "annulation" /\ n = [l EXCEPT !.statut =
                                      IF r.lue.statut = "annulee" THEN @ ELSE "annulee"]
    \/ r.op = "pesee" /\ n = [l EXCEPT !.base = r.montant,
                                       !.total = MontantTotal(r.montant, 0)]

EffetSurLigne(f) ==
    \/ EffetVerrouille(facture[f], facture'[f]) /\ perime'[f] = perime[f]
    \/ \E a \in Caissiers :
          /\ saisie[a] \in ReqEcriture
          /\ EffetEcriture(saisie[a], facture[f], facture'[f])
          /\ perime'[f] = (perime[f] \/ facture[f] # saisie[a].lue)

LEMMA EcrireEffet ==
    ASSUME TypesFactures, NEW f \in Factures, NEW a \in Caissiers, saisie[a] \in ReqEcriture,
           NEW ligne, Ecrire(a, ligne), EffetEcriture(saisie[a], facture[saisie[a].f], ligne)
    PROVE  EffetSurLigne(f)
<1> DEFINE r == saisie[a]
<1>1. r.f \in Factures
  BY DEF ReqEcriture
<1>2. CASE f = r.f
  <2>1. facture'[f] = ligne /\ perime'[f] = (perime[f] \/ facture[f] # r.lue)
    BY <1>1, <1>2 DEF Ecrire, TypesFactures
  <2>2. EffetEcriture(r, facture[f], facture'[f])
    BY <1>2, <2>1
  <2>3. QED
    BY <2>1, <2>2 DEF EffetSurLigne
<1>3. CASE f # r.f
  <2>1. facture'[f] = facture[f] /\ perime'[f] = perime[f]
    BY <1>1, <1>3 DEF Ecrire, TypesFactures
  <2>2. QED
    BY <2>1 DEF EffetSurLigne, EffetVerrouille
<1>4. QED
  BY <1>2, <1>3

LEMMA EffetDesEtapes == IInv /\ [NextFactures]_varsFactures => \A f \in Factures : EffetSurLigne(f)
<1> SUFFICES ASSUME IInv, [NextFactures]_varsFactures, NEW f \in Factures PROVE EffetSurLigne(f)
  OBVIOUS
<1>t. TypesFactures
  BY DEF IInv
<1>0. ASSUME facture'[f] = facture[f], perime'[f] = perime[f] PROVE EffetSurLigne(f)
  BY <1>0 DEF EffetSurLigne, EffetVerrouille
<1>1. ASSUME NEW a \in Caissiers, Lire(a) PROVE EffetSurLigne(f)
  <2>1. UNCHANGED <<facture, perime>>
    BY <1>1 DEF Lire, LireEncaissement, LireAvoir, LireRemise, LirePesee, LireAnnulation,
                LireRemboursement, Deposer
  <2>2. QED
    BY <1>0, <2>1
<1>2. ASSUME NEW a \in Caissiers, NEW p \in Paiements, Encaisser(a, p) PROVE EffetSurLigne(f)
  <2> DEFINE r == saisie[a]
  <2>1. r.f \in Factures /\ r.montant \in Nat
    BY <1>2, <1>t, RequeteTypee DEF Encaisser, ReqFacture
  <2>2. CASE f = r.f
    <3>1. facture'[f] = ApresEncaissement(facture[f], r.montant) /\ perime'[f] = perime[f]
      BY <1>2, <1>t, <2>2 DEF Encaisser, TypesFactures
    <3>2. Encaissable(facture[f], r.montant)
      BY <1>2, <2>2 DEF Encaisser
    <3>3. QED
      BY <2>1, <3>1, <3>2 DEF EffetSurLigne, EffetVerrouille
  <2>3. CASE f # r.f
    BY <1>2, <1>t, <1>0, <2>3 DEF Encaisser, TypesFactures
  <2>4. QED
    BY <2>2, <2>3
<1>3. ASSUME NEW a \in Caissiers, NEW v \in Avoirs, RembourserParAvoir(a, v)
      PROVE  EffetSurLigne(f)
  <2> DEFINE r == saisie[a]
             g == paiement[r.p].facture
  <2>1. r.p \in Paiements /\ r.montant \in Nat
    BY <1>3, <1>t, RequeteTypee DEF RembourserParAvoir, ReqPaiement
  <2>2. facture' = [facture EXCEPT ![g] = ApresAvoir(ApresRetrait(facture[g], r.montant), r.montant)]
    BY <1>3 DEF RembourserParAvoir
  <2>3. perime' = perime
    BY <1>3 DEF RembourserParAvoir
  <2>4. CASE f = g
    <3>1. facture'[f] = ApresAvoir(ApresRetrait(facture[f], r.montant), r.montant)
      BY <1>t, <2>2, <2>4 DEF TypesFactures
    <3>2. QED
      BY <2>1, <2>3, <3>1 DEF EffetSurLigne, EffetVerrouille
  <2>5. CASE f # g
    BY <1>t, <1>0, <2>2, <2>3, <2>5 DEF TypesFactures
  <2>6. QED
    BY <2>4, <2>5
<1>4. ASSUME NEW a \in Caissiers, RembourserEtRouvrir(a) PROVE EffetSurLigne(f)
  <2> DEFINE r == saisie[a]
             g == paiement[r.p].facture
  <2>1. r.p \in Paiements /\ r.montant \in Nat
    BY <1>4, <1>t, RequeteTypee DEF RembourserEtRouvrir, ReqPaiement
  <2>2. facture' = [facture EXCEPT ![g] = ApresReouverture(facture[g], r.montant)]
    BY <1>4 DEF RembourserEtRouvrir
  <2>3. perime' = perime
    BY <1>4 DEF RembourserEtRouvrir
  <2>4. CASE f = g
    <3>1. facture'[f] = ApresReouverture(facture[f], r.montant)
      BY <1>t, <2>2, <2>4 DEF TypesFactures
    <3>2. QED
      BY <2>1, <2>3, <3>1 DEF EffetSurLigne, EffetVerrouille
  <2>5. CASE f # g
    BY <1>t, <1>0, <2>2, <2>3, <2>5 DEF TypesFactures
  <2>6. QED
    BY <2>4, <2>5
<1>5. ASSUME NEW a \in Caissiers, NEW v \in Avoirs, EmettreAvoir(a, v) PROVE EffetSurLigne(f)
  <2> DEFINE r == saisie[a]
  <2>1. r.f \in Factures /\ r.montant \in Nat
    BY <1>5, <1>t, RequeteTypee DEF EmettreAvoir, ReqFacture
  <2>2. facture' = [facture EXCEPT ![r.f] = ApresAvoir(facture[r.f], r.montant)]
    BY <1>5 DEF EmettreAvoir
  <2>3. perime' = perime
    BY <1>5 DEF EmettreAvoir
  <2>4. CASE f = r.f
    <3>1. facture'[f] = ApresAvoir(facture[f], r.montant)
      BY <1>t, <2>2, <2>4 DEF TypesFactures
    <3>2. QED
      BY <2>1, <2>3, <3>1 DEF EffetSurLigne, EffetVerrouille
  <2>5. CASE f # r.f
    BY <1>t, <1>0, <2>2, <2>3, <2>5 DEF TypesFactures
  <2>6. QED
    BY <2>4, <2>5
<1>6. ASSUME NEW a \in Caissiers, AppliquerRemise(a) PROVE EffetSurLigne(f)
  BY <1>6, <1>t, RequeteTypee, EcrireEffet DEF AppliquerRemise, EffetEcriture
<1>7. ASSUME NEW a \in Caissiers, AnnulerFacture(a) PROVE EffetSurLigne(f)
  BY <1>7, <1>t, RequeteTypee, EcrireEffet DEF AnnulerFacture, EffetEcriture
<1>8. ASSUME NEW a \in Caissiers, CorrigerPesee(a) PROVE EffetSurLigne(f)
  BY <1>8, <1>t, RequeteTypee, EcrireEffet DEF CorrigerPesee, EffetEcriture
<1>9. ASSUME NEW a \in Caissiers, RenoncerSaisie(a) PROVE EffetSurLigne(f)
  BY <1>9, <1>0 DEF RenoncerSaisie
<1>10. ASSUME NEW g \in Factures, AnnulerExpedition(g) PROVE EffetSurLigne(f)
  <2>1. CASE f = g
    BY <1>10, <1>t, <2>1 DEF AnnulerExpedition, TypesFactures, EffetSurLigne, EffetVerrouille
  <2>2. CASE f # g
    BY <1>10, <1>t, <1>0, <2>2 DEF AnnulerExpedition, TypesFactures
  <2>3. QED
    BY <2>1, <2>2
<1>11. ASSUME NEW p \in Paiements, MarquerEchoue(p) PROVE EffetSurLigne(f)
  BY <1>11, <1>0 DEF MarquerEchoue
<1>12. CASE UNCHANGED varsFactures
  BY <1>12, <1>0 DEF varsFactures
<1>13. QED
  BY <1>1, <1>2, <1>3, <1>4, <1>5, <1>6, <1>7, <1>8, <1>9, <1>10, <1>11, <1>12
     DEF NextFactures, CaissierSuivant

-----------------------------------------------------------------------------
(* Over-payment *)

\* A payment never takes in more than is due when it is recorded: the balance is
\* checked again under the row lock, whatever the agent had read before.
THEOREM SansSurPaiement == SpecFactures => PasDeSurPaiement
<1>1. IInv /\ [NextFactures]_varsFactures =>
        [\A f \in Factures :
            facture'[f].paye > facture[f].paye => SoldeDu(facture'[f]) >= 0]_varsFactures
  <2> SUFFICES ASSUME IInv, [NextFactures]_varsFactures, NEW f \in Factures,
                      facture'[f].paye > facture[f].paye
               PROVE  SoldeDu(facture'[f]) >= 0
    OBVIOUS
  <2> DEFINE l == facture[f]
             n == facture'[f]
  <2>1. l \in LigneFacture
    BY DEF IInv, TypesFactures
  <2>2. EffetSurLigne(f)
    BY EffetDesEtapes
  <2>3. ASSUME NEW m \in Nat, Encaissable(l, m), n = ApresEncaissement(l, m)
        PROVE  SoldeDu(n) >= 0
    BY <2>1, <2>3 DEF Encaissable, ApresEncaissement, SoldeDu, LigneFacture
  <2>4. ASSUME NEW m \in Nat,
               \/ n = ApresAvoir(l, m)
               \/ n = ApresAvoir(ApresRetrait(l, m), m)
               \/ n = ApresReouverture(l, m)
        PROVE  FALSE
    <3>1. n.paye = l.paye \/ n.paye = JamaisNegatif(l.paye - m)
      BY <2>1, <2>4 DEF ApresAvoir, ApresRetrait, ApresReouverture, LigneFacture
    <3>2. JamaisNegatif(l.paye - m) \in 0 .. l.paye /\ l.paye \in Nat
      BY <2>1 DEF JamaisNegatif, LigneFacture
    <3>3. QED
      BY <3>1, <3>2
  <2>5. ASSUME NEW a \in Caissiers, EffetEcriture(saisie[a], l, n)
        PROVE  FALSE
    <3>1. n.paye = l.paye /\ l.paye \in Nat
      BY <2>1, <2>5 DEF EffetEcriture, LigneFacture
    <3>2. QED
      BY <3>1
  <2>6. CASE n = l \/ n = [l EXCEPT !.statut = "annulee"]
    BY <2>1, <2>6 DEF LigneFacture
  <2>7. QED
    BY <2>2, <2>3, <2>4, <2>5, <2>6 DEF EffetSurLigne, EffetVerrouille
<1>2. QED
  BY <1>1, Invariance, PTL DEF SpecFactures, PasDeSurPaiement

-----------------------------------------------------------------------------
(* Status and balance.  A request in flight was checked against the row it *)
(* loaded; a row over which nothing stale was written keeps its status and *)
(* its balance consistent.                                                 *)

RequetesControlees ==
    \A a \in Caissiers :
        LET r == saisie[a] IN
        /\ r.op = "remise" => r.lue.statut \in Dues
        /\ r.op = "annulation" => r.lue.statut # "payee" /\ r.lue.paye = 0
        /\ r.op = "pesee" => r.lue.statut \notin {"payee", "annulee"}

Saine(l) ==
    /\ l.statut = "payee" => SoldeDu(l) <= 0
    /\ l.statut = "annulee" => l.paye = 0

LignesSaines == \A f \in Factures : ~perime[f] => Saine(facture[f])

SInv == IInv /\ RequetesControlees /\ LignesSaines

\* A locked operation on a consistent row leaves a consistent row.
LEMMA VerrouSain ==
    ASSUME NEW l \in LigneFacture, Saine(l), NEW n, EffetVerrouille(l, n)
    PROVE  Saine(n)
<1>1. CASE n = l
  BY <1>1
<1>2. CASE l.paye = 0 /\ n = [l EXCEPT !.statut = "annulee"]
  BY <1>2 DEF Saine, LigneFacture
<1>3. ASSUME NEW m \in Nat, Encaissable(l, m), n = ApresEncaissement(l, m)
      PROVE  Saine(n)
  BY <1>3 DEF Saine, LigneFacture, ApresEncaissement, SoldeDu
<1>4. ASSUME NEW m \in Nat, n = ApresAvoir(l, m)
      PROVE  Saine(n)
  BY <1>4 DEF Saine, LigneFacture, ApresAvoir, SoldeDu, Dues
<1>5. ASSUME NEW m \in Nat, n = ApresAvoir(ApresRetrait(l, m), m)
      PROVE  Saine(n)
  <2> DEFINE q == ApresRetrait(l, m)
  <2>1. q \in LigneFacture
    BY LigneApres
  <2>2. /\ q.paye = JamaisNegatif(l.paye - m) /\ q.total = l.total
        /\ q.avoirs = l.avoirs /\ q.statut = l.statut
    BY DEF ApresRetrait, LigneFacture
  <2>3. SoldeDu(q) - m <= SoldeDu(l) /\ (l.paye = 0 => q.paye = 0)
    BY <2>2 DEF SoldeDu, JamaisNegatif, LigneFacture
  <2> HIDE DEF q
  <2>4. SoldeDu(n) = SoldeDu(q) - m /\ n.paye = q.paye
    BY <1>5, <2>1 DEF ApresAvoir, SoldeDu, LigneFacture, q
  <2>5. n.statut = IF SoldeDu(q) - m <= 0 /\ q.statut \in Dues THEN "payee" ELSE q.statut
    BY <1>5, <2>1 DEF ApresAvoir, LigneFacture, q
  <2>6. SoldeDu(q) \in Int /\ SoldeDu(l) \in Int
    BY <2>1, SoldeEntier
  <2>7. QED
    BY <2>2, <2>3, <2>4, <2>5, <2>6 DEF Saine, Dues
<1>6. ASSUME NEW m \in Nat, n = ApresReouverture(l, m)
      PROVE  Saine(n)
  <2> DEFINE q == ApresRetrait(l, m)
             s == IF SoldeDu(q) <= 0 THEN "payee"
                  ELSE IF q.paye + q.avoirs > 0 THEN "partiellement_payee"
                  ELSE "en_attente"
  <2>1. q \in LigneFacture
    BY LigneApres
  <2>2. n = [q EXCEPT !.statut = s]
    BY <1>6 DEF ApresReouverture
  <2> HIDE DEF q
  <2>3. n.statut = s /\ SoldeDu(n) = SoldeDu(q)
    BY <2>1, <2>2 DEF SoldeDu, LigneFacture
  <2>4. QED
    BY <2>3 DEF Saine
<1>7. QED
  BY <1>1, <1>2, <1>3, <1>4, <1>5, <1>6 DEF EffetVerrouille

\* So does an unlocked write over the very row that was loaded and checked.
LEMMA EcritureSaine ==
    ASSUME RequetesControlees, NEW a \in Caissiers, saisie[a] \in ReqEcriture,
           NEW l \in LigneFacture, l = saisie[a].lue, Saine(l), NEW n,
           EffetEcriture(saisie[a], l, n)
    PROVE  Saine(n)
<1> DEFINE r == saisie[a]
<1>1. CASE r.op = "remise"
  <2>1. n.statut = l.statut /\ l.statut \in Dues
    BY <1>1 DEF EffetEcriture, RequetesControlees, LigneFacture
  <2>2. QED
    BY <2>1 DEF Saine, Dues
<1>2. CASE r.op = "annulation"
  <2>1. n.statut = "annulee" /\ n.paye = l.paye /\ l.paye = 0
    BY <1>2 DEF EffetEcriture, RequetesControlees, LigneFacture
  <2>2. QED
    BY <2>1 DEF Saine
<1>3. CASE r.op = "pesee"
  <2>1. n.statut = l.statut /\ l.statut \notin {"payee", "annulee"}
    BY <1>3 DEF EffetEcriture, RequetesControlees, LigneFacture
  <2>2. QED
    BY <2>1 DEF Saine
<1>4. QED
  BY <1>1, <1>2, <1>3 DEF EffetEcriture

LEMMA NextControlees == IInv /\ RequetesControlees /\ [NextFactures]_varsFactures => RequetesControlees'
<1> SUFFICES ASSUME IInv, RequetesControlees, [NextFactures]_varsFactures PROVE RequetesControlees'
  OBVIOUS
<1>1. ASSUME NEW a \in Caissiers, saisie' = [saisie EXCEPT ![a] = Disponible]
      PROVE  RequetesControlees'
  BY <1>1 DEF RequetesControlees, IInv, TypesFactures, Disponible
<1>2. ASSUME NEW a \in Caissiers, NEW r, Deposer(a, r),
             /\ r.op = "remise" => r.lue.statut \in Dues
             /\ r.op = "annulation" => r.lue.statut # "payee" /\ r.lue.paye = 0
             /\ r.op = "pesee" => r.lue.statut \notin {"payee", "annulee"}
      PROVE  RequetesControlees'
  BY <1>2 DEF RequetesControlees, IInv, TypesFactures, Deposer
<1>3. ASSUME NEW a \in Caissiers, Lire(a) PROVE RequetesControlees'
  <2>1. ASSUME NEW f, NEW m,
               LireEncaissement(a, f, m) \/ LireAvoir(a, f, m)
        PROVE  RequetesControlees'
    BY <2>1, <1>2 DEF LireEncaissement, LireAvoir
  <2>2. ASSUME NEW f, NEW m, LireRemise(a, f, m) \/ LirePesee(a, f, m)
        PROVE  RequetesControlees'
    BY <2>2, <1>2 DEF LireRemise, LirePesee
  <2>3. ASSUME NEW f, LireAnnulation(a, f) PROVE RequetesControlees'
    BY <2>3, <1>2 DEF LireAnnulation
  <2>4. ASSUME NEW p, NEW m, NEW rouvrir, LireRemboursement(a, p, m, rouvrir)
        PROVE  RequetesControlees'
    BY <2>4, <1>2 DEF LireRemboursement
  <2>5. QED
    BY <1>3, <2>1, <2>2, <2>3, <2>4 DEF Lire
<1>4. ASSUME UNCHANGED saisie PROVE RequetesControlees'
  BY <1>4 DEF RequetesControlees
<1>5. ASSUME NEW a \in Caissiers, CaissierSuivant(a) PROVE RequetesControlees'
  BY <1>1, <1>3, <1>5 DEF CaissierSuivant, Encaisser, RembourserParAvoir, EmettreAvoir,
     RembourserEtRouvrir, AppliquerRemise, AnnulerFacture, CorrigerPesee, Ecrire, RenoncerSaisie
<1>6. QED
  BY <1>4, <1>5 DEF NextFactures, AnnulerExpedition, MarquerEchoue, varsFactures

LEMMA InitSInv == InitFactures => SInv
<1> SUFFICES ASSUME InitFactures PROVE RequetesControlees /\ LignesSaines
  BY InitIInv DEF SInv
<1>1. \A f \in Factures : facture[f].statut = "en_attente"
  BY DEF InitFactures
<1>2. QED
  BY <1>1 DEF InitFactures, RequetesControlees, LignesSaines, Saine, Disponible

LEMMA NextSInv == SInv /\ [NextFactures]_varsFactures => SInv'
<1> SUFFICES ASSUME SInv, [NextFactures]_varsFactures, NEW f \in Factures, ~perime'[f]
             PROVE  Saine(facture'[f])
  BY NextIInv, NextControlees DEF SInv, LignesSaines, Saine, SoldeDu
<1>1. facture[f] \in LigneFacture
  BY DEF SInv, IInv, TypesFactures
<1>2. EffetSurLigne(f)
  BY EffetDesEtapes DEF SInv
<1>3. CASE EffetVerrouille(facture[f], facture'[f]) /\ perime'[f] = perime[f]
  BY <1>1, <1>3, VerrouSain DEF SInv, LignesSaines
<1>4. ASSUME NEW a \in Caissiers, saisie[a] \in ReqEcriture,
             EffetEcriture(saisie[a], facture[f], facture'[f]),
             perime'[f] = (perime[f] \/ facture[f] # saisie[a].lue)
      PROVE  Saine(facture'[f])
  BY <1>1, <1>4, EcritureSaine DEF SInv, LignesSaines
<1>5. QED
  BY <1>2, <1>3, <1>4 DEF EffetSurLigne

LEMMA InvarianceSaine == SpecFactures => []SInv
BY InitSInv, NextSInv, PTL DEF SpecFactures

\* An invoice marked as paid leaves nothing due, as long as no discount, weighing or
\* cancellation computed from a stale row was written over it.
THEOREM PayeeEstSoldee == SpecFactures => []PayeeSansSolde
<1>1. SInv => PayeeSansSolde
  BY DEF SInv, LignesSaines, Saine, PayeeSansSolde
<1>2. QED
  BY <1>1, InvarianceSaine, PTL

\* With the same proviso, a cancelled invoice holds no payment.
THEOREM AnnuleeEstVide == SpecFactures => []AnnuleeSansReglement
<1>1. SInv => AnnuleeSansReglement
  BY DEF SInv, LignesSaines, Saine, AnnuleeSansReglement
<1>2. QED
  BY <1>1, InvarianceSaine, PTL

-----------------------------------------------------------------------------
(* Refunds *)

BienRembourse(p) ==
    /\ p.rembourse <= p.montant
    /\ p.statut = "rembourse" => p.rembourse = p.montant
    /\ p.statut = "succes" => p.rembourse = 0

LEMMA RendreBorne ==
    ASSUME TypesFactures, RemboursementBorne, NEW p \in Paiements, NEW m \in Nat,
           Remboursable(p, m), Rendre(p, m)
    PROVE  RemboursementBorne'
<1>1. /\ paiement[p] \in Paiement /\ paiement'[p] \in {Absent} \cup Paiement
      /\ \A q \in Paiements : q # p => paiement'[q] = paiement[q]
      /\ paiement'[p].montant = paiement[p].montant
      /\ paiement'[p].rembourse = paiement[p].rembourse + m
      /\ paiement'[p].statut = IF paiement[p].rembourse + m >= paiement[p].montant
                               THEN "rembourse" ELSE "partiel"
  BY RendreTypee
<1>2. paiement[p].rembourse + m <= paiement[p].montant
  BY <1>1 DEF Remboursable, Paiement
<1>3. BienRembourse(paiement'[p])
  BY <1>1, <1>2 DEF BienRembourse, Paiement
<1>4. ASSUME NEW q \in Paiements, paiement'[q] # Absent PROVE BienRembourse(paiement'[q])
  BY <1>1, <1>3, <1>4 DEF RemboursementBorne, BienRembourse
<1>5. QED
  BY <1>4 DEF RemboursementBorne, BienRembourse

LEMMA NextRembourse == IInv /\ RemboursementBorne /\ [NextFactures]_varsFactures => RemboursementBorne'
<1> SUFFICES ASSUME IInv, RemboursementBorne, [NextFactures]_varsFactures PROVE RemboursementBorne'
  OBVIOUS
<1>t. TypesFactures
  BY DEF IInv
<1>0. ASSUME UNCHANGED paiement PROVE RemboursementBorne'
  BY <1>0 DEF RemboursementBorne
<1>1. ASSUME NEW a \in Caissiers, NEW p \in Paiements, Encaisser(a, p)
      PROVE  RemboursementBorne'
  <2>1. saisie[a].montant \in Nat
    BY <1>1, <1>t, RequeteTypee DEF Encaisser, ReqFacture
  <2>2. QED
    BY <1>1, <1>t, <2>1 DEF Encaisser, RemboursementBorne, TypesFactures
<1>2. ASSUME NEW a \in Caissiers, NEW v \in Avoirs, RembourserParAvoir(a, v)
      PROVE  RemboursementBorne'
  BY <1>2, <1>t, RequeteTypee, RendreBorne DEF RembourserParAvoir, ReqPaiement
<1>3. ASSUME NEW a \in Caissiers, RembourserEtRouvrir(a) PROVE RemboursementBorne'
  BY <1>3, <1>t, RequeteTypee, RendreBorne DEF RembourserEtRouvrir, ReqPaiement
<1>4. ASSUME NEW p \in Paiements, MarquerEchoue(p) PROVE RemboursementBorne'
  <2>1. paiement[p] \in Paiement
    BY <1>4, <1>t DEF MarquerEchoue, TypesFactures
  <2>2. QED
    BY <1>4, <1>t, <2>1 DEF MarquerEchoue, RemboursementBorne, TypesFactures, Paiement
<1>5. ASSUME NEW a \in Caissiers, Lire(a) PROVE RemboursementBorne'
  BY <1>5, <1>0 DEF Lire, LireEncaissement, LireAvoir, LireRemise, LirePesee,
     LireAnnulation, LireRemboursement, Deposer
<1>6. ASSUME NEW a \in Caissiers,
             \/ \E v \in Avoirs : EmettreAvoir(a, v)
             \/ AppliquerRemise(a) \/ AnnulerFacture(a) \/ CorrigerPesee(a) \/ RenoncerSaisie(a)
      PROVE  RemboursementBorne'
  BY <1>6, <1>0 DEF EmettreAvoir, AppliquerRemise, AnnulerFacture, CorrigerPesee, Ecrire,
     RenoncerSaisie
<1>7. QED
  BY <1>0, <1>1, <1>2, <1>3, <1>4, <1>5, <1>6 DEF NextFactures, CaissierSuivant, AnnulerExpedition, varsFactures

\* Two simultaneous refunds never give back more than the payment brought in.
THEOREM RemboursementsBornes == SpecFactures => []RemboursementBorne
<1>1. InitFactures => RemboursementBorne
  BY DEF InitFactures, RemboursementBorne
<1>2. QED
  BY <1>1, NextRembourse, Invariance, PTL DEF SpecFactures

-----------------------------------------------------------------------------
(* Cumulated amounts.  A row with an amount is a column of units; the sum  *)
(* of the rows is the number of units of their columns.                    *)

Colonne(x, n) == {x} \X (1 .. n)

LEMMA ColonneFinie ==
    ASSUME NEW x, NEW n \in Nat
    PROVE  IsFiniteSet(Colonne(x, n)) /\ Cardinality(Colonne(x, n)) = n
<1> DEFINE S == {x}
           T == 1 .. n
<1>1. IsFiniteSet(S) /\ Cardinality(S) = 1
  BY FS_Singleton
<1>2. IsFiniteSet(T) /\ Cardinality(T) = n
  BY FS_Interval
<1> HIDE DEF S, T
<1>3. IsFiniteSet(S \X T) /\ Cardinality(S \X T) = 1 * n
  BY <1>1, <1>2, FS_Product
<1>4. QED
  BY <1>3 DEF S, T, Colonne

\* A part of a set replaced by another, apart from the rest.
Partage(U, V, A) == U = V \cup A /\ V \cap A = {}

LEMMA Remplacer ==
    ASSUME NEW V, NEW A, NEW B, NEW U, NEW W, IsFiniteSet(U), IsFiniteSet(B),
           Partage(U, V, A), Partage(W, V, B)
    PROVE  /\ IsFiniteSet(W) /\ Cardinality(A) <= Cardinality(U)
           /\ Cardinality(W) = (Cardinality(U) - Cardinality(A)) + Cardinality(B)
<1>1. IsFiniteSet(V) /\ IsFiniteSet(A)
  BY FS_Subset, V \subseteq U, A \subseteq U DEF Partage
<1>2. /\ Cardinality(V) \in Nat /\ Cardinality(A) \in Nat /\ Cardinality(B) \in Nat
      /\ Cardinality({}) = 0
  BY <1>1, FS_CardinalityType, FS_EmptySet
<1>3. Cardinality(V \cup A) = Cardinality(V) + Cardinality(A) - Cardinality(V \cap A)
  BY <1>1, FS_Union
<1>4. /\ IsFiniteSet(V \cup B)
      /\ Cardinality(V \cup B) = Cardinality(V) + Cardinality(B) - Cardinality(V \cap B)
  BY <1>1, FS_Union
<1>5. Cardinality(V \cap A) = 0 /\ Cardinality(V \cap B) = 0
  BY <1>2 DEF Partage
<1>6. U = V \cup A /\ W = V \cup B
  BY DEF Partage
<1>7. QED
  BY <1>2, <1>3, <1>4, <1>5, <1>6

\* The units of a family of rows, given by the height of each.
Unites(hauteur) == UNION {Colonne(x, hauteur[x]) : x \in DOMAIN hauteur}

HauteurChangee(S, h, g, x, m) ==
    h \in [S -> Nat] /\ x \in S /\ m \in Nat /\ g = [h EXCEPT ![x] = m]

LEMMA ChangerHauteur ==
    ASSUME NEW S, NEW h, NEW g, NEW x, NEW m, HauteurChangee(S, h, g, x, m),
           IsFiniteSet(Unites(h))
    PROVE  /\ IsFiniteSet(Unites(g)) /\ h[x] <= Cardinality(Unites(h))
           /\ Cardinality(Unites(g)) = (Cardinality(Unites(h)) - h[x]) + m
<1> USE DEF HauteurChangee
<1> DEFINE V == UNION {Colonne(y, h[y]) : y \in S \ {x}}
<1>1. \A u : u \in V <=> \E y \in S \ {x} : u \in Colonne(y, h[y])
  OBVIOUS
<1>2. \A u : u \in Unites(h) <=> \E y \in S : u \in Colonne(y, h[y])
  BY DEF Unites
<1>3. \A u : u \in Unites(g) <=> \E y \in S : u \in Colonne(y, g[y])
  BY DEF Unites
<1>4. \A i : <<x, i>> \notin V
  BY <1>1 DEF Colonne
<1> HIDE DEF V
<1>5. g[x] = m /\ \A y \in S \ {x} : g[y] = h[y]
  OBVIOUS
<1>6. Unites(h) = V \cup Colonne(x, h[x])
  BY <1>1, <1>2
<1>7. Unites(g) = V \cup Colonne(x, m)
  BY <1>1, <1>3, <1>5
<1>8. h[x] \in Nat
  OBVIOUS
<1> DEFINE A == Colonne(x, h[x])
           B == Colonne(x, m)
<1>9. IsFiniteSet(A) /\ Cardinality(A) = h[x] /\ IsFiniteSet(B) /\ Cardinality(B) = m
  <2> DEFINE n == h[x]
  <2>1. n \in Nat
    BY <1>8
  <2>2. m \in Nat
    OBVIOUS
  <2> HIDE DEF n, HauteurChangee
  <2>3. IsFiniteSet(Colonne(x, n)) /\ Cardinality(Colonne(x, n)) = n
    BY <2>1, ColonneFinie
  <2>4. IsFiniteSet(B) /\ Cardinality(B) = m
    BY <2>2, ColonneFinie
  <2>5. QED
    BY <2>3, <2>4 DEF n
<1>10. Partage(Unites(h), V, A) /\ Partage(Unites(g), V, B)
  <2>1. \A k : \A u \in Colonne(x, k) : \E i : u = <<x, i>>
    BY DEF Colonne
  <2>2. \A k : V \cap Colonne(x, k) = {}
    BY <1>4, <2>1
  <2>3. QED
    BY <1>6, <1>7, <2>2 DEF Partage
<1> HIDE DEF A, B
<1>11. /\ IsFiniteSet(Unites(g)) /\ Cardinality(A) <= Cardinality(Unites(h))
       /\ Cardinality(Unites(g)) = (Cardinality(Unites(h)) - Cardinality(A)) + Cardinality(B)
  BY <1>9, <1>10, Remplacer
<1>12. QED
  BY <1>9, <1>11

\* What each payment leaves to an invoice, and what each credit note takes off it.
Apport(p, f) == IF p # Absent /\ p.facture = f THEN p.montant - p.rembourse ELSE 0
Apports(table, f) == [p \in Paiements |-> Apport(table[p], f)]
Retraits(table, f) ==
    [v \in Avoirs |-> IF table[v] # Absent /\ table[v].origine = f
                      THEN table[v].montant ELSE 0]

PayeesDe(table, f) ==
    UNION {{p} \X (1 .. (table[p].montant - table[p].rembourse)) :
              p \in {q \in {i \in DOMAIN table : table[i] # Absent} : table[q].facture = f}}
AvoirsUnites(table, f) ==
    UNION {{v} \X (1 .. table[v].montant) :
              v \in {q \in {i \in DOMAIN table : table[i] # Absent} : table[q].origine = f}}

LEMMA UnitesDesTables ==
    ASSUME NEW f
    PROVE  /\ UnitesPayees(f) = PayeesDe(paiement, f)
           /\ UnitesAvoirs(f) = AvoirsUnites(avoir, f)
           /\ UnitesPayees(f)' = PayeesDe(paiement', f)
           /\ UnitesAvoirs(f)' = AvoirsUnites(avoir', f)
  BY DEF UnitesPayees, UnitesAvoirs, PaiementsDe, AvoirsDe, Existants, Reste, PayeesDe,
         AvoirsUnites

LEMMA PayeesEnColonnes ==
    ASSUME NEW table, DOMAIN table = Paiements, NEW f
    PROVE  PayeesDe(table, f) = Unites(Apports(table, f))
<1>1. \A u : u \in PayeesDe(table, f) <=>
             \E p \in Paiements : /\ table[p] # Absent /\ table[p].facture = f
                                  /\ u \in Colonne(p, table[p].montant - table[p].rembourse)
  BY DEF PayeesDe, Colonne
<1>2. \A u : u \in Unites(Apports(table, f)) <=>
             \E p \in Paiements : u \in Colonne(p, Apports(table, f)[p])
  BY DEF Unites, Apports
<1>3. \A p \in Paiements :
         IF table[p] # Absent /\ table[p].facture = f
         THEN Apports(table, f)[p] = table[p].montant - table[p].rembourse
         ELSE Apports(table, f)[p] = 0
  BY DEF Apports, Apport
<1>4. \A p : Colonne(p, 0) = {}
  BY DEF Colonne
<1>5. \A u : u \in PayeesDe(table, f) <=> u \in Unites(Apports(table, f))
  BY <1>1, <1>2, <1>3, <1>4
<1>6. QED
  BY <1>5

LEMMA AvoirsEnColonnes ==
    ASSUME NEW table, DOMAIN table = Avoirs, NEW f
    PROVE  AvoirsUnites(table, f) = Unites(Retraits(table, f))
<1>1. \A u : u \in AvoirsUnites(table, f) <=>
             \E v \in Avoirs : /\ table[v] # Absent /\ table[v].origine = f
                               /\ u \in Colonne(v, table[v].montant)
  BY DEF AvoirsUnites, Colonne
<1>2. \A u : u \in Unites(Retraits(table, f)) <=>
             \E v \in Avoirs : u \in Colonne(v, Retraits(table, f)[v])
  BY DEF Unites, Retraits
<1>3. \A v \in Avoirs :
         IF table[v] # Absent /\ table[v].origine = f
         THEN Retraits(table, f)[v] = table[v].montant
         ELSE Retraits(table, f)[v] = 0
  BY DEF Retraits
<1>4. \A v : Colonne(v, 0) = {}
  BY DEF Colonne
<1>5. \A u : u \in AvoirsUnites(table, f) <=> u \in Unites(Retraits(table, f))
  BY <1>1, <1>2, <1>3, <1>4
<1>6. QED
  BY <1>5

\* Every amount of an invoice is a number of units.
ComptesTenus ==
    \A f \in Factures :
        /\ IsFiniteSet(UnitesPayees(f)) /\ IsFiniteSet(UnitesAvoirs(f))
        /\ facture[f].paye = Cardinality(UnitesPayees(f))
        /\ facture[f].avoirs = Cardinality(UnitesAvoirs(f))

\* One payment has changed: the paid units of each invoice change by what it brings.
LEMMA PaiementChange ==
    ASSUME TypesFactures, RemboursementBorne, ComptesTenus, NEW p \in Paiements,
           NEW q \in Paiement, q.rembourse <= q.montant, paiement' = [paiement EXCEPT ![p] = q],
           NEW f \in Factures
    PROVE  /\ IsFiniteSet(UnitesPayees(f)')
           /\ Apport(paiement[p], f) <= facture[f].paye
           /\ Cardinality(UnitesPayees(f)') =
                 (facture[f].paye - Apport(paiement[p], f)) + Apport(q, f)
<1> DEFINE avant == Apport(paiement[p], f)
           apres == Apport(q, f)
           h == Apports(paiement, f)
           g == Apports(paiement', f)
<1>1. \A x \in Paiements : paiement[x] # Absent =>
         paiement[x] \in Paiement /\ paiement[x].montant - paiement[x].rembourse \in Nat
  BY DEF TypesFactures, RemboursementBorne, Paiement
<1>2. \A x \in Paiements : Apport(paiement[x], f) \in Nat
  BY <1>1 DEF Apport
<1>3. apres \in Nat
  BY DEF Paiement, Apport
<1>4. DOMAIN paiement = Paiements /\ DOMAIN paiement' = Paiements
      /\ paiement'[p] = q /\ \A x \in Paiements \ {p} : paiement'[x] = paiement[x]
  BY DEF TypesFactures
<1>5. h \in [Paiements -> Nat] /\ h[p] = avant
  BY <1>2 DEF Apports
<1>6. HauteurChangee(Paiements, h, g, p, apres)
  BY <1>3, <1>4, <1>5 DEF Apports, HauteurChangee
<1>7. UnitesPayees(f) = Unites(h) /\ UnitesPayees(f)' = Unites(g)
  BY <1>4, UnitesDesTables, PayeesEnColonnes
<1>8. IsFiniteSet(Unites(h)) /\ facture[f].paye = Cardinality(Unites(h))
  BY <1>7 DEF ComptesTenus
<1>9. Cardinality(Unites(h)) \in Nat
  BY <1>8, FS_CardinalityType
<1> HIDE DEF h, g, avant, apres
<1>10. /\ IsFiniteSet(Unites(g)) /\ h[p] <= Cardinality(Unites(h))
       /\ Cardinality(Unites(g)) = (Cardinality(Unites(h)) - h[p]) + apres
  BY <1>6, <1>8, <1>9, ChangerHauteur
<1>11. QED
  BY <1>5, <1>7, <1>8, <1>10 DEF avant, apres

\* A credit note is issued.
LEMMA AvoirEmis ==
    ASSUME TypesFactures, ComptesTenus, NEW v \in Avoirs, avoir[v] = Absent, NEW w \in Avoir,
           avoir' = [avoir EXCEPT ![v] = w], NEW f \in Factures
    PROVE  /\ IsFiniteSet(UnitesAvoirs(f)')
           /\ Cardinality(UnitesAvoirs(f)') =
                 facture[f].avoirs + (IF w.origine = f THEN w.montant ELSE 0)
<1> DEFINE apres == IF w.origine = f THEN w.montant ELSE 0
           h == Retraits(avoir, f)
           g == Retraits(avoir', f)
<1>1. h \in [Avoirs -> Nat] /\ h[v] = 0
  BY DEF TypesFactures, Avoir, Retraits
<1>2. apres \in Nat /\ w # Absent
  BY DEF Avoir, Absent
<1>3. DOMAIN avoir = Avoirs /\ DOMAIN avoir' = Avoirs
      /\ avoir'[v] = w /\ \A x \in Avoirs \ {v} : avoir'[x] = avoir[x]
  BY DEF TypesFactures
<1>4. HauteurChangee(Avoirs, h, g, v, apres)
  BY <1>1, <1>2, <1>3 DEF Retraits, HauteurChangee
<1>5. UnitesAvoirs(f) = Unites(h) /\ UnitesAvoirs(f)' = Unites(g)
  BY <1>3, UnitesDesTables, AvoirsEnColonnes
<1>6. IsFiniteSet(Unites(h)) /\ facture[f].avoirs = Cardinality(Unites(h))
  BY <1>5 DEF ComptesTenus
<1>7. facture[f].avoirs \in Nat
  BY DEF TypesFactures, LigneFacture
<1>c. Cardinality(Unites(h)) \in Nat
  BY <1>6, FS_CardinalityType
<1> HIDE DEF h, g, apres
<1>8. /\ IsFiniteSet(Unites(g))
      /\ Cardinality(Unites(g)) = (Cardinality(Unites(h)) - h[v]) + apres
  BY <1>1, <1>2, <1>4, <1>6, <1>c, ChangerHauteur
<1>9. Cardinality(Unites(g)) = facture[f].avoirs + apres
  BY <1>1, <1>2, <1>6, <1>7, <1>8
<1>10. QED
  BY <1>5, <1>8, <1>9 DEF apres

\* Nothing moves but the other columns.
LEMMA ComptesInchanges ==
    ASSUME ComptesTenus, UNCHANGED <<paiement, avoir>>,
           \A f \in Factures : /\ facture'[f].paye = facture[f].paye
                               /\ facture'[f].avoirs = facture[f].avoirs
    PROVE  ComptesTenus'
<1>1. \A f : UnitesPayees(f)' = UnitesPayees(f) /\ UnitesAvoirs(f)' = UnitesAvoirs(f)
  BY UnitesDesTables
<1>2. QED
  BY <1>1 DEF ComptesTenus

LEMMA EncaisserCompte ==
    ASSUME IInv, RemboursementBorne, ComptesTenus,
           NEW a \in Caissiers, NEW p \in Paiements, Encaisser(a, p)
    PROVE  ComptesTenus'
<1> DEFINE r == saisie[a]
           q == [statut |-> "succes", facture |-> r.f, montant |-> r.montant, rembourse |-> 0]
<1>1. TypesFactures /\ r.f \in Factures /\ r.montant \in Nat /\ paiement[p] = Absent
  BY RequeteTypee DEF IInv, Encaisser, ReqFacture
<1>2. q \in Paiement /\ q.rembourse <= q.montant /\ q.facture = r.f /\ q.montant = r.montant
      /\ q.rembourse = 0 /\ q # Absent
  BY <1>1 DEF Paiement, StatutsPaiement, StatutsEncaisses, StatutsRemboursables, Absent
<1>3. paiement' = [paiement EXCEPT ![p] = q] /\ avoir' = avoir
  BY DEF Encaisser
<1> HIDE DEF q
<1>4. ASSUME NEW f \in Factures
      PROVE  /\ facture'[f].paye = facture[f].paye + (IF f = r.f THEN r.montant ELSE 0)
             /\ facture'[f].avoirs = facture[f].avoirs /\ facture[f].paye \in Nat
  BY <1>1 DEF Encaisser, TypesFactures, LigneFacture, ApresEncaissement
<1>5. ASSUME NEW f \in Factures
      PROVE  /\ IsFiniteSet(UnitesPayees(f)') /\ facture'[f].paye = Cardinality(UnitesPayees(f)')
             /\ IsFiniteSet(UnitesAvoirs(f)')
             /\ facture'[f].avoirs = Cardinality(UnitesAvoirs(f)')
  <2>1. Apport(paiement[p], f) = 0 /\ Apport(q, f) = IF f = r.f THEN r.montant ELSE 0
    BY <1>1, <1>2 DEF Apport
  <2>2. /\ IsFiniteSet(UnitesPayees(f)')
        /\ Cardinality(UnitesPayees(f)') =
              (facture[f].paye - Apport(paiement[p], f)) + Apport(q, f)
    BY <1>1, <1>2, <1>3, PaiementChange
  <2>3. UnitesAvoirs(f)' = UnitesAvoirs(f)
    BY <1>3, UnitesDesTables
  <2>4. QED
    BY <1>1, <1>4, <2>1, <2>2, <2>3 DEF ComptesTenus
<1>6. QED
  BY <1>5 DEF ComptesTenus

\* A payment of the invoice gives m back: the invoice had received at least that.
LEMMA RendreCompte ==
    ASSUME TypesFactures, RemboursementBorne, ComptesTenus, NEW p \in Paiements, NEW m \in Nat,
           Remboursable(p, m), Rendre(p, m), NEW f \in Factures
    PROVE  /\ IsFiniteSet(UnitesPayees(f)')
           /\ f # paiement[p].facture => Cardinality(UnitesPayees(f)') = facture[f].paye
           /\ f = paiement[p].facture =>
                 /\ m <= facture[f].paye
                 /\ Cardinality(UnitesPayees(f)') = facture[f].paye - m
<1> DEFINE q == paiement'[p]
<1>1. /\ paiement[p] \in Paiement
      /\ paiement' \in [Paiements -> {Absent} \cup Paiement]
      /\ \A x \in Paiements : x # p => paiement'[x] = paiement[x]
      /\ q.montant = paiement[p].montant
      /\ q.facture = paiement[p].facture
      /\ q.rembourse = paiement[p].rembourse + m
      /\ q.statut \in {"rembourse", "partiel"}
  BY RendreTypee
<1>2. m <= paiement[p].montant - paiement[p].rembourse
  BY DEF Remboursable
<1>3. q \in Paiement /\ q.rembourse <= q.montant
  BY <1>1, <1>2 DEF Paiement, Absent
<1>4. paiement' = [paiement EXCEPT ![p] = q]
  BY <1>1 DEF TypesFactures
<1>5. paiement[p] # Absent /\ q # Absent
  BY <1>1 DEF Remboursable, Absent, StatutsRemboursables
<1>6. facture[f].paye \in Nat
  BY DEF TypesFactures, LigneFacture
<1> HIDE DEF q
<1>7. /\ IsFiniteSet(UnitesPayees(f)')
      /\ Apport(paiement[p], f) <= facture[f].paye
      /\ Cardinality(UnitesPayees(f)') =
            (facture[f].paye - Apport(paiement[p], f)) + Apport(q, f)
  BY <1>3, <1>4, PaiementChange
<1>8. CASE f # paiement[p].facture
  <2>1. Apport(paiement[p], f) = 0 /\ Apport(q, f) = 0
    BY <1>1, <1>8 DEF Apport
  <2>2. QED
    BY <1>6, <1>7, <1>8, <2>1
<1>9. CASE f = paiement[p].facture
  <2>1. /\ Apport(paiement[p], f) = paiement[p].montant - paiement[p].rembourse
        /\ Apport(q, f) = paiement[p].montant - (paiement[p].rembourse + m)
    BY <1>1, <1>5, <1>9 DEF Apport
  <2>2. paiement[p].montant \in Nat /\ paiement[p].rembourse \in Nat
    BY <1>1 DEF Paiement
  <2>3. QED
    BY <1>2, <1>6, <1>7, <1>9, <2>1, <2>2
<1>10. QED
  BY <1>7, <1>8, <1>9

LEMMA RembourserCompte ==
    ASSUME IInv, RemboursementBorne, ComptesTenus, NEW a \in Caissiers, RembourserEtRouvrir(a)
    PROVE  ComptesTenus'
<1> DEFINE r == saisie[a]
           g == paiement[r.p].facture
<1>1. TypesFactures /\ r.p \in Paiements /\ r.montant \in Nat
  BY RequeteTypee DEF IInv, RembourserEtRouvrir, ReqPaiement
<1>2. Remboursable(r.p, r.montant) /\ Rendre(r.p, r.montant) /\ avoir' = avoir
      /\ facture' = [facture EXCEPT ![g] = ApresReouverture(facture[g], r.montant)]
  BY DEF RembourserEtRouvrir
<1>3. ASSUME NEW f \in Factures
      PROVE  /\ facture'[f].paye = IF f = g THEN JamaisNegatif(facture[f].paye - r.montant)
                                   ELSE facture[f].paye
             /\ facture'[f].avoirs = facture[f].avoirs /\ facture[f].paye \in Nat
  BY <1>1, <1>2 DEF TypesFactures, LigneFacture, ApresReouverture, ApresRetrait
<1>4. ASSUME NEW f \in Factures
      PROVE  /\ IsFiniteSet(UnitesPayees(f)') /\ facture'[f].paye = Cardinality(UnitesPayees(f)')
             /\ IsFiniteSet(UnitesAvoirs(f)')
             /\ facture'[f].avoirs = Cardinality(UnitesAvoirs(f)')
  <2>1. /\ IsFiniteSet(UnitesPayees(f)')
        /\ f # g => Cardinality(UnitesPayees(f)') = facture[f].paye
        /\ f = g => /\ r.montant <= facture[f].paye
                    /\ Cardinality(UnitesPayees(f)') = facture[f].paye - r.montant
    BY <1>1, <1>2, RendreCompte
  <2>2. UnitesAvoirs(f)' = UnitesAvoirs(f)
    BY <1>2, UnitesDesTables
  <2>3. QED
    BY <1>1, <1>3, <2>1, <2>2 DEF ComptesTenus, JamaisNegatif
<1>5. QED
  BY <1>4 DEF ComptesTenus

LEMMA ParAvoirCompte ==
    ASSUME IInv, RemboursementBorne, ComptesTenus, NEW a \in Caissiers, NEW v \in Avoirs,
           RembourserParAvoir(a, v)
    PROVE  ComptesTenus'
<1> DEFINE r == saisie[a]
           g == paiement[r.p].facture
           l == ApresRetrait(facture[g], r.montant)
           w == [statut |-> StatutAvoir(l, r.montant), origine |-> g, montant |-> r.montant]
<1>1. TypesFactures /\ r.p \in Paiements /\ r.montant \in Nat
  BY RequeteTypee DEF IInv, RembourserParAvoir, ReqPaiement
<1>2. Remboursable(r.p, r.montant) /\ Rendre(r.p, r.montant) /\ avoir[v] = Absent
      /\ avoir' = [avoir EXCEPT ![v] = w]
      /\ facture' = [facture EXCEPT ![g] = ApresAvoir(l, r.montant)]
  BY DEF RembourserParAvoir
<1>3. g \in Factures
  BY <1>1, <1>2, RendreTypee DEF Paiement
<1>4. w \in Avoir /\ w.origine = g /\ w.montant = r.montant
  BY <1>1, <1>3 DEF Avoir, StatutAvoir
<1>5. ASSUME NEW f \in Factures
      PROVE  /\ facture'[f].paye = IF f = g THEN JamaisNegatif(facture[f].paye - r.montant)
                                   ELSE facture[f].paye
             /\ facture'[f].avoirs = facture[f].avoirs + (IF g = f THEN r.montant ELSE 0)
             /\ facture[f].paye \in Nat /\ facture[f].avoirs \in Nat
  <2>1. facture[f] \in LigneFacture /\ facture[g] \in LigneFacture
    BY <1>1, <1>3 DEF TypesFactures
  <2>2. facture[f].paye \in Nat /\ facture[f].avoirs \in Nat
    BY <2>1 DEF LigneFacture
  <2>3. CASE f # g
    <3>1. facture'[f] = facture[f]
      BY <1>1, <1>2, <2>3 DEF TypesFactures
    <3>2. QED
      BY <2>2, <2>3, <3>1
  <2>4. CASE f = g
    <3>1. facture'[f] = ApresAvoir(l, r.montant)
      BY <1>1, <1>2, <2>4 DEF TypesFactures
    <3>2. l = [facture[g] EXCEPT !.paye = JamaisNegatif(facture[g].paye - r.montant)]
      BY DEF ApresRetrait
    <3>3. l.paye = JamaisNegatif(facture[g].paye - r.montant) /\ l.avoirs = facture[g].avoirs
      BY <2>1, <3>2 DEF LigneFacture
    <3>4. /\ ApresAvoir(l, r.montant).paye = l.paye
          /\ ApresAvoir(l, r.montant).avoirs = l.avoirs + r.montant
      BY <2>1, <3>2 DEF ApresAvoir, LigneFacture
    <3>5. QED
      BY <2>2, <2>4, <3>1, <3>3, <3>4
  <2>5. QED
    BY <2>3, <2>4
<1> HIDE DEF w
<1>6. ASSUME NEW f \in Factures
      PROVE  /\ IsFiniteSet(UnitesPayees(f)') /\ facture'[f].paye = Cardinality(UnitesPayees(f)')
             /\ IsFiniteSet(UnitesAvoirs(f)')
             /\ facture'[f].avoirs = Cardinality(UnitesAvoirs(f)')
  <2>1. /\ IsFiniteSet(UnitesPayees(f)')
        /\ f # g => Cardinality(UnitesPayees(f)') = facture[f].paye
        /\ f = g => /\ r.montant <= facture[f].paye
                    /\ Cardinality(UnitesPayees(f)') = facture[f].paye - r.montant
    BY <1>1, <1>2, RendreCompte
  <2>2. /\ IsFiniteSet(UnitesAvoirs(f)')
        /\ Cardinality(UnitesAvoirs(f)') =
              facture[f].avoirs + (IF w.origine = f THEN w.montant ELSE 0)
    BY <1>1, <1>2, <1>4, AvoirEmis
  <2>3. QED
    BY <1>1, <1>4, <1>5, <2>1, <2>2 DEF JamaisNegatif
<1>7. QED
  BY <1>6 DEF ComptesTenus

LEMMA EmettreCompte ==
    ASSUME IInv, ComptesTenus, NEW a \in Caissiers, NEW v \in Avoirs, EmettreAvoir(a, v)
    PROVE  ComptesTenus'
<1> DEFINE r == saisie[a]
           w == [statut |-> StatutAvoir(facture[r.f], r.montant), origine |-> r.f,
                 montant |-> r.montant]
<1>1. TypesFactures /\ r.f \in Factures /\ r.montant \in Nat
  BY RequeteTypee DEF IInv, EmettreAvoir, ReqFacture
<1>2. avoir[v] = Absent /\ avoir' = [avoir EXCEPT ![v] = w] /\ paiement' = paiement
      /\ facture' = [facture EXCEPT ![r.f] = ApresAvoir(facture[r.f], r.montant)]
  BY DEF EmettreAvoir
<1>3. w \in Avoir /\ w.origine = r.f /\ w.montant = r.montant
  BY <1>1 DEF Avoir, StatutAvoir
<1>4. ASSUME NEW f \in Factures
      PROVE  /\ facture'[f].paye = facture[f].paye
             /\ facture'[f].avoirs = facture[f].avoirs + (IF r.f = f THEN r.montant ELSE 0)
  BY <1>1, <1>2 DEF TypesFactures, LigneFacture, ApresAvoir
<1> HIDE DEF w
<1>5. ASSUME NEW f \in Factures
      PROVE  /\ IsFiniteSet(UnitesPayees(f)') /\ facture'[f].paye = Cardinality(UnitesPayees(f)')
             /\ IsFiniteSet(UnitesAvoirs(f)')
             /\ facture'[f].avoirs = Cardinality(UnitesAvoirs(f)')
  <2>1. UnitesPayees(f)' = UnitesPayees(f)
    BY <1>2, UnitesDesTables
  <2>2. /\ IsFiniteSet(UnitesAvoirs(f)')
        /\ Cardinality(UnitesAvoirs(f)') =
              facture[f].avoirs + (IF w.origine = f THEN w.montant ELSE 0)
    BY <1>1, <1>2, <1>3, AvoirEmis
  <2>3. QED
    BY <1>3, <1>4, <2>1, <2>2 DEF ComptesTenus
<1>6. QED
  BY <1>5 DEF ComptesTenus

LEMMA EchouerCompte ==
    ASSUME IInv, RemboursementBorne, ComptesTenus, NEW p \in Paiements, MarquerEchoue(p)
    PROVE  ComptesTenus'
<1> DEFINE q == [paiement[p] EXCEPT !.statut = "echoue"]
<1>1. TypesFactures /\ paiement[p] \in Paiement /\ paiement[p] # Absent
  BY DEF IInv, TypesFactures, MarquerEchoue
<1>2. q \in Paiement /\ q.montant = paiement[p].montant /\ q.rembourse = paiement[p].rembourse
      /\ q.facture = paiement[p].facture /\ q.statut = "echoue"
  BY <1>1 DEF Paiement, StatutsPaiement
<1>3. q.rembourse <= q.montant /\ q # Absent
  BY <1>1, <1>2 DEF RemboursementBorne, Absent
<1>4. paiement' = [paiement EXCEPT ![p] = q] /\ avoir' = avoir /\ facture' = facture
  BY DEF MarquerEchoue
<1> HIDE DEF q
<1>5. ASSUME NEW f \in Factures
      PROVE  /\ IsFiniteSet(UnitesPayees(f)') /\ facture'[f].paye = Cardinality(UnitesPayees(f)')
             /\ IsFiniteSet(UnitesAvoirs(f)')
             /\ facture'[f].avoirs = Cardinality(UnitesAvoirs(f)')
  <2>1. Apport(q, f) = Apport(paiement[p], f) /\ Apport(q, f) \in Nat
    BY <1>1, <1>2, <1>3 DEF Apport, Paiement
  <2>2. /\ IsFiniteSet(UnitesPayees(f)')
        /\ Cardinality(UnitesPayees(f)') =
              (facture[f].paye - Apport(paiement[p], f)) + Apport(q, f)
    BY <1>1, <1>2, <1>3, <1>4, PaiementChange
  <2>3. UnitesAvoirs(f)' = UnitesAvoirs(f)
    BY <1>4, UnitesDesTables
  <2>4. facture[f].paye \in Nat
    BY <1>1 DEF TypesFactures, LigneFacture
  <2>5. QED
    BY <1>4, <2>1, <2>2, <2>3, <2>4 DEF ComptesTenus
<1>6. QED
  BY <1>5 DEF ComptesTenus

LEMMA InitComptes == InitFactures => ComptesTenus
<1> SUFFICES ASSUME InitFactures, NEW f \in Factures
             PROVE  /\ IsFiniteSet(UnitesPayees(f)) /\ IsFiniteSet(UnitesAvoirs(f))
                    /\ facture[f].paye = Cardinality(UnitesPayees(f))
                    /\ facture[f].avoirs = Cardinality(UnitesAvoirs(f))
  BY DEF ComptesTenus
<1>1. UnitesPayees(f) = {} /\ UnitesAvoirs(f) = {}
  BY DEF InitFactures, UnitesPayees, UnitesAvoirs, PaiementsDe, AvoirsDe, Existants
<1>2. facture[f].paye = 0 /\ facture[f].avoirs = 0
  BY DEF InitFactures
<1>3. QED
  BY <1>1, <1>2, FS_EmptySet

LEMMA NextComptes ==
    IInv /\ RemboursementBorne /\ ComptesTenus /\ [NextFactures]_varsFactures => ComptesTenus'
<1> SUFFICES ASSUME IInv, RemboursementBorne, ComptesTenus, [NextFactures]_varsFactures PROVE ComptesTenus'
  OBVIOUS
<1>t. TypesFactures
  BY DEF IInv
<1>1. ASSUME NEW a \in Caissiers, Lire(a) \/ RenoncerSaisie(a) PROVE ComptesTenus'
  <2>1. UNCHANGED <<facture, paiement, avoir>>
    BY <1>1 DEF Lire, LireEncaissement, LireAvoir, LireRemise, LirePesee, LireAnnulation,
                LireRemboursement, Deposer, RenoncerSaisie
  <2>2. QED
    BY <2>1, ComptesInchanges
<1>2. ASSUME NEW a \in Caissiers, AppliquerRemise(a) \/ AnnulerFacture(a) \/ CorrigerPesee(a)
      PROVE  ComptesTenus'
  <2> DEFINE r == saisie[a]
  <2>1. r.f \in Factures
    BY <1>2, <1>t, RequeteTypee DEF AppliquerRemise, AnnulerFacture, CorrigerPesee, ReqEcriture
  <2>2. UNCHANGED <<paiement, avoir>>
    BY <1>2 DEF AppliquerRemise, AnnulerFacture, CorrigerPesee, Ecrire
  <2>3. \A f \in Factures : /\ facture'[f].paye = facture[f].paye
                            /\ facture'[f].avoirs = facture[f].avoirs
    <3> DEFINE l == facture[r.f]
    <3>1. PICK n : /\ n.paye = l.paye /\ n.avoirs = l.avoirs
                   /\ facture' = [facture EXCEPT ![r.f] = n]
      <4>1. l \in LigneFacture
        BY <1>t, <2>1 DEF TypesFactures
      <4>2. ASSUME NEW x, NEW y
            PROVE  /\ [l EXCEPT !.remise = x, !.total = y].paye = l.paye
                   /\ [l EXCEPT !.remise = x, !.total = y].avoirs = l.avoirs
                   /\ [l EXCEPT !.base = x, !.total = y].paye = l.paye
                   /\ [l EXCEPT !.base = x, !.total = y].avoirs = l.avoirs
                   /\ [l EXCEPT !.statut = x].paye = l.paye
                   /\ [l EXCEPT !.statut = x].avoirs = l.avoirs
        BY <4>1 DEF LigneFacture
      <4>3. CASE AppliquerRemise(a)
        <5> DEFINE n == [l EXCEPT !.remise = r.montant,
                                  !.total = MontantTotal(r.lue.base, r.montant)]
        <5>1. facture' = [facture EXCEPT ![r.f] = n]
          BY <4>3 DEF AppliquerRemise, Ecrire
        <5>2. n.paye = l.paye /\ n.avoirs = l.avoirs
          BY <4>2
        <5> HIDE DEF n
        <5>3. QED
          BY <5>1, <5>2
      <4>4. CASE AnnulerFacture(a)
        <5> DEFINE n == [l EXCEPT !.statut = IF r.lue.statut = "annulee" THEN @ ELSE "annulee"]
        <5>1. facture' = [facture EXCEPT ![r.f] = n]
          BY <4>4 DEF AnnulerFacture, Ecrire
        <5>2. n.paye = l.paye /\ n.avoirs = l.avoirs
          BY <4>1 DEF LigneFacture
        <5> HIDE DEF n
        <5>3. QED
          BY <5>1, <5>2
      <4>5. CASE CorrigerPesee(a)
        <5> DEFINE n == [l EXCEPT !.base = r.montant, !.total = MontantTotal(r.montant, 0)]
        <5>1. facture' = [facture EXCEPT ![r.f] = n]
          BY <4>5 DEF CorrigerPesee, Ecrire
        <5>2. n.paye = l.paye /\ n.avoirs = l.avoirs
          BY <4>2
        <5> HIDE DEF n
        <5>3. QED
          BY <5>1, <5>2
      <4>6. QED
        BY <1>2, <4>3, <4>4, <4>5
    <3>2. QED
      BY <1>t, <2>1, <3>1 DEF TypesFactures
  <2>4. QED
    BY <2>2, <2>3, ComptesInchanges
<1>3. ASSUME NEW f \in Factures, AnnulerExpedition(f) PROVE ComptesTenus'
  <2>1. UNCHANGED <<paiement, avoir>>
    BY <1>3 DEF AnnulerExpedition
  <2>2. \A g \in Factures : /\ facture'[g].paye = facture[g].paye
                            /\ facture'[g].avoirs = facture[g].avoirs
    BY <1>3, <1>t DEF AnnulerExpedition, TypesFactures, LigneFacture
  <2>3. QED
    BY <2>1, <2>2, ComptesInchanges
<1>4. CASE UNCHANGED varsFactures
  BY <1>4, ComptesInchanges DEF varsFactures
<1>5. QED
  BY <1>1, <1>2, <1>3, <1>4, EncaisserCompte, RembourserCompte, ParAvoirCompte, EmettreCompte,
     EchouerCompte DEF NextFactures, CaissierSuivant

LEMMA ComptesInvariants == SpecFactures => []ComptesTenus
<1>1. InitFactures => RemboursementBorne
  BY DEF InitFactures, RemboursementBorne
<1>2. QED
  BY <1>1, InitComptes, NextRembourse, NextComptes, Invariance, PTL DEF SpecFactures

\* No update of the amounts of an invoice is lost, whatever payments, refunds and credit notes
\* cross: the cumulated amounts are the sums of the rows.
THEOREM CumulsTenus == SpecFactures => []CumulsExacts
<1>1. ComptesTenus => CumulsExacts
  BY DEF ComptesTenus, CumulsExacts
<1>2. QED
  BY <1>1, ComptesInvariants, PTL

-----------------------------------------------------------------------------
(* A cancellation is for good *)

\* A refund in flight gives something back: its amount was checked when it was read.
RetraitsPositifs ==
    \A a \in Caissiers : saisie[a].op = "remboursement" => saisie[a].montant > 0

LEMMA NextPositifs == IInv /\ RetraitsPositifs /\ [NextFactures]_varsFactures => RetraitsPositifs'
<1> SUFFICES ASSUME IInv, RetraitsPositifs, [NextFactures]_varsFactures PROVE RetraitsPositifs'
  OBVIOUS
<1>1. ASSUME NEW a \in Caissiers, saisie' = [saisie EXCEPT ![a] = Disponible]
      PROVE  RetraitsPositifs'
  BY <1>1 DEF RetraitsPositifs, IInv, TypesFactures, Disponible
<1>2. ASSUME NEW a \in Caissiers, NEW r, Deposer(a, r), r.op = "remboursement" => r.montant > 0
      PROVE  RetraitsPositifs'
  BY <1>2 DEF RetraitsPositifs, IInv, TypesFactures, Deposer
<1>3. ASSUME NEW a \in Caissiers, Lire(a) PROVE RetraitsPositifs'
  <2>1. ASSUME NEW f, NEW m, LireEncaissement(a, f, m) \/ LireAvoir(a, f, m)
        PROVE  RetraitsPositifs'
    BY <2>1, <1>2 DEF LireEncaissement, LireAvoir
  <2>2. ASSUME NEW f, NEW m, LireRemise(a, f, m) \/ LirePesee(a, f, m)
        PROVE  RetraitsPositifs'
    BY <2>2, <1>2 DEF LireRemise, LirePesee
  <2>3. ASSUME NEW f, LireAnnulation(a, f) PROVE RetraitsPositifs'
    BY <2>3, <1>2 DEF LireAnnulation
  <2>4. ASSUME NEW p, NEW m, NEW rouvrir, LireRemboursement(a, p, m, rouvrir)
        PROVE  RetraitsPositifs'
    BY <2>4, <1>2 DEF LireRemboursement
  <2>5. QED
    BY <1>3, <2>1, <2>2, <2>3, <2>4 DEF Lire
<1>4. ASSUME UNCHANGED saisie PROVE RetraitsPositifs'
  BY <1>4 DEF RetraitsPositifs
<1>5. ASSUME NEW a \in Caissiers, CaissierSuivant(a) PROVE RetraitsPositifs'
  BY <1>1, <1>3, <1>5 DEF CaissierSuivant, Encaisser, RembourserParAvoir, EmettreAvoir,
     RembourserEtRouvrir, AppliquerRemise, AnnulerFacture, CorrigerPesee, Ecrire, RenoncerSaisie
<1>6. QED
  BY <1>4, <1>5 DEF NextFactures, AnnulerExpedition, MarquerEchoue, varsFactures

\* A payment that still has something to give back left it on its invoice.
LEMMA SansPaiementRienARendre ==
    ASSUME IInv, RemboursementBorne, ComptesTenus, NEW p \in Paiements, NEW m \in Nat, m > 0,
           Remboursable(p, m)
    PROVE  facture[paiement[p].facture].paye # 0
<1> DEFINE f == paiement[p].facture
<1>1. paiement[p] \in Paiement /\ paiement[p] # Absent
  BY DEF IInv, TypesFactures, Remboursable, Absent, StatutsRemboursables
<1>2. f \in Factures /\ Reste(p) \in Nat /\ Reste(p) >= 1
  BY <1>1 DEF Paiement, Remboursable, Reste
<1>3. p \in PaiementsDe(f)
  BY <1>1 DEF PaiementsDe, Existants, IInv, TypesFactures
<1>4. <<p, 1>> \in {p} \X (1 .. Reste(p))
  BY <1>2
<1>5. UnitesPayees(f) # {}
  BY <1>3, <1>4 DEF UnitesPayees
<1>6. QED
  BY <1>2, <1>5, FS_EmptySet DEF ComptesTenus

\* A cancelled invoice holds no payment, so that no refund can reopen it; and no payment, credit
\* note, discount or weighing changes its status, save over a stale cancellation.
THEOREM AnnulationDefinitive == SpecFactures => AnnuleeDefinitive
<1>1. SInv /\ RemboursementBorne /\ ComptesTenus /\ RetraitsPositifs /\ [NextFactures]_varsFactures =>
        [\A f \in Factures :
            facture[f].statut = "annulee" /\ ~perime[f] => facture'[f].statut = "annulee"]_varsFactures
  <2> SUFFICES ASSUME SInv, RemboursementBorne, ComptesTenus, RetraitsPositifs, [NextFactures]_varsFactures,
                      NEW f \in Factures, facture[f].statut = "annulee", ~perime[f]
               PROVE  facture'[f].statut = "annulee"
    OBVIOUS
  <2>t. IInv /\ TypesFactures /\ facture[f] \in LigneFacture /\ facture[f].paye = 0
    BY DEF SInv, IInv, TypesFactures, LignesSaines, Saine
  <2>0. ASSUME facture'[f] = facture[f] PROVE facture'[f].statut = "annulee"
    BY <2>0
  <2>1. ASSUME NEW a \in Caissiers, RembourserEtRouvrir(a)
        PROVE  facture'[f] = facture[f]
    <3> DEFINE r == saisie[a]
               g == paiement[r.p].facture
    <3>1. r.p \in Paiements /\ r.montant \in Nat /\ r.montant > 0 /\ Remboursable(r.p, r.montant)
      BY <2>1, <2>t, RequeteTypee DEF RembourserEtRouvrir, ReqPaiement, RetraitsPositifs
    <3>2. facture[g].paye # 0
      BY <2>t, <3>1, SansPaiementRienARendre
    <3>3. f # g
      BY <2>t, <3>2
    <3>4. QED
      BY <2>1, <2>t, <3>3 DEF RembourserEtRouvrir, TypesFactures
  <2>2. ASSUME NEW m \in Nat, NEW l \in LigneFacture, l.statut = "annulee"
        PROVE  ApresAvoir(l, m).statut = "annulee" /\ ApresRetrait(l, m).statut = "annulee"
               /\ ~Encaissable(l, m)
    BY <2>2 DEF ApresAvoir, ApresRetrait, LigneFacture, Dues, Encaissable
  <2>3. ASSUME NEW a \in Caissiers, NEW p \in Paiements, Encaisser(a, p)
        PROVE  facture'[f].statut = "annulee"
    <3>1. saisie[a].f \in Factures /\ saisie[a].montant \in Nat /\ saisie[a].f # f
      BY <2>3, <2>t, <2>2, RequeteTypee DEF Encaisser, ReqFacture
    <3>2. QED
      BY <2>3, <2>t, <3>1 DEF Encaisser, TypesFactures
  <2>4. ASSUME NEW a \in Caissiers, NEW v \in Avoirs, EmettreAvoir(a, v)
        PROVE  facture'[f].statut = "annulee"
    <3> DEFINE r == saisie[a]
    <3>1. r.f \in Factures /\ r.montant \in Nat
      BY <2>4, <2>t, RequeteTypee DEF EmettreAvoir, ReqFacture
    <3>2. facture'[f] = facture[f] \/ facture'[f] = ApresAvoir(facture[f], r.montant)
      BY <2>4, <2>t, <3>1 DEF EmettreAvoir, TypesFactures
    <3>3. QED
      BY <2>2, <2>t, <3>1, <3>2
  <2>5. ASSUME NEW a \in Caissiers, NEW v \in Avoirs, RembourserParAvoir(a, v)
        PROVE  facture'[f].statut = "annulee"
    <3> DEFINE r == saisie[a]
               l == ApresRetrait(facture[f], r.montant)
    <3>1. r.p \in Paiements /\ r.montant \in Nat
      BY <2>5, <2>t, RequeteTypee DEF RembourserParAvoir, ReqPaiement
    <3>2. facture'[f] = facture[f] \/ facture'[f] = ApresAvoir(l, r.montant)
      BY <2>5, <2>t DEF RembourserParAvoir, TypesFactures
    <3>3. l \in LigneFacture /\ l.statut = "annulee"
      BY <2>2, <2>t, <3>1, LigneApres
    <3> HIDE DEF l
    <3>4. QED
      BY <2>2, <3>1, <3>2, <3>3
  <2>6. ASSUME NEW a \in Caissiers, AppliquerRemise(a) \/ AnnulerFacture(a) \/ CorrigerPesee(a)
        PROVE  facture'[f].statut = "annulee"
    <3> DEFINE r == saisie[a]
               l == facture[f]
    <3>0. r.f \in Factures /\ l \in LigneFacture
      BY <2>6, <2>t, RequeteTypee DEF AppliquerRemise, AnnulerFacture, CorrigerPesee, ReqEcriture,
                                      TypesFactures
    <3>1. CASE AppliquerRemise(a)
      <4> DEFINE n == [facture[r.f] EXCEPT !.remise = r.montant,
                                           !.total = MontantTotal(r.lue.base, r.montant)]
      <4>1. facture' = [facture EXCEPT ![r.f] = n]
        BY <3>1 DEF AppliquerRemise, Ecrire
      <4>2. r.f = f => n.statut = "annulee"
        BY <2>2, <3>0 DEF LigneFacture
      <4> HIDE DEF n
      <4>3. QED
        BY <2>2, <2>t, <3>0, <4>1, <4>2 DEF TypesFactures
    <3>2. CASE AnnulerFacture(a)
      <4> DEFINE n == [facture[r.f] EXCEPT !.statut =
                          IF r.lue.statut = "annulee" THEN @ ELSE "annulee"]
      <4>1. facture' = [facture EXCEPT ![r.f] = n]
        BY <3>2 DEF AnnulerFacture, Ecrire
      <4>2. r.f = f => n.statut = "annulee"
        BY <2>2, <3>0 DEF LigneFacture
      <4> HIDE DEF n
      <4>3. QED
        BY <2>2, <2>t, <3>0, <4>1, <4>2 DEF TypesFactures
    <3>3. CASE CorrigerPesee(a)
      <4> DEFINE n == [facture[r.f] EXCEPT !.base = r.montant,
                                           !.total = MontantTotal(r.montant, 0)]
      <4>1. facture' = [facture EXCEPT ![r.f] = n]
        BY <3>3 DEF CorrigerPesee, Ecrire
      <4>2. r.f = f => n.statut = "annulee"
        BY <2>2, <3>0 DEF LigneFacture
      <4> HIDE DEF n
      <4>3. QED
        BY <2>2, <2>t, <3>0, <4>1, <4>2 DEF TypesFactures
    <3>4. QED
      BY <2>6, <3>1, <3>2, <3>3
  <2>7. ASSUME NEW g \in Factures, AnnulerExpedition(g)
        PROVE  facture'[f].statut = "annulee"
    BY <2>7, <2>t DEF AnnulerExpedition, TypesFactures, LigneFacture
  <2>8. ASSUME NEW a \in Caissiers, Lire(a) \/ RenoncerSaisie(a) PROVE facture'[f] = facture[f]
    BY <2>8 DEF Lire, LireEncaissement, LireAvoir, LireRemise, LirePesee, LireAnnulation,
                LireRemboursement, Deposer, RenoncerSaisie
  <2>9. ASSUME NEW p \in Paiements, MarquerEchoue(p) PROVE facture'[f] = facture[f]
    BY <2>9 DEF MarquerEchoue
  <2>10. QED
    BY <2>0, <2>1, <2>3, <2>4, <2>5, <2>6, <2>7, <2>8, <2>9 DEF NextFactures, CaissierSuivant, varsFactures
<1>2. InitFactures => RetraitsPositifs /\ RemboursementBorne
  BY DEF InitFactures, RetraitsPositifs, RemboursementBorne, Disponible
<1>3. SInv => IInv
  BY DEF SInv
<1>4. QED
  BY <1>1, <1>2, <1>3, InitSInv, NextSInv, InitComptes, NextComptes, NextRembourse,
     NextPositifs, PTL DEF SpecFactures, AnnuleeDefinitive

=============================================================================
