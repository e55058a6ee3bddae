---------------------------- MODULE Facturation ----------------------------
(***************************************************************************)
(* Invoices, the payments recorded against them, their refunds and the     *)
(* credit notes (avoirs), as the back-office requests of several members   *)
(* of staff change them at the same time.                                  *)
(*                                                                         *)
(* A request first loads its rows and refuses what they exclude (Lire...), *)
(* then writes.  enregistrerPaiement, rembourser and the credit notes      *)
(* write in a transaction that locks the invoice row (SELECT ... FOR       *)
(* UPDATE), which makes the write one atomic step on the row as it is then.*)
(* appliquerRemise, annulerFacture and corrigerPesee write what they       *)
(* computed from the row they loaded, without a lock.                      *)
(*                                                                         *)
(* Amounts are whole numbers of the currency's smallest unit (`arrondir`   *)
(* keeps them so).  `base` stands for montantFret + montantSurcharges +    *)
(* montantAssurance; montantDroitsDouane, a constant term of the total, is *)
(* left out.                                                               *)
(***************************************************************************)
EXTENDS Integers, FiniteSets

CONSTANTS
    Factures,     \* invoices of type 'expedition', one per parcel
    Paiements,    \* rows of the payments table, created on demand
    Avoirs,       \* rows of credit notes, created on demand
    Caissiers,       \* members of staff, each with at most one request in flight
    MontantMax,   \* bound on the pre-tax price of an expedition
    TauxTva       \* VAT rate, in percent

ASSUME MontantMaxAssumption == MontantMax \in Nat \ {0}
ASSUME TauxTvaAssumption == TauxTva \in Nat

VARIABLES
    facture,      \* table of the invoices
    paiement,     \* table of the payments
    avoir,        \* table of the credit notes
    saisie,      \* the request each agent has in flight
    perime        \* auxiliary: a write computed from a stale row has happened

varsFactures == <<facture, paiement, avoir, saisie, perime>>

-----------------------------------------------------------------------------
(* Types *)

Dues == {"en_attente", "partiellement_payee"}
StatutsFacture == Dues \cup {"payee", "annulee"}
StatutsRemboursables == {"succes", "partiel"}
StatutsEncaisses == StatutsRemboursables \cup {"rembourse"}
StatutsPaiement == StatutsEncaisses \cup {"echoue"}

LigneFacture == [statut : StatutsFacture, base : Nat, remise : Nat, total : Nat,
          paye : Nat, avoirs : Nat]

Absent == [statut |-> "absent"]
Paiement == [statut : StatutsPaiement, facture : Factures, montant : Nat, rembourse : Nat]
Avoir == [statut : {"payee", "en_attente"}, origine : Factures, montant : Nat]

Disponible == [op |-> "libre"]
ReqEcriture == [op : {"remise", "annulation", "pesee"}, f : Factures, montant : Nat,
                lue : LigneFacture]
ReqFacture == [op : {"encaissement", "avoir"}, f : Factures, montant : Nat]
ReqPaiement == [op : {"remboursement"}, p : Paiements, montant : Nat, rouvrir : BOOLEAN]
Saisie == {Disponible} \cup ReqEcriture \cup ReqFacture \cup ReqPaiement

-----------------------------------------------------------------------------
(* What is computed from a row.  A definition that follows the word        *)
(* "Variant" is a plausible slip in the one below it: PROJECT.json names   *)
(* the property that tells the two apart.                                  *)

JamaisNegatif(n) == IF n < 0 THEN 0 ELSE n

\* Rounded to the unit, half up, as arrondir does for the CFA franc.
Tva(ht) == (ht * TauxTva + 50) \div 100
MontantTotal(base, remise) == (base - remise) + Tva(base - remise)

SoldeDu(l) == l.total - l.paye - l.avoirs

\* Variants of Encaissable: without the status, with a balance blind to credit notes.
EncaissableToutStatut(l, m) == m <= SoldeDu(l)
EncaissableHorsAvoirs(l, m) == l.statut \in Dues /\ m <= l.total - l.paye

Encaissable(l, m) == l.statut \in Dues /\ m <= SoldeDu(l)

\* Variant: the amounts already given back are forgotten.
RemboursableEntier(p, m) ==
    /\ paiement[p].statut \in StatutsRemboursables
    /\ m <= paiement[p].montant

Remboursable(p, m) ==
    /\ paiement[p].statut \in StatutsRemboursables
    /\ m <= paiement[p].montant - paiement[p].rembourse

\* Compensable amount checked by avoirService.emettre under the lock.
Compensable(l, m) == m <= l.total - l.avoirs

\* A credit note that the debt absorbs is settled at once.
StatutAvoir(l, m) == IF m <= JamaisNegatif(SoldeDu(l)) THEN "payee" ELSE "en_attente"

ApresAvoir(l, m) ==
    [l EXCEPT !.avoirs = @ + m,
              !.statut = IF SoldeDu(l) - m <= 0 /\ @ \in Dues THEN "payee" ELSE @]

ApresEncaissement(l, m) ==
    [l EXCEPT !.paye = @ + m,
              !.statut = IF l.paye + m >= l.total THEN "payee" ELSE "partiellement_payee"]

\* Variant: the amount given back stays in montantPaye.
ApresRetraitOublie(l, m) == [l EXCEPT !.paye = JamaisNegatif(@)]

\* The amount given back leaves montantPaye; nothing else of the row moves yet.
ApresRetrait(l, m) == [l EXCEPT !.paye = JamaisNegatif(@ - m)]

\* Variant: the status is left as it was.
ApresReouvertureSansStatut(l, m) == ApresRetrait(l, m)

\* rouvrirFacture: the amount is due again, the status follows the balance.
ApresReouverture(l, m) ==
    LET r == ApresRetrait(l, m)
    IN  [r EXCEPT !.statut = IF SoldeDu(r) <= 0 THEN "payee"
                             ELSE IF r.paye + r.avoirs > 0 THEN "partiellement_payee"
                             ELSE "en_attente"]

-----------------------------------------------------------------------------
(* Initial state: each invoice has just been issued, nothing is paid.  A   *)
(* sponsorship credit may already stand as a discount.                     *)

InitFactures ==
    /\ facture \in [Factures ->
          {[statut |-> "en_attente", base |-> b, remise |-> r,
            total |-> MontantTotal(b, r), paye |-> 0, avoirs |-> 0] :
               b \in 1 .. MontantMax, r \in 0 .. (MontantMax - 1)}]
    /\ \A f \in Factures : facture[f].remise < facture[f].base
    /\ paiement = [p \in Paiements |-> Absent]
    /\ avoir = [v \in Avoirs |-> Absent]
    /\ saisie = [a \in Caissiers |-> Disponible]
    /\ perime = [f \in Factures |-> FALSE]

-----------------------------------------------------------------------------
(* First half of a request: the rows are loaded and checked, unlocked.     *)

Deposer(a, r) ==
    /\ saisie[a] = Disponible
    /\ saisie' = [saisie EXCEPT ![a] = r]
    /\ UNCHANGED <<facture, paiement, avoir, perime>>

LireEncaissement(a, f, m) ==
    /\ m > 0
    /\ Encaissable(facture[f], m)
    /\ Deposer(a, [op |-> "encaissement", f |-> f, montant |-> m])

LireRemboursement(a, p, m, rouvrir) ==
    /\ paiement[p] # Absent
    /\ m > 0
    /\ Remboursable(p, m)
    /\ Deposer(a, [op |-> "remboursement", p |-> p, montant |-> m, rouvrir |-> rouvrir])

LireAvoir(a, f, m) ==
    /\ m > 0
    /\ m <= facture[f].total
    /\ facture[f].statut # "annulee"
    /\ Deposer(a, [op |-> "avoir", f |-> f, montant |-> m])

LireRemise(a, f, m) ==
    /\ facture[f].statut \in Dues
    /\ m <= facture[f].base
    /\ MontantTotal(facture[f].base, m) >= facture[f].paye + facture[f].avoirs
    /\ Deposer(a, [op |-> "remise", f |-> f, montant |-> m, lue |-> facture[f]])

LireAnnulation(a, f) ==
    /\ facture[f].statut # "payee"
    /\ facture[f].paye = 0
    /\ Deposer(a, [op |-> "annulation", f |-> f, montant |-> 0, lue |-> facture[f]])

\* montant is the pre-tax price recomputed from the checked weight.
LirePesee(a, f, m) ==
    /\ facture[f].statut \notin {"payee", "annulee"}
    /\ m > 0
    /\ Deposer(a, [op |-> "pesee", f |-> f, montant |-> m, lue |-> facture[f]])

Lire(a) ==
    \/ \E f \in Factures, m \in 0 .. MontantTotal(MontantMax, 0) :
          \/ LireEncaissement(a, f, m)
          \/ LireAvoir(a, f, m)
    \/ \E f \in Factures, m \in 0 .. MontantMax : LireRemise(a, f, m) \/ LirePesee(a, f, m)
    \/ \E f \in Factures : LireAnnulation(a, f)
    \/ \E p \in Paiements, m \in 0 .. MontantTotal(MontantMax, 0), rouvrir \in BOOLEAN :
          LireRemboursement(a, p, m, rouvrir)

-----------------------------------------------------------------------------
(* Second half, under the row lock: the checks are made again on the row.  *)

Encaisser(a, p) ==
    LET r == saisie[a] IN
    /\ r.op = "encaissement"
    /\ paiement[p] = Absent
    /\ Encaissable(facture[r.f], r.montant)
    /\ paiement' = [paiement EXCEPT ![p] =
          [statut |-> "succes", facture |-> r.f, montant |-> r.montant, rembourse |-> 0]]
    /\ facture' = [facture EXCEPT ![r.f] = ApresEncaissement(@, r.montant)]
    /\ saisie' = [saisie EXCEPT ![a] = Disponible]
    /\ UNCHANGED <<avoir, perime>>

\* Variant: what remains to be given back is kept instead of what was given.
RendreDecompte(p, m) == paiement' = [paiement EXCEPT ![p].rembourse = @ - m]

\* The part of a refund that concerns the payment row.
Rendre(p, m) ==
    paiement' = [paiement EXCEPT
        ![p].rembourse = @ + m,
        ![p].statut = IF paiement[p].rembourse + m >= paiement[p].montant
                      THEN "rembourse" ELSE "partiel"]

\* Default refund: the amount is no longer due, a credit note replaces it.
RembourserParAvoir(a, v) ==
    LET r == saisie[a]
        f == paiement[r.p].facture
        l == ApresRetrait(facture[f], r.montant)
    IN
    /\ r.op = "remboursement"
    /\ ~r.rouvrir
    /\ Remboursable(r.p, r.montant)
    /\ avoir[v] = Absent
    /\ Compensable(l, r.montant)
    /\ Rendre(r.p, r.montant)
    /\ avoir' = [avoir EXCEPT ![v] = [statut |-> StatutAvoir(l, r.montant),
                                      origine |-> f, montant |-> r.montant]]
    /\ facture' = [facture EXCEPT ![f] = ApresAvoir(l, r.montant)]
    /\ saisie' = [saisie EXCEPT ![a] = Disponible]
    /\ UNCHANGED perime

\* Refund with rouvrirFacture.
RembourserEtRouvrir(a) ==
    LET r == saisie[a]
        f == paiement[r.p].facture
    IN
    /\ r.op = "remboursement"
    /\ r.rouvrir
    /\ Remboursable(r.p, r.montant)
    /\ Rendre(r.p, r.montant)
    /\ facture' = [facture EXCEPT ![f] = ApresReouverture(@, r.montant)]
    /\ saisie' = [saisie EXCEPT ![a] = Disponible]
    /\ UNCHANGED <<avoir, perime>>

\* emettreAvoir: only the amount is checked again, not the invoice's status.
EmettreAvoir(a, v) ==
    LET r == saisie[a] IN
    /\ r.op = "avoir"
    /\ avoir[v] = Absent
    /\ Compensable(facture[r.f], r.montant)
    /\ avoir' = [avoir EXCEPT ![v] = [statut |-> StatutAvoir(facture[r.f], r.montant),
                                      origine |-> r.f, montant |-> r.montant]]
    /\ facture' = [facture EXCEPT ![r.f] = ApresAvoir(@, r.montant)]
    /\ saisie' = [saisie EXCEPT ![a] = Disponible]
    /\ UNCHANGED <<paiement, perime>>

\* Variant: a settled invoice is cancelled as well.
AnnulerExpeditionReglee(f) ==
    /\ facture' = [facture EXCEPT ![f].statut = "annulee"]
    /\ UNCHANGED <<paiement, avoir, saisie, perime>>

\* The client cancels the expedition: one transaction, invoice row locked.
AnnulerExpedition(f) ==
    /\ facture[f].paye = 0
    /\ facture' = [facture EXCEPT ![f].statut = "annulee"]
    /\ UNCHANGED <<paiement, avoir, saisie, perime>>

-----------------------------------------------------------------------------
(* Second half without a lock: what was computed from the loaded row is    *)
(* written over the row as it now is.                                      *)

Ecrire(a, ligne) ==
    LET r == saisie[a] IN
    /\ facture' = [facture EXCEPT ![r.f] = ligne]
    /\ perime' = [perime EXCEPT ![r.f] = @ \/ facture[r.f] # r.lue]
    /\ saisie' = [saisie EXCEPT ![a] = Disponible]
    /\ UNCHANGED <<paiement, avoir>>

AppliquerRemise(a) ==
    LET r == saisie[a] IN
    /\ r.op = "remise"
    /\ Ecrire(a, [facture[r.f] EXCEPT !.remise = r.montant,
                                      !.total = MontantTotal(r.lue.base, r.montant)])

\* save() writes the columns that differ from the loaded row: not `annulee` again.
AnnulerFacture(a) ==
    LET r == saisie[a] IN
    /\ r.op = "annulation"
    /\ Ecrire(a, [facture[r.f] EXCEPT !.statut =
                     IF r.lue.statut = "annulee" THEN @ ELSE "annulee"])

\* The new price is written without the invoice's own discount.
CorrigerPesee(a) ==
    LET r == saisie[a] IN
    /\ r.op = "pesee"
    /\ Ecrire(a, [facture[r.f] EXCEPT !.base = r.montant,
                                      !.total = MontantTotal(r.montant, 0)])

\* marquerEchoue refuses only `succes`; no step brings a payment back to it.
MarquerEchoue(p) ==
    /\ paiement[p] # Absent
    /\ paiement[p].statut # "succes"
    /\ paiement' = [paiement EXCEPT ![p].statut = "echoue"]
    /\ UNCHANGED <<facture, avoir, saisie, perime>>

\* A check made again fails, the database refuses or the process stops: the
\* transaction is rolled back and the request ends without effect.
RenoncerSaisie(a) ==
    /\ saisie[a] # Disponible
    /\ saisie' = [saisie EXCEPT ![a] = Disponible]
    /\ UNCHANGED <<facture, paiement, avoir, perime>>

-----------------------------------------------------------------------------
CaissierSuivant(a) ==
    \/ Lire(a)
    \/ \E p \in Paiements : Encaisser(a, p)
    \/ \E v \in Avoirs : RembourserParAvoir(a, v) \/ EmettreAvoir(a, v)
    \/ RembourserEtRouvrir(a)
    \/ AppliquerRemise(a)
    \/ AnnulerFacture(a)
    \/ CorrigerPesee(a)
    \/ RenoncerSaisie(a)

NextFactures ==
    \/ \E a \in Caissiers : CaissierSuivant(a)
    \/ \E f \in Factures : AnnulerExpedition(f)
    \/ \E p \in Paiements : MarquerEchoue(p)

SpecFactures == InitFactures /\ [][NextFactures]_varsFactures

-----------------------------------------------------------------------------
(* Properties *)

\* Every row, every request in flight has the shape the code gives it.
TypesFactures ==
    /\ facture \in [Factures -> LigneFacture]
    /\ paiement \in [Paiements -> {Absent} \cup Paiement]
    /\ avoir \in [Avoirs -> {Absent} \cup Avoir]
    /\ saisie \in [Caissiers -> Saisie]
    /\ perime \in [Factures -> BOOLEAN]

Existants(table) == {i \in DOMAIN table : table[i] # Absent}

Reste(p) == paiement[p].montant - paiement[p].rembourse
PaiementsDe(f) == {p \in Existants(paiement) : paiement[p].facture = f}
AvoirsDe(f) == {v \in Existants(avoir) : avoir[v].origine = f}

\* The units of money that the payments of an invoice brought in and that were not given back,
\* and those of its credit notes: their number is a sum, whatever the rows.
UnitesPayees(f) == UNION {{p} \X (1 .. Reste(p)) : p \in PaiementsDe(f)}
UnitesAvoirs(f) == UNION {{v} \X (1 .. avoir[v].montant) : v \in AvoirsDe(f)}

\* The two cumulated amounts of an invoice follow its payments and its credit notes,
\* under any interleaving of requests (enregistrerPaiement, rembourser, emettre):
\* montantPaye is what the payments brought in less what was given back, montantAvoirs
\* the sum of the credit notes; no update of either is lost.
CumulsExacts ==
    \A f \in Factures :
        /\ facture[f].paye = Cardinality(UnitesPayees(f))
        /\ facture[f].avoirs = Cardinality(UnitesAvoirs(f))

\* Two simultaneous refunds never give back more than the payment brought in, and
\* a payment is `rembourse` only when all of it was given back (rembourser).
RemboursementBorne ==
    \A p \in Paiements : paiement[p] # Absent =>
        /\ paiement[p].rembourse <= paiement[p].montant
        /\ paiement[p].statut = "rembourse" => paiement[p].rembourse = paiement[p].montant
        /\ paiement[p].statut = "succes" => paiement[p].rembourse = 0

\* An invoice marked as paid leaves nothing due, unless a discount, a weighing or a
\* cancellation computed from a stale row was written over it.
PayeeSansSolde ==
    \A f \in Factures :
        facture[f].statut = "payee" /\ ~perime[f] => SoldeDu(facture[f]) <= 0

\* A cancelled invoice holds no payment, with the same proviso: a payment and the
\* client's cancellation, both under the lock, cannot cross.
AnnuleeSansReglement ==
    \A f \in Factures :
        facture[f].statut = "annulee" /\ ~perime[f] => facture[f].paye = 0

\* No payment takes in more than is due at the moment it is recorded, whatever
\* happened between the agent's reading of the invoice and the transaction.
PasDeSurPaiement ==
    [][\A f \in Factures :
          facture'[f].paye > facture[f].paye => SoldeDu(facture'[f]) >= 0]_varsFactures

\* A cancelled invoice stays cancelled, unless a stale write put it there: no
\* payment, refund or credit note that crosses the cancellation revives it.
AnnuleeDefinitive ==
    [][\A f \in Factures :
          facture[f].statut = "annulee" /\ ~perime[f] => facture'[f].statut = "annulee"]_varsFactures

-----------------------------------------------------------------------------
(* What the documentation says and the code does not do *)

\* PaiementService: "chaque encaissement met à jour le cumul réglé et fait évoluer le
\* statut de la facture (en attente, puis partiellement payée, puis payée)": the payment
\* that leaves nothing due settles the invoice.
EncaissementSoldeLaFacture ==
    [][\A f \in Factures :
          facture'[f].paye > facture[f].paye /\ SoldeDu(facture'[f]) <= 0
             => facture'[f].statut = "payee"]_varsFactures
=============================================================================
