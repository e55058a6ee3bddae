------------------------------- MODULE MCGestion ------------------------------
(***************************************************************************)
(* The engine and the rules that decide what a parcel costs and when it    *)
(* arrives, on small instances: the tracking engine with its refinement,   *)
(* the invoice with its payments, refunds and credit notes, the customs    *)
(* declaration, the price grid, the quote, the delivery date, and the      *)
(* requests of a sponsored client.  They share no row in these instances:  *)
(* the run explores their sum, not their product.                          *)
(*                                                                         *)
(* `partie` names the part that moves.  The engine, the invoice, the       *)
(* declaration and the grid keep their own variables, which rest while     *)
(* another part moves; x1, x2... are those of the others, in the order of  *)
(* their declarations.                                                     *)
(***************************************************************************)
EXTENDS Suivi, Facturation, Douane, Grille, TLC

CONSTANTS r1, r2, n1, n2, c1, p, f1, e1, zDakar, Parties, Requetes,
          Parametres, Services, Tarifs, SurchargesAuto, GrilleArticles, Demandes, Credits,
          Depots, ServicesDelai, Supplements, Feries, Recurrents, Annee, DelaiSur,
          Comptes, Filleuls, Parrain, Expeditions, Client, Emballages, Evenements, NonSuivi,
          Gain, CreditMax, StockMax

VARIABLES partie, x1, x2, x3, x4, x5, x6, x7, x8, x9

reste3 == <<x3, x4, x5, x6, x7, x8, x9>>
reste2 == <<x2, x3, x4, x5, x6, x7, x8, x9>>
registres == <<x1, x2, x3, x4, x5, x6, x7, x8, x9>>

Sans3 == x3 = Nul /\ x4 = Nul /\ x5 = Nul /\ x6 = Nul /\ x7 = Nul /\ x8 = Nul /\ x9 = Nul
Sans2 == x2 = Nul /\ Sans3
Sans1 == x1 = Nul /\ Sans2

T == INSTANCE Tarification WITH credit <- x1, devis <- x2
L == INSTANCE Delais WITH estimation <- x1
P == INSTANCE Demandes WITH
         credit <- x1, recompense <- x2, stock <- x3, colis <- x4, requete <- x5,
         aExpirer <- x6, dotation <- x7, accorde <- x8, recompenses <- x9,
         Colis <- Expeditions, Codes <- Evenements

ASSUME HypothesesGestion ==
    /\ HypothesesDouane /\ HypothesesGrille /\ T!Hypotheses /\ L!Hypotheses /\ P!Hypotheses

Repos ==
    /\ colis = [c \in Colis |-> [statut |-> "en_attente", point |-> NulPart, code |-> FALSE]]
    /\ stock = [pt \in Points |-> 0]
    /\ requete = [a \in Acteurs |-> Libre]

FacturesAuRepos == InitFactures /\ \A fa \in Factures : facture[fa].base = 1

\* The variables that a part does not need are empty.
Depart ==
    /\ partie \in Parties
    /\ IF partie = "suivi" THEN Init ELSE Repos
    /\ IF partie = "factures" THEN InitFactures ELSE FacturesAuRepos
    /\ InitDouane /\ InitGrille
    /\ partie # "douane" => articles = {}
    /\ \/ partie \in {"suivi", "factures", "douane", "grille"} /\ Sans1
       \/ partie = "tarification" /\ T!Init /\ Sans3
       \/ partie = "delais" /\ L!Init /\ Sans2
       \/ partie = "parrainage" /\ P!Init

protocoles == <<vars, varsFactures, varsDouane, varsGrille>>

Seule(nom, autres) == partie = nom /\ UNCHANGED <<partie, autres>>

Suite ==
    \/ Seule("suivi", <<varsFactures, varsDouane, varsGrille, registres>>) /\ Next
    \/ Seule("factures", <<vars, varsDouane, varsGrille, registres>>) /\ NextFactures
    \/ Seule("douane", <<vars, varsFactures, varsGrille, registres>>) /\ NextDouane
    \/ Seule("grille", <<vars, varsFactures, varsDouane, registres>>) /\ NextGrille
    \/ Seule("tarification", <<protocoles, reste3>>) /\ T!Next
    \/ Seule("delais", <<protocoles, reste2>>) /\ L!Next
    \/ Seule("parrainage", protocoles) /\ P!Next

SpecParties == Depart /\ [][Suite]_<<partie, protocoles, registres>>

X == INSTANCE DonneesTarif

-----------------------------------------------------------------------------
(* The engine: one code for each status that an event induces, those with a rule of their *)
(* own, and an informative one.                                                           *)

MCColis == {c1}
MCPoints == {n1, n2}
MCActeurs == {r1, r2}
MCCodes == {"VALIDE", "ENL_PROG", "ENL_OK", "DEPOT", "TRI", "DEPART_HUB", "DOUANE_IMP",
            "ARR_AGENCE", "DISPO", "EN_LIVRAISON", "LIVRE", "RETIRE", "REFUSE", "RETOUR", "INFO"}

-----------------------------------------------------------------------------
(* An invoice, two payments and two credit notes, two members of staff *)

MCFactures == {f1}

-----------------------------------------------------------------------------
(* The rules *)

MCParametres == X!MCParametres
MCServices == X!MCServices
MCTarifs == X!MCTarifs
MCSurcharges == X!MCSurcharges
MCArticles == X!MCArticles
MCDemandes == X!MCDemandes

\* Brackets that overlap, meet and are apart; the first half of the year, and
\* all of it.
MCTranches == {<<0, 2>>, <<2, 99>>, <<4, 6>>}
MCPeriodes == {<<1, 1>>, <<1, 2>>}
MCToujours == <<1, 2>>

\* The spring of 2026: Easter Monday, Ascension, Whit Monday; 4 April, 1 and 8
\* May every year.  The last service is the sea freight of the seeds.
MCDepots == 70 .. 110
MCFeries == {85, 123, 134}
MCRecurrents == {94, 121, 128}
MCServicesDelai ==
    {[min |-> 0, max |-> 0, ouvres |-> TRUE], [min |-> 3, max |-> 5, ouvres |-> TRUE],
     [min |-> 10, max |-> 20, ouvres |-> FALSE], [min |-> 20, max |-> 30, ouvres |-> TRUE]}

\* A sponsor, and a client he referred, who has two requests.
MCComptes == {p, f1}
MCFilleuls == {f1}
MCParrain == [u \in {f1} |-> p]
MCClient == [c \in {n1, n2} |-> f1]
MCEmballages == {e1}

\* n1 and n2 stand for points, for payments and credit notes, for prices or for parcels,
\* according to the part.
Symetrie == Permutations({r1, r2}) \cup Permutations({n1, n2})

-----------------------------------------------------------------------------
(* Properties *)

OffreJuste == partie = "tarification" => T!OffreJuste
DelaiCourtTenu == partie = "delais" => L!DelaiCourtTenu
DelaiTenu == partie = "delais" => L!DelaiTenu
\* What a request reserved is given back or used, and its reward follows the parcel.
ReservationsConservees ==
    partie = "parrainage" => P!ReservationsConservees /\ P!RecompenseFidele
=============================================================================
