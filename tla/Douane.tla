------------------------------- MODULE Douane -------------------------------
(***************************************************************************)
(* The customs declaration of an international parcel: its articles, the   *)
(* duties estimated from them, its clearance.  No handler locks the        *)
(* declaration: each reads it, awaits, and writes the columns that differ  *)
(* from what it read.                                                      *)
(***************************************************************************)
EXTENDS Naturals, FiniteSetsExt

CONSTANTS
    Declarants,     \* requests in flight
    Articles,       \* articles, each the value of its line
    ValeurDeclaree, \* value given with the order
    Franchise       \* franchise_douaniere_xof: a value that bears no duties

\* What the model takes of its constants.
HypothesesDouane == Articles \subseteq Nat /\ {ValeurDeclaree, Franchise} \subseteq Nat

VARIABLES
    declaration,    \* motif (motifExport), valeur (valeurTotale), droits (basis of the estimate)
    statut,         \* where its clearance stands
    articles,       \* articles listed
    saisies,        \* requests in flight
    melee,          \* auxiliary: two requests that change the estimate have overlapped
    estimee         \* auxiliary: recalculerEstimation has run, once at least

varsDouane == <<declaration, statut, articles, saisies, melee, estimee>>

Cloturees == {"dedouanee", "refusee"}

TRANSITIONS(s) ==
    CASE s = "brouillon" -> {"soumise"}
      [] s = "soumise"   -> {"en_cours", "bloquee", "refusee"}
      [] s = "en_cours"  -> {"dedouanee", "bloquee", "refusee"}
      [] s = "bloquee"   -> {"en_cours", "dedouanee", "refusee"}
      [] OTHER           -> {}

Inactive == [etape |-> "libre"]

Motifs == {"marchandise", "document"}

\* calculerDroitsDouane: the lines bear the duties, and the value the taxes; documents and what
\* the franchise covers bear none.
Droits(lignes, valeur, motif) ==
    IF motif = "document" \/ valeur <= Franchise THEN <<>> ELSE <<lignes, valeur>>

\* The estimate of the quote, from the value declared, in the currency of the quote.
DuDevis == <<"devis">>

\* The customs declaration opened with the parcel: the articles given with the order are listed,
\* and its value and its estimate stay those of the order.
InitDouane ==
    /\ declaration = [motif |-> "marchandise", valeur |-> ValeurDeclaree, droits |-> DuDevis]
    /\ statut = "brouillon"
    /\ articles \in SUBSET Articles
    /\ saisies = [r \in Declarants |-> Inactive]
    /\ melee = FALSE /\ estimee = FALSE

Saisit(r, etape) == saisies[r].etape = etape
Passer(r, suite) == saisies' = [saisies EXCEPT ![r] = suite]

-----------------------------------------------------------------------------
(* The articles and the estimate *)

Changement(nature, motifs, lignes) ==
    [nature : {nature}, motif : motifs, lignes : lignes]

Singletons(S) == {{x} : x \in S}

\* updateDeclaration, definirArticles, ajouterArticle: a closed declaration is refused.
Modifications ==
    IF statut \in Cloturees THEN {}
    ELSE Changement("motif", Motifs, {{}})
         \cup Changement("definir", {declaration.motif}, SUBSET Articles \ {{}})
         \cup Changement("ajouter", {declaration.motif}, Singletons(Articles \ articles))

\* supprimerArticle asks nothing of the status.
Retraits == Changement("supprimer", {declaration.motif}, Singletons(articles))

\* chargerDeclaration: the row as this request will see it to the end.
Charger(r, demande) ==
    /\ saisies[r] = Inactive
    /\ Passer(r, [etape |-> "ecrire", demande |-> demande, lue |-> declaration])
    /\ melee' = (melee \/ \E s \in Declarants : saisies[s] # Inactive)
    /\ UNCHANGED <<declaration, statut, articles, estimee>>

\* The change asked for: the instance in memory follows the row.
EcrireDemande(r) ==
    LET q == saisies[r]
        d == q.demande
    IN /\ Saisit(r, "ecrire")
       /\ articles' = CASE d.nature = "definir"   -> d.lignes
                        [] d.nature = "ajouter"   -> articles \cup d.lignes
                        [] d.nature = "supprimer" -> articles \ d.lignes
                        [] OTHER                  -> articles
       /\ declaration' = IF d.motif # q.lue.motif
                            THEN [declaration EXCEPT !.motif = d.motif] ELSE declaration
       /\ Passer(r, [etape |-> "relire", lue |-> [q.lue EXCEPT !.motif = d.motif]])
       /\ UNCHANGED <<statut, melee, estimee>>

\* Variant: the value of the order stands as long as it was given.
ValeurRetenueDeLaCommande(lignes, valeur) == IF valeur > 0 THEN valeur ELSE SumSet(lignes)

\* valeurTotale || declaration.valeurTotale: the lines prevail over the value of the order, if
\* they are worth something.
ValeurRetenue(lignes, valeur) == IF SumSet(lignes) # 0 THEN SumSet(lignes) ELSE valeur

\* recalculerEstimation reads the articles, then writes what differs from the instance.
RelireArticles(r) ==
    LET q == saisies[r]
        v == ValeurRetenue(articles, q.lue.valeur)
    IN /\ Saisit(r, "relire")
       /\ Passer(r, [etape |-> "recalculer", lue |-> q.lue, valeur |-> v,
                     droits |-> Droits(articles, v, q.lue.motif)])
       /\ UNCHANGED <<declaration, statut, articles, melee, estimee>>

Recalculer(r) ==
    LET q == saisies[r]
    IN /\ Saisit(r, "recalculer")
       /\ declaration' = [declaration EXCEPT
             !.valeur = IF q.valeur = q.lue.valeur THEN @ ELSE q.valeur,
             !.droits = IF q.droits = q.lue.droits THEN @ ELSE q.droits]
       /\ Passer(r, Inactive) /\ estimee' = TRUE
       /\ UNCHANGED <<statut, articles, melee>>

-----------------------------------------------------------------------------
(* The clearance *)

Deposable(suivant) == suivant = "soumise" => articles # {}

\* changerStatut: the transition and, for a filing, the articles; then the row.
LireStatut(r) ==
    /\ saisies[r] = Inactive
    /\ \E suivant \in TRANSITIONS(statut) :
          /\ Deposable(suivant)
          /\ Passer(r, [etape |-> "changer_statut", statut |-> suivant])
    /\ UNCHANGED <<declaration, statut, articles, melee, estimee>>

ChangerStatut(r) ==
    /\ Saisit(r, "changer_statut")
    /\ statut' = saisies[r].statut
    /\ Passer(r, Inactive)
    /\ UNCHANGED <<declaration, articles, melee, estimee>>

\* A request fails, or its process stops, between two writes.
Interrompre(r) ==
    /\ saisies[r] # Inactive
    /\ melee' = (melee \/ saisies[r].etape \in {"relire", "recalculer"})
    /\ Passer(r, Inactive)
    /\ UNCHANGED <<declaration, statut, articles, estimee>>

NextDouane ==
    \E r \in Declarants :
       \/ \E demande \in Modifications \cup Retraits : Charger(r, demande)
       \/ EcrireDemande(r) \/ RelireArticles(r) \/ Recalculer(r)
       \/ LireStatut(r) \/ ChangerStatut(r) \/ Interrompre(r)

SpecDouane == InitDouane /\ [][NextDouane]_varsDouane

-----------------------------------------------------------------------------
(* Properties *)

\* "Le total des articles fait foi : il remplace la valeur globale saisie à la commande": from the
\* first change of the declaration on, and once the requests that overlapped or stopped half way
\* are set aside, the value and the duties are those of its lines and of its reason.
EstimationSuit ==
    LET calme == /\ estimee /\ ~melee
                 /\ \A r \in Declarants :
                       saisies[r].etape \in {"libre", "ecrire", "changer_statut"}
    IN calme => /\ SumSet(articles) # 0 => declaration.valeur = SumSet(articles)
                /\ declaration.droits = Droits(articles, declaration.valeur, declaration.motif)

\* "Une déclaration clôturée ne peut plus être modifiée"
Figee == <<articles, declaration>>' # <<articles, declaration>> => statut \notin Cloturees
DeclarationFigee == [][Figee]_<<articles, declaration>>
=============================================================================
