------------------------------ MODULE References ------------------------------
(***************************************************************************)
(* References of the rows.  A declaration inserts its parcel under a       *)
(* tracking number whose rank is the number of parcels that share its base *)
(* (genererNumeroSuiviYobante), tried again when another declaration took  *)
(* it (creerAvecReference); then the documents of the parcel take their    *)
(* numbers from yearly sequences, which a process creates the first time   *)
(* it needs one (creerSequence) and never again once it knows them.        *)
(*                                                                         *)
(* One sequence and one base: the same client, category, container and     *)
(* day.  A rank stands for its suffix, none, B to Z, 27 and beyond, which  *)
(* distinguishes it from the others.                                       *)
(***************************************************************************)
EXTENDS Naturals, FiniteSets

CONSTANTS
    Serveurs,      \* processes
    Actes,         \* declarations, other transactions and rows created alone, in flight
    Tentatives,    \* tentatives of creerAvecReference: 3
    Personne

HypothesesReferences == Tentatives \in Nat \ {0} /\ Personne \notin Actes

VARIABLES
    sequence,   \* who created the sequence, and whether that is committed; Personne: nobody
    valeur,     \* last value of the sequence
    connues,    \* processes for which it exists: sequencesConnues
    trompes,    \* processes that know it from a COMMIT that failed
    lignes,     \* parcels of the base: their rank, their transaction, whether it is committed
    acte        \* what each does

varsReferences == <<sequence, valeur, connues, trompes, lignes, acte>>

Rien == [par |-> Personne, validee |-> FALSE]

\* A declaration; a transaction that takes a number only, an invoice or a credit note; a row
\* created without a transaction.
Sortes == {"declaration", "transaction", "seul"}

Repos ==
    [etat |-> "repos", processus |-> Personne, sorte |-> "seul", apprend |-> FALSE,
     trompe |-> FALSE, numero |-> 0, lu |-> 0, essai |-> 0, croisees |-> {}]

InitReferences ==
    /\ sequence \in {Rien, [par |-> Personne, validee |-> TRUE]}
    /\ valeur = 0
    /\ connues = {}
    /\ trompes = {}
    /\ lignes = {}
    /\ acte = [t \in Actes |-> Repos]

Poursuivre(t, etat) == acte' = [acte EXCEPT ![t].etat = etat]

\* The parcel comes first, then the documents.
Commencer(t, p, sorte) ==
    /\ acte[t].etat = "repos"
    /\ acte' = [acte EXCEPT ![t] = [Repos EXCEPT
          !.etat = IF sorte = "declaration" THEN "compter" ELSE "creer",
          !.processus = p, !.sorte = sorte]]
    /\ UNCHANGED <<sequence, valeur, connues, trompes, lignes>>

-----------------------------------------------------------------------------
(* creerAvecReference *)

\* The number of parcels whose reference starts with the base
Compter(t) ==
    /\ acte[t].etat = "compter"
    /\ acte' = [acte EXCEPT ![t].lu = Cardinality({l \in lignes : l.validee}),
                            ![t].etat = "inserer"]
    /\ UNCHANGED <<sequence, valeur, connues, trompes, lignes>>

\* Variant: the reference is made once, before the attempts.
ReprendreSansCompter(essai) == IF essai < Tentatives THEN "inserer" ELSE "epuise"

\* After a unique violation, another reference as long as attempts remain.
ApresViolation(essai) == IF essai < Tentatives THEN "compter" ELSE "epuise"

\* reference is UNIQUE: the insertion waits for the transaction that holds the same one.
Inserer(t) ==
    LET occupants == {l \in lignes : l.rang = acte[t].lu}
    IN /\ acte[t].etat = "inserer" /\ \A l \in occupants : l.validee
       /\ IF occupants = {}
          THEN /\ lignes' = lignes \cup {[rang |-> acte[t].lu, par |-> t, validee |-> FALSE]}
               /\ Poursuivre(t, "creer")
          ELSE /\ acte' = [acte EXCEPT ![t].essai = @ + 1,
                                       ![t].etat = ApresViolation(acte[t].essai + 1)]
               /\ UNCHANGED lignes
       /\ UNCHANGED <<sequence, valeur, connues, trompes>>

-----------------------------------------------------------------------------
(* prochaineValeur *)

\* Variant: the process remembers the sequence before the transaction ends.
ApprendreAussitot(t) == TRUE

\* Inside a transaction the process learns that the sequence exists after the COMMIT only.
ApprendreDesCreation(t) == acte[t].sorte = "seul"

\* CREATE SEQUENCE IF NOT EXISTS: nothing to do where it is known, it waits where another
\* transaction has created it and is still open.
CreerSequence(t) ==
    LET p == acte[t].processus
        tenue == sequence.par # Personne /\ ~sequence.validee
    IN /\ acte[t].etat = "creer"
       /\ IF p \in connues
          THEN Poursuivre(t, "nextval") /\ UNCHANGED <<sequence, valeur, connues>>
          ELSE IF tenue
          THEN Poursuivre(t, "attendre") /\ UNCHANGED <<sequence, valeur, connues>>
          ELSE /\ IF sequence.validee THEN UNCHANGED <<sequence, valeur>>
                  ELSE /\ sequence' = [par |-> t, validee |-> acte[t].sorte = "seul"]
                       /\ valeur' = 0
               /\ connues' = connues \cup (IF ApprendreDesCreation(t) THEN {p} ELSE {})
               /\ acte' = [acte EXCEPT ![t].etat = "nextval", ![t].apprend = TRUE]
       /\ UNCHANGED <<trompes, lignes>>

\* The other transaction ended: 23505 if it was committed, which is as good as a creation;
\* the statement goes on if it was not.
Reprendre(t) ==
    /\ acte[t].etat = "attendre" /\ (sequence.validee \/ sequence = Rien)
    /\ IF sequence.validee
       THEN connues' = connues \cup {acte[t].processus} /\ Poursuivre(t, "nextval")
       ELSE Poursuivre(t, "creer") /\ UNCHANGED connues
    /\ UNCHANGED <<sequence, valeur, trompes, lignes>>

\* nextval is not transactional; it fails on a sequence that the transaction does not see, and
\* its transaction with it.
Nextval(t) ==
    /\ acte[t].etat = "nextval"
    /\ IF sequence.validee \/ sequence.par = t
       THEN /\ valeur' = valeur + 1
            /\ acte' = [acte EXCEPT
                  ![t].numero = valeur + 1,
                  ![t].etat = IF acte[t].sorte = "seul" THEN "valide" ELSE "inscrit"]
            /\ UNCHANGED lignes
       ELSE /\ acte' = [acte EXCEPT ![t].etat = "introuvable",
                                    ![t].trompe = acte[t].processus \in trompes]
            /\ lignes' = {l \in lignes : l.par # t}
            /\ UNCHANGED valeur
    /\ UNCHANGED <<sequence, connues, trompes>>

-----------------------------------------------------------------------------
(* The end of a transaction, and of a process *)

\* Whether the transaction holds the sequence it has created.
CreeParLui(t) == sequence.par = t /\ ~sequence.validee

\* What the hooks of afterCommit add.
Apprises(t) == IF acte[t].apprend THEN {acte[t].processus} ELSE {}

\* COMMIT, then the hooks; another declaration that is looking for a rank has lost one.
ValiderActe(t) ==
    /\ acte[t].etat = "inscrit"
    /\ sequence' = [sequence EXCEPT !.validee = @ \/ sequence.par = t]
    /\ connues' = connues \cup Apprises(t)
    /\ lignes' = {[l EXCEPT !.validee = @ \/ l.par = t] : l \in lignes}
    /\ acte' = [u \in Actes |->
          IF u = t THEN [acte[u] EXCEPT !.etat = "valide"]
          ELSE IF acte[t].sorte = "declaration" /\ acte[u].etat \in {"compter", "inserer"}
          THEN [acte[u] EXCEPT !.croisees = @ \cup {t}]
          ELSE acte[u]]
    /\ UNCHANGED <<valeur, trompes>>

\* The transaction is undone: the sequence it created and its row go with it.
Defaire(t) ==
    /\ sequence' = IF CreeParLui(t) THEN Rien ELSE sequence
    /\ lignes' = {l \in lignes : l.par # t}
    /\ Poursuivre(t, "annule")
    /\ UNCHANGED valeur

\* The COMMIT itself fails, and the hooks of Sequelize run all the same: the process remembers
\* a sequence that may have gone with the transaction.
ValiderEnEchec(t) ==
    /\ acte[t].etat = "inscrit"
    /\ connues' = connues \cup Apprises(t)
    /\ trompes' = trompes \cup (IF CreeParLui(t) THEN Apprises(t) ELSE {})
    /\ Defaire(t)

\* A later step fails, or the process stops: its transactions are undone.
Annuler(t) ==
    /\ acte[t].etat \in {"compter", "inserer", "creer", "attendre", "nextval", "inscrit"}
    /\ Defaire(t)
    /\ UNCHANGED <<connues, trompes>>

Finis == {"repos", "epuise", "introuvable", "valide", "annule"}

\* The process starts again: what it knew, it asks again.
RelancerServeur(p) ==
    /\ \A t \in Actes : acte[t].processus = p => acte[t].etat \in Finis
    /\ connues' = connues \ {p}
    /\ trompes' = trompes \ {p}
    /\ UNCHANGED <<sequence, valeur, lignes, acte>>

NextReferences ==
    \/ \E p \in Serveurs : RelancerServeur(p)
    \/ \E t \in Actes :
          \/ \E p \in Serveurs, sorte \in Sortes : Commencer(t, p, sorte)
          \/ Compter(t) \/ Inserer(t)
          \/ CreerSequence(t) \/ Reprendre(t) \/ Nextval(t)
          \/ ValiderActe(t) \/ ValiderEnEchec(t) \/ Annuler(t)

SpecReferences == InitReferences /\ [][NextReferences]_varsReferences

-----------------------------------------------------------------------------
(* Properties *)

\* A process that knows a sequence never asks for one that a rollback took away, unless it has
\* it from a COMMIT that failed, the limit that apresCommit admits, and this until it starts
\* again; the numbers and the ranks of committed rows are distinct, whatever transactions are
\* undone; and a declaration gives up for want of a reference only after Tentatives others took
\* theirs while it was looking for one.
ReferencesSures ==
    /\ connues \ trompes # {} => sequence.validee
    /\ \A t \in Actes :
          /\ acte[t].etat = "introuvable" => acte[t].trompe
          /\ acte[t].etat = "epuise" => Cardinality(acte[t].croisees) >= Tentatives
    /\ \A t, u \in Actes :
          t # u /\ acte[t].etat = "valide" /\ acte[u].etat = "valide" =>
              acte[t].numero # acte[u].numero
    /\ \A l, m \in lignes : l.rang = m.rang => l = m
=============================================================================
