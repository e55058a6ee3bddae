------------------------------- MODULE Grille -------------------------------
(* The price grid of one service on one corridor, as tarif.service.js      *)
(* writes it: a control of overlaps, then the write, without a lock in     *)
(* between; and the audit that declares the grid complete.                 *)
(*                                                                         *)
(* A row is a reach (national, or a zone), a bracket of weights <<min, max>>*)
(* and a period of validity <<first, last>>; its price does not matter     *)
(* here (module Tarification).                                             *)
EXTENDS Integers, FiniteSets, Sequences

CONSTANTS
    Redacteurs, \* requests of administrators, possibly concurrent
    Rangs,      \* identifiers of rows
    Portees,    \* reaches of a row, National among them
    National,
    Tranches,   \* brackets of weights that are entered
    Periodes,   \* periods that are entered, Toujours among them
    Toujours,
    PoidsMax,   \* heaviest weight the service accepts
    Nul

\* What the model takes of its constants.
HypothesesGrille ==
    /\ National \in Portees /\ Toujours \in Periodes
    /\ \A t \in Tranches : t[1] \in Nat /\ t[2] \in Nat /\ t[1] < t[2]
    /\ \E t \in Tranches : \A b \in Tranches : b[2] <= t[2]
    /\ PoidsMax \in Nat /\ IsFiniteSet(Rangs) /\ Nul \notin Rangs

VARIABLES
    grille,      \* rows of the grid: a row, or Nul
    redactions,  \* per request: what it has controlled and is about to write, or Nul
    doublee      \* some write followed a control that another write had outdated

varsGrille == <<grille, redactions, doublee>>

-----------------------------------------------------------------------------
LigneDeGrille(portee, tranche, periode) ==
    [portee |-> portee, tranche |-> tranche, periode |-> periode, actif |-> TRUE]

Presentes == {i \in Rangs : grille[i] # Nul}
Libres == Rangs \ Presentes

\* Brackets overlap beyond a common bound, periods from a common day on.
TranchesSeChevauchent(a, b) == a.tranche[1] < b.tranche[2] /\ b.tranche[1] < a.tranche[2]
PeriodesSeChevauchent(a, b) == a.periode[1] <= b.periode[2] /\ b.periode[1] <= a.periode[2]

Chevauche(a, b) ==
    a.portee = b.portee /\ TranchesSeChevauchent(a, b) /\ PeriodesSeChevauchent(a, b)

\* verifierChevauchement: inactive rows count as well.
SansConflit(ligne, exclu) ==
    \A i \in Presentes \ {exclu} : ~Chevauche(grille[i], ligne)

\* What an update enters: one field, and its new value.
Saisies ==
    [tranche: Tranches] \cup [periode: Periodes] \cup [actif: BOOLEAN]

Modifiee(ligne, saisie) ==
    [champ \in DOMAIN ligne |->
        IF champ \in DOMAIN saisie THEN saisie[champ] ELSE ligne[champ]]

-----------------------------------------------------------------------------
(* Controls: createTarif and creerGrille, updateTarif                      *)

Rediger(r, redaction) ==
    /\ redactions' = [redactions EXCEPT ![r] = redaction]
    /\ UNCHANGED <<grille, doublee>>

\* A row alone has a period; the rows of a whole grid are always valid.
Creer(r) ==
    \E portee \in Portees, lignes \in SUBSET Tranches, periode \in Periodes :
        LET nouvelles == {LigneDeGrille(portee, t, periode) : t \in lignes}
        IN  /\ redactions[r] = Nul
            /\ lignes # {} /\ Cardinality(lignes) <= Cardinality(Libres)
            /\ Cardinality(lignes) > 1 => periode = Toujours
            /\ \A a, b \in nouvelles : a # b => ~TranchesSeChevauchent(a, b)
            /\ \A a \in nouvelles : SansConflit(a, Nul)
            /\ Rediger(r, [genre |-> "creation", lignes |-> nouvelles, depassee |-> FALSE])

\* Switching a row on or off is not controlled.
Controlee(saisie, ligne, i) == DOMAIN saisie = {"actif"} \/ SansConflit(ligne, i)

Modifier(r, i) ==
    \E saisie \in Saisies :
        /\ redactions[r] = Nul
        /\ i \in Presentes
        /\ Modifiee(grille[i], saisie) # grille[i]
        /\ Controlee(saisie, Modifiee(grille[i], saisie), i)
        /\ Rediger(r, [genre |-> "modification", ligne |-> i, saisie |-> saisie,
                       depassee |-> FALSE])

-----------------------------------------------------------------------------
(* Writes                                                                  *)

\* The controls of the other requests were made before this write.
Depasser(r) ==
    [o \in Redacteurs |->
        IF o = r THEN Nul
        ELSE IF redactions[o] = Nul THEN Nul ELSE [redactions[o] EXCEPT !.depassee = TRUE]]

Inserer(r) ==
    /\ redactions[r] # Nul /\ redactions[r].genre = "creation"
    /\ \E rangs \in SUBSET Libres :
           /\ Cardinality(rangs) = Cardinality(redactions[r].lignes)
           /\ \E f \in [rangs -> redactions[r].lignes] :
                 /\ \A i, j \in rangs : i # j => f[i] # f[j]
                 /\ grille' = [i \in Rangs |-> IF i \in rangs THEN f[i] ELSE grille[i]]
    /\ doublee' = (doublee \/ redactions[r].depassee)
    /\ redactions' = Depasser(r)

\* Only the fields of the request are written; a row deleted since is not.
AppliquerModification(r) ==
    LET i == redactions[r].ligne
        ligne == Modifiee(grille[i], redactions[r].saisie)
    IN  /\ redactions[r] # Nul /\ redactions[r].genre = "modification"
        /\ grille' = IF grille[i] = Nul THEN grille ELSE [grille EXCEPT ![i] = ligne]
        /\ doublee' = (doublee \/ redactions[r].depassee)
        /\ redactions' = Depasser(r)

Supprimer(i) ==
    /\ i \in Presentes
    /\ grille' = [grille EXCEPT ![i] = Nul]
    /\ redactions' = Depasser(Nul)
    /\ UNCHANGED doublee

-----------------------------------------------------------------------------
(* Audit                                                                   *)

Actives == {i \in Presentes : grille[i].actif}

\* The active rows, the lightest bracket first.
Tris ==
    {f \in [1 .. Cardinality(Actives) -> Actives] :
        /\ \A j, k \in DOMAIN f : j # k => f[j] # f[k]
        /\ \A j, k \in DOMAIN f : j < k => grille[f[j]].tranche[1] <= grille[f[k]].tranche[1]}

\* An audit that only looks at the two ends of the grid.
SansTrouAuxBornes(f, borne) == TRUE

SansTrou(f, borne) ==
    \A k \in 1 .. Len(f) - 1 :
        (\A j \in 1 .. k : grille[f[j]].tranche[2] < borne) =>
            grille[f[k + 1]].tranche[1] <= grille[f[k]].tranche[2]

\* The bound of a bracket without limit.
Infini == CHOOSE t \in {b[2] : b \in Tranches} : \A b \in Tranches : b[2] <= t

\* auditerGrille with nothing to report.
Conforme ==
    /\ Actives # {}
    /\ \E f \in Tris :
          LET derniere == grille[f[Cardinality(Actives)]]
          IN  /\ grille[f[1]].tranche[1] = 0
              /\ SansTrou(f, Infini)
              /\ derniere.tranche[2] >= PoidsMax

-----------------------------------------------------------------------------
InitGrille ==
    /\ grille = [i \in Rangs |-> Nul]
    /\ redactions = [r \in Redacteurs |-> Nul]
    /\ doublee = FALSE

NextGrille ==
    \/ \E r \in Redacteurs :
          \/ Creer(r)
          \/ \E i \in Rangs : Modifier(r, i)
          \/ Inserer(r) \/ AppliquerModification(r)
    \/ \E i \in Rangs : Supprimer(i)

SpecGrille == InitGrille /\ [][NextGrille]_varsGrille

-----------------------------------------------------------------------------
(* Properties                                                              *)

\* "Deux tranches ne peuvent pas se chevaucher" for the same reach and the same days, whatever
\* sequence of creations, imports and updates, so long as no write came between the control of
\* another and its write; and a grid the audit finds complete, without zones and without dates,
\* prices every weight the service accepts, even when its rows overlap.
GrilleSure ==
    /\ ~doublee => \A i, j \in Presentes : i # j => ~Chevauche(grille[i], grille[j])
    /\ (Conforme /\ \A i \in Actives : grille[i].portee = National /\ grille[i].periode = Toujours)
           => \A poids \in 0 .. PoidsMax :
                 \E i \in Actives : grille[i].tranche[1] <= poids /\ poids <= grille[i].tranche[2]
=============================================================================
