------------------------------ MODULE Rotation ------------------------------
(***************************************************************************)
(* Rotations: the containers and flights that parcels are loaded on, and   *)
(* whose milestones are propagated to the parcels aboard.                  *)
(*                                                                         *)
(* Several members of staff load, unload and move a rotation on at the     *)
(* same time.  Each request loads the rotation and checks it, then writes: *)
(* loading and unloading in a transaction that locks the rotation's row,   *)
(* a milestone with an UPDATE conditioned on the status it had read.  The  *)
(* tracking events that follow are recorded parcel by parcel, each in its  *)
(* own transaction, and their failures are swallowed.                      *)
(*                                                                         *)
(* The load is counted in parcels: weight is the same check and the same   *)
(* update on a second pair of columns.  A parcel's corridor, the hubs and  *)
(* the manifest number are left out.                                       *)
(***************************************************************************)
EXTENDS EtatsColis, Integers, FiniteSets

CONSTANTS
    Cargaison,           \* parcels of the rotations' corridor
    Rotations,       \* containers and flights
    ATerre,          \* rotationId = null
    Agents,          \* members of staff, one request in flight each
    CapaciteColis,   \* declared capacity of each rotation, in parcels
    CodesAilleurs    \* events that other services record on the parcels

VARIABLES
    rotation,        \* row of each rotation
    bord,            \* rotationId of each parcel
    statut,          \* status of each parcel
    manoeuvre          \* the request each agent has in flight

varsRotations == <<rotation, bord, statut, manoeuvre>>

-----------------------------------------------------------------------------
(* Types and assumptions *)

Ouvertes == {"planifiee", "ouverte"}
StatutsEmbarquables == {"receptionne", "en_preparation"}

TransitionsRotation ==
    [planifiee |-> {"ouverte", "annulee"},
     ouverte |-> {"cloturee", "annulee"},
     cloturee |-> {"en_transit", "ouverte", "annulee"},
     en_transit |-> {"arrivee"},
     arrivee |-> {"en_douane", "dechargee"},
     en_douane |-> {"dechargee"},
     dechargee |-> {},
     annulee |-> {}]

StatutsRotation == DOMAIN TransitionsRotation

\* Event that a milestone propagates to the parcels aboard.
EvenementDuJalon ==
    [en_transit |-> "DEPART_HUB", arrivee |-> "ARR_PAYS",
     en_douane |-> "DOUANE_IMP", dechargee |-> "ARR_AGENCE"]

\* What the model takes of its constants.
HypothesesRotations ==
    /\ IsFiniteSet(Cargaison)
    /\ ATerre \notin Rotations
    /\ CapaciteColis \in [Rotations -> Nat \ {0}]
    /\ CodesAilleurs \subseteq DOMAIN StatutInduit

LigneRotation == [statut : StatutsRotation, nb : Nat]

SansManoeuvre == [op |-> "libre"]
ReqLot == [op : {"chargement", "dechargement"}, rot : Rotations, lot : SUBSET Cargaison]
ReqJalon == [op : {"jalon", "jalonEcrit", "compteurs"}, rot : Rotations, lu : StatutsRotation,
             cible : StatutsRotation, vide : BOOLEAN]
ReqEvenements == [op : {"evenements"}, rot : Rotations, code : DOMAIN StatutInduit,
                  reste : SUBSET Cargaison]
Requete == {SansManoeuvre} \cup ReqLot \cup ReqJalon \cup ReqEvenements

-----------------------------------------------------------------------------
(* Helpers.  A definition that follows the word "Variant" is a plausible   *)
(* slip in the one below it.                                               *)

Passagers(r) == {c \in Cargaison : bord[c] = r}

\* UPDATE ... WHERE rotationId IS NULL: another loading may have taken some.
EncoreLibres(lot) == {c \in lot : bord[c] = ATerre}

\* Variant: the capacity checked before the transaction is trusted.
TientALaLecture(r, n) == n \in Nat

TientDansLaCapacite(r, n) == rotation[r].nb + n <= CapaciteColis[r]

\* Variant: the milestone is written whatever the status has become.
EncoreAuStatutLuToujours(q) == q.rot \in Rotations

\* UPDATE ... WHERE statut = the status read
EncoreAuStatutLu(q) == rotation[q.rot].statut = q.lu

AuMoinsZero(n) == IF n < 0 THEN 0 ELSE n

\* Variant: the count is reduced by what was asked for, not by what was taken off.
CompteSelonLaDemande(q, retires) == rotation[q.rot].nb - Cardinality(q.lot)

CompteApresRetrait(q, retires) == AuMoinsZero(rotation[q.rot].nb - Cardinality(retires))

Poser(a, q) == manoeuvre' = [manoeuvre EXCEPT ![a] = q]

-----------------------------------------------------------------------------
(* Initial state: planned rotations, parcels received or being sorted.     *)

InitRotations ==
    /\ rotation = [r \in Rotations |-> [statut |-> "planifiee", nb |-> 0]]
    /\ bord = [c \in Cargaison |-> ATerre]
    /\ statut \in [Cargaison -> StatutsEmbarquables]
    /\ manoeuvre = [a \in Agents |-> SansManoeuvre]

-----------------------------------------------------------------------------
(* Loading and unloading *)

LireChargement(a, r, lot) ==
    /\ manoeuvre[a] = SansManoeuvre
    /\ rotation[r].statut \in Ouvertes
    /\ lot \subseteq {c \in Cargaison : bord[c] = ATerre /\ statut[c] \in StatutsEmbarquables}
    /\ TientDansLaCapacite(r, Cardinality(lot))
    /\ Poser(a, [op |-> "chargement", rot |-> r, lot |-> lot])
    /\ UNCHANGED <<rotation, bord, statut>>

\* Under the row lock; the rotation's status is not looked at again.
ChargerColis(a) ==
    LET q == manoeuvre[a]
        pris == EncoreLibres(q.lot)
        n == Cardinality(pris)
    IN
    /\ q.op = "chargement"
    /\ TientDansLaCapacite(q.rot, n)
    /\ bord' = [c \in Cargaison |-> IF c \in pris THEN q.rot ELSE bord[c]]
    /\ rotation' = [rotation EXCEPT
          ![q.rot].nb = @ + n,
          ![q.rot].statut = IF @ = "planifiee" THEN "ouverte" ELSE @]
    /\ Poser(a, [op |-> "evenements", rot |-> q.rot, code |-> "MANIFESTE", reste |-> pris])
    /\ UNCHANGED statut

LireDechargement(a, r, lot) ==
    /\ manoeuvre[a] = SansManoeuvre
    /\ rotation[r].statut \in Ouvertes
    /\ lot \subseteq Passagers(r)
    /\ lot # {}
    /\ Poser(a, [op |-> "dechargement", rot |-> r, lot |-> lot])
    /\ UNCHANGED <<rotation, bord, statut>>

DechargerColis(a) ==
    LET q == manoeuvre[a]
        retires == q.lot \cap Passagers(q.rot)
    IN
    /\ q.op = "dechargement"
    /\ bord' = [c \in Cargaison |-> IF c \in retires THEN ATerre ELSE bord[c]]
    /\ rotation' = [rotation EXCEPT ![q.rot].nb = CompteApresRetrait(q, retires)]
    /\ Poser(a, SansManoeuvre)
    /\ UNCHANGED statut

-----------------------------------------------------------------------------
(* Milestones *)

LireJalon(a, r, cible) ==
    /\ manoeuvre[a] = SansManoeuvre
    /\ cible \in TransitionsRotation[rotation[r].statut]
    /\ cible = "cloturee" => rotation[r].nb # 0
    /\ Poser(a, [op |-> "jalon", rot |-> r, lu |-> rotation[r].statut, cible |-> cible,
                 vide |-> rotation[r].nb = 0])
    /\ UNCHANGED <<rotation, bord, statut>>

EcrireJalon(a) ==
    LET q == manoeuvre[a] IN
    /\ q.op = "jalon"
    /\ EncoreAuStatutLu(q)
    /\ rotation' = [rotation EXCEPT ![q.rot].statut = q.cible]
    /\ Poser(a, IF q.cible \in DOMAIN EvenementDuJalon \cup {"annulee"}
                THEN [q EXCEPT !.op = "jalonEcrit"] ELSE SansManoeuvre)
    /\ UNCHANGED <<bord, statut>>

\* The parcels to notify are those aboard when the list is read, after the UPDATE.
ListerPassagers(a) ==
    LET q == manoeuvre[a] IN
    /\ q.op = "jalonEcrit"
    /\ q.cible # "annulee"
    /\ Poser(a, [op |-> "evenements", rot |-> q.rot, code |-> EvenementDuJalon[q.cible],
                 reste |-> Passagers(q.rot)])
    /\ UNCHANGED <<rotation, bord, statut>>

\* Cancellation: the parcels are put ashore, then the counters are reset.
DebarquerTous(a) ==
    LET q == manoeuvre[a] IN
    /\ q.op = "jalonEcrit"
    /\ q.cible = "annulee"
    /\ bord' = [c \in Cargaison |-> IF bord[c] = q.rot THEN ATerre ELSE bord[c]]
    /\ Poser(a, [q EXCEPT !.op = "compteurs"])
    /\ UNCHANGED <<rotation, statut>>

\* save() leaves out the columns that were 0 already in the copy it read.
RemettreCompteurs(a) ==
    LET q == manoeuvre[a] IN
    /\ q.op = "compteurs"
    /\ rotation' = [rotation EXCEPT ![q.rot].nb = IF q.vide THEN @ ELSE 0]
    /\ Poser(a, SansManoeuvre)
    /\ UNCHANGED <<bord, statut>>

-----------------------------------------------------------------------------
(* Tracking events, parcel by parcel *)

\* The engine records the event, or refuses it and the refusal is swallowed.
PropagerJalon(a, c) ==
    LET q == manoeuvre[a] IN
    /\ q.op = "evenements"
    /\ c \in q.reste
    /\ \/ /\ Permis(statut[c], q.code, "aucun")
          /\ statut' = [statut EXCEPT ![c] = StatutVise(@, q.code, "aucun")]
       \/ UNCHANGED statut
    /\ Poser(a, [q EXCEPT !.reste = @ \ {c}])
    /\ UNCHANGED <<rotation, bord>>

Repondre(a) ==
    /\ manoeuvre[a].op = "evenements"
    /\ manoeuvre[a].reste = {}
    /\ Poser(a, SansManoeuvre)
    /\ UNCHANGED <<rotation, bord, statut>>

\* An event of another service: the counter, customs, the client's cancellation.
EvenementAilleurs(c, code) ==
    /\ Permis(statut[c], code, "aucun")
    /\ statut' = [statut EXCEPT ![c] = StatutVise(@, code, "aucun")]
    /\ UNCHANGED <<rotation, bord, manoeuvre>>

\* The request is refused at its second check, or the process stops: what is committed
\* stays, the rest is never done.
AbandonnerManoeuvre(a) ==
    /\ manoeuvre[a] # SansManoeuvre
    /\ Poser(a, SansManoeuvre)
    /\ UNCHANGED <<rotation, bord, statut>>

AgentSuivant(a) ==
    \/ \E r \in Rotations, lot \in SUBSET Cargaison :
          LireChargement(a, r, lot) \/ LireDechargement(a, r, lot)
    \/ ChargerColis(a)
    \/ DechargerColis(a)
    \/ \E r \in Rotations, cible \in StatutsRotation : LireJalon(a, r, cible)
    \/ EcrireJalon(a)
    \/ ListerPassagers(a)
    \/ DebarquerTous(a)
    \/ RemettreCompteurs(a)
    \/ \E c \in Cargaison : PropagerJalon(a, c)
    \/ Repondre(a)
    \/ AbandonnerManoeuvre(a)

NextRotations ==
    \/ \E a \in Agents : AgentSuivant(a)
    \/ \E c \in Cargaison, code \in CodesAilleurs : EvenementAilleurs(c, code)

SpecRotations == InitRotations /\ [][NextRotations]_varsRotations

-----------------------------------------------------------------------------
(* Properties *)

\* Every row and request has the shape the code gives it.
TypeRotations ==
    /\ rotation \in [Rotations -> LigneRotation]
    /\ bord \in [Cargaison -> Rotations \cup {ATerre}]
    /\ statut \in [Cargaison -> Statuts]
    /\ manoeuvre \in [Agents -> Requete]

\* The counter of a rotation that was not cancelled is the number of parcels aboard,
\* and they fit in it, whatever loadings of the same parcels, on this rotation or
\* another, and of its last places cross each other.
ChargementJuste ==
    \A r \in Rotations :
        rotation[r].statut # "annulee" =>
            /\ rotation[r].nb = Cardinality(Passagers(r))
            /\ rotation[r].nb <= CapaciteColis[r]

\* A milestone is propagated by one request only: clients are not notified twice.
PropagationUnique ==
    \A a, b \in Agents :
        /\ manoeuvre[a].op = "evenements"
        /\ manoeuvre[b].op = "evenements"
        /\ manoeuvre[a].rot = manoeuvre[b].rot
        /\ manoeuvre[a].code = manoeuvre[b].code
        /\ manoeuvre[a].code # "MANIFESTE"
        => a = b
=============================================================================
