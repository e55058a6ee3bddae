----------------------------- MODULE StockPoints -----------------------------
(***************************************************************************)
(* The management of the collection points over the tracking engine: the   *)
(* transfer of a point's stock to another one (transfererStock) and the    *)
(* deactivation of a point (togglePoint), while events keep coming.        *)
(*                                                                         *)
(* The transfer loads both points, then runs in one transaction, at        *)
(* PostgreSQL's default isolation: it counts the parcels of the source     *)
(* without locking them, moves those that are there at the UPDATE (their   *)
(* rows stay locked until the commit), writes 0 in the source's counter    *)
(* unless the copy it loaded was 0 already (save() then finds no change)   *)
(* and adds to the destination's the number it had counted.                *)
(* The points of the model are in one country.  pointRetraitId, which the  *)
(* transfer also rewrites, is not modelled.                                *)
(***************************************************************************)
EXTENDS Suivi

CONSTANT StockMax   \* bound on the counter a transfer leaves: crossed transfers make it drift

\* What the model takes of its constants.
Hypotheses == StockMax \in Nat

VARIABLES
    actif,     \* isActive of each point
    gestion,   \* the administrator's request in flight
    croise     \* auxiliary: the stock changed while a transfer was in flight

varsPoints == <<colis, stock, requete, actif, gestion, croise>>

Aucune == [op |-> "aucune"]
Transfert == [op : {"lu", "compte", "deplace"}, de : Points, vers : Points,
              aZero : BOOLEAN, nb : Nat, vus : SUBSET Colis, pris : SUBSET Colis]
Desactivation == [op : {"desactivation"}, de : Points]

Presents(p) == {c \in Colis : colis[c].point = p}

\* Rows that the transaction in flight holds locked.
Verrouilles == IF gestion.op = "deplace" THEN gestion.pris ELSE {}

InitPoints ==
    /\ Init
    /\ actif = [p \in Points |-> TRUE]
    /\ gestion = Aucune
    /\ croise = FALSE

-----------------------------------------------------------------------------
(* The engine, held off the rows that the transfer has locked *)

Engin ==
    /\ Next
    /\ \A c \in Verrouilles : colis'[c] = colis[c]
    /\ croise' = (croise \/ (gestion # Aucune /\ \E c \in Colis : colis'[c].point # colis[c].point))
    /\ UNCHANGED <<actif, gestion>>

-----------------------------------------------------------------------------
(* transfererStock *)

LireTransfert(de, vers) ==
    /\ gestion = Aucune
    /\ de # vers
    /\ actif[vers]
    /\ gestion' = [op |-> "lu", de |-> de, vers |-> vers, aZero |-> stock[de] = 0,
                   nb |-> 0, vus |-> {}, pris |-> {}]
    /\ UNCHANGED <<colis, stock, requete, actif, croise>>

CompterTransfert ==
    /\ gestion.op = "lu"
    /\ gestion' = [gestion EXCEPT !.op = "compte", !.vus = Presents(gestion.de),
                                  !.nb = Cardinality(Presents(gestion.de))]
    /\ UNCHANGED <<colis, stock, requete, actif, croise>>

\* Variant: the parcels that were counted are moved, wherever they are now.
ADeplacerDeLaListe(g) == g.vus

\* UPDATE ... WHERE pointActuelId = source
ADeplacer(g) == Presents(g.de)

DeplacerTransfert ==
    /\ gestion.op = "compte"
    /\ gestion' = [gestion EXCEPT !.op = "deplace", !.pris = ADeplacer(gestion)]
    /\ UNCHANGED <<colis, stock, requete, actif, croise>>

StockTransfere(g) ==
    [stock EXCEPT ![g.vers] = @ + g.nb, ![g.de] = IF g.aZero THEN @ ELSE 0]

AcheverTransfert ==
    /\ gestion.op = "deplace"
    /\ colis' = [c \in Colis |-> IF c \in gestion.pris
                                 THEN [colis[c] EXCEPT !.point = gestion.vers] ELSE colis[c]]
    /\ stock' = StockTransfere(gestion)
    /\ stock'[gestion.vers] <= StockMax
    /\ gestion' = Aucune
    /\ UNCHANGED <<requete, actif, croise>>

\* The request fails, or the process stops: the transaction is rolled back.
AbandonnerGestion ==
    /\ gestion # Aucune
    /\ gestion' = Aucune
    /\ UNCHANGED <<colis, stock, requete, actif, croise>>

-----------------------------------------------------------------------------
(* togglePoint *)

\* On a point inactive already, update() finds no change and writes nothing.
LireDesactivation(p) ==
    /\ gestion = Aucune
    /\ actif[p]
    /\ stock[p] = 0
    /\ gestion' = [op |-> "desactivation", de |-> p]
    /\ UNCHANGED <<colis, stock, requete, actif, croise>>

Desactiver ==
    /\ gestion.op = "desactivation"
    /\ actif' = [actif EXCEPT ![gestion.de] = FALSE]
    /\ gestion' = Aucune
    /\ UNCHANGED <<colis, stock, requete, croise>>

Activer(p) ==
    /\ actif' = [actif EXCEPT ![p] = TRUE]
    /\ UNCHANGED <<colis, stock, requete, gestion, croise>>

NextPoints ==
    \/ Engin
    \/ \E de, vers \in Points : LireTransfert(de, vers)
    \/ CompterTransfert
    \/ DeplacerTransfert
    \/ AcheverTransfert
    \/ AbandonnerGestion
    \/ \E p \in Points : LireDesactivation(p) \/ Activer(p)
    \/ Desactiver

SpecPoints == InitPoints /\ [][NextPoints]_varsPoints

-----------------------------------------------------------------------------
(* Properties *)

\* Every point and request in flight has the shape the code gives it.
TypePointsOK ==
    /\ TypeOK
    /\ actif \in [Points -> BOOLEAN]
    /\ gestion \in {Aucune} \cup Transfert \cup Desactivation
    /\ croise \in BOOLEAN

\* Transfers that no movement of parcels crosses keep the counters exact, one after the
\* other, with events in between; crossed or not, a parcel handed over, closed, at sea or
\* with the courier is at no point, even when the point it was leaving is being emptied.
TransfertExact ==
    /\ ~croise => StockExact
    /\ \A c \in Colis :
          colis[c].statut \in StatutsTerminaux \cup HorsPoint => colis[c].point = NulPart
=============================================================================
