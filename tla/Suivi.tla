------------------------------- MODULE Suivi -------------------------------
(***************************************************************************)
(* The tracking engine (SuiviService.enregistrerEvenement): every change   *)
(* of a parcel's status, of the point where it is, and of the stock        *)
(* counters of the points.                                                 *)
(*                                                                         *)
(* A call loads the parcel, checks the transition on what it loaded, then  *)
(* opens a transaction that locks the row, reads it again, checks again    *)
(* and writes; between the two, other calls go through.  The decisions of  *)
(* the study and of the client (colisEtude, colisClient, the expiry task)  *)
(* lock the row first and record their event in the same transaction.      *)
(*                                                                         *)
(* A withdrawal code is a Boolean (there is one or there is not); dates,   *)
(* the count of delivery attempts and the wording of the timeline are left *)
(* out.                                                                    *)
(***************************************************************************)
EXTENDS EtatsColis, Integers, FiniteSets

CONSTANTS
    Colis,     \* parcels
    Points,    \* collection points
    NulPart,   \* pointActuelId = null
    Acteurs,   \* concurrent callers of the engine, one call in flight each
    Codes,     \* event codes they send
    Forces     \* `statut` they force, "aucun" when they leave it to the code

VARIABLES
    colis,     \* row of each parcel
    stock,     \* colisEnStock of each point
    requete    \* the call each actor has in flight

vars == <<colis, stock, requete>>

-----------------------------------------------------------------------------
(* Types and assumptions *)

\* Status in which a decision taken under the lock finds the parcel.
Decisions ==
    [VALIDE |-> {"en_attente_validation"},
     DEVIS_PROPOSE |-> {"en_attente_validation", "devis_propose"},
     DEMANDE_REFUSEE |-> {"en_attente_validation", "devis_propose"},
     DEVIS_ACCEPTE |-> {"devis_propose"},
     DEVIS_REFUSE |-> {"devis_propose"},
     ANNULE |-> {"brouillon", "en_attente_validation", "devis_propose", "en_attente",
                 "enlevement_planifie"}]

Inchange == "inchange"   \* pointCollecteId left undefined by the caller
Lieux == Points \cup {NulPart}

ASSUME CodesAssumption == Codes \subseteq DOMAIN StatutInduit
ASSUME ForcesAssumption == Forces \subseteq Statuts \cup {"aucun"}
ASSUME LieuxAssumption == NulPart \notin Points /\ Inchange \notin Lieux
ASSUME ColisAssumption == IsFiniteSet(Colis)

Ligne == [statut : Statuts, point : Lieux, code : BOOLEAN]
Libre == [op |-> "libre"]
Evenement == [op : {"evenement"}, colis : Colis, code : Codes, force : Forces,
              point : Lieux \cup {Inchange}, sansCode : BOOLEAN]

-----------------------------------------------------------------------------
(* What an event does to a row.  A definition that follows the word        *)
(* "Variant" is a plausible slip in the one below it.                      *)

\* Variant: the check made before the transaction is trusted.
PermisSansRelecture(l, r) == TRUE

\* The check made again under the lock.
PermisSousVerrou(l, r) == Permis(l.statut, r.code, r.force)

\* Variant: a point the caller did not give overwrites the one recorded.
PointApresBrut(l, statut, point) ==
    IF statut \in StatutsTerminaux \cup HorsPoint THEN NulPart ELSE point

PointApres(l, statut, point) ==
    IF statut \in StatutsTerminaux \cup HorsPoint THEN NulPart
    ELSE IF point = Inchange THEN l.point ELSE point

\* Variant: a withdrawal code is only created for a parcel that reaches its point.
CodeSelonLePoint(l, code, sansCode) == l.code \/ (code = "DISPO" /\ sansCode /\ l.point # NulPart)

CodeApres(l, code, sansCode) == l.code \/ (code = "DISPO" /\ sansCode)

ApresEvenement(l, code, force, point, sansCode) ==
    LET s == StatutVise(l.statut, code, force) IN
    [statut |-> s, point |-> PointApres(l, s, point), code |-> CodeApres(l, code, sansCode)]

\* Variant: leaving a point for none falls back on the point left, which keeps its count.
StockSiNouveauPoint(de, vers) ==
    [p \in Points |-> IF vers = NulPart \/ de = vers THEN stock[p]
                      ELSE IF p = de /\ stock[p] > 0 THEN stock[p] - 1
                      ELSE IF p = vers THEN stock[p] + 1 ELSE stock[p]]

\* majStockPoints: both counters change in the database, the one left never below 0.
StockApres(de, vers) ==
    [p \in Points |-> IF de = vers THEN stock[p]
                      ELSE IF p = de /\ stock[p] > 0 THEN stock[p] - 1
                      ELSE IF p = vers THEN stock[p] + 1 ELSE stock[p]]

\* The body of the transaction, row locked.
Appliquer(c, code, force, point, sansCode) ==
    LET l == ApresEvenement(colis[c], code, force, point, sansCode) IN
    /\ colis' = [colis EXCEPT ![c] = l]
    /\ stock' = StockApres(colis[c].point, l.point)

-----------------------------------------------------------------------------
(* Initial state: the parcels have just been declared; one to be withdrawn *)
(* at a point already has its code.                                        *)

Init ==
    /\ colis \in [Colis -> [statut : {"en_attente", "en_attente_validation"},
                            point : {NulPart}, code : BOOLEAN]]
    /\ stock = [p \in Points |-> 0]
    /\ requete = [a \in Acteurs |-> Libre]

-----------------------------------------------------------------------------
(* Actions *)

\* The call loads the parcel and checks it, without a lock.
LireEvenement(a, c, code, force, point) ==
    /\ requete[a] = Libre
    /\ Permis(colis[c].statut, code, force)
    /\ requete' = [requete EXCEPT ![a] =
          [op |-> "evenement", colis |-> c, code |-> code, force |-> force, point |-> point,
           sansCode |-> code = "DISPO" /\ ~colis[c].code]]
    /\ UNCHANGED <<colis, stock>>

\* The transaction: the row is read again under its lock; codeRetrait is not.
EnregistrerEvenement(a) ==
    LET r == requete[a] IN
    /\ r # Libre
    /\ PermisSousVerrou(colis[r.colis], r)
    /\ Appliquer(r.colis, r.code, r.force, r.point, r.sansCode)
    /\ requete' = [requete EXCEPT ![a] = Libre]

\* The check fails under the lock, or the transaction is rolled back, or the process
\* stops: nothing was written.
Abandonner(a) ==
    /\ requete[a] # Libre
    /\ requete' = [requete EXCEPT ![a] = Libre]
    /\ UNCHANGED <<colis, stock>>

\* validerDemande, proposerTarif, refuserDemande, accepterProposition,
\* refuserProposition, annulerExpedition, expirerPropositions.
Decider(c, code) ==
    /\ colis[c].statut \in Decisions[code]
    /\ Permis(colis[c].statut, code, "aucun")
    /\ Appliquer(c, code, "aucun", Inchange, FALSE)
    /\ UNCHANGED requete

\* regenererCodeRetrait looks at the status when it loads the row and writes the code
\* later, without a lock: every parcel was open at some time.
RegenererCodeRetrait(c) ==
    /\ colis' = [colis EXCEPT ![c].code = TRUE]
    /\ UNCHANGED <<stock, requete>>

ActeurSuivant(a) ==
    \/ \E c \in Colis, code \in Codes, force \in Forces, point \in Lieux \cup {Inchange} :
          LireEvenement(a, c, code, force, point)
    \/ EnregistrerEvenement(a)
    \/ Abandonner(a)

Next ==
    \/ \E a \in Acteurs : ActeurSuivant(a)
    \/ \E c \in Colis :
          \/ \E code \in DOMAIN Decisions : Decider(c, code)
          \/ RegenererCodeRetrait(c)

Spec == Init /\ [][Next]_vars

-----------------------------------------------------------------------------
(* Properties *)

\* Every row, counter and call has the shape the code gives it.
TypeOK ==
    /\ colis \in [Colis -> Ligne]
    /\ stock \in [Points -> Nat]
    /\ requete \in [Acteurs -> {Libre} \cup Evenement]

\* The stock counter of a point is the number of parcels that are there: two scans of
\* the same parcel, a departure to no point, a decision of the client at the same
\* moment never count a parcel twice nor forget one (majStockPoints).
StockExact ==
    \A p \in Points : stock[p] = Cardinality({c \in Colis : colis[c].point = p})

\* A parcel delivered, withdrawn, returned, cancelled or refused stays so, whatever
\* calls had checked it before.
EtatDefinitif ==
    [][\A c \in Colis :
          colis[c].statut \in StatutsTerminaux => colis'[c].statut = colis[c].statut]_vars

\* A parcel available at its point has a withdrawal code: DISPO creates one when it finds
\* none, "sans quoi n'importe qui pourrait le retirer" (suivi.service.js).  It holds as
\* long as no caller forces the status; with a forced status it does not.
DisponibleAvecCode ==
    \A c \in Colis : colis[c].statut = "disponible_retrait" => colis[c].code

\* The engine implements the carriage: one parcel at a time, forward only, handed over
\* only after it was entrusted, nowhere once closed, exact counts.
Abstrait ==
    INSTANCE Acheminement WITH
        phase <- [c \in Colis |-> PhaseDe(colis[c].statut)],
        lieu <- [c \in Colis |-> colis[c].point],
        compte <- stock

ImplementeAcheminement == Abstrait!Spec
=============================================================================
