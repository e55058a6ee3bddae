------------------------------ MODULE Receptions ------------------------------
(***************************************************************************)
(* Receptions of files by one process, limiterReceptions: at most          *)
(* MAX_RECEPTIONS together, since each is kept in memory; the next ones    *)
(* wait in a queue, until a place is released, the client leaves or the    *)
(* delay runs out.  A place is released by the end of the answer or by its *)
(* closing, and both events come.                                          *)
(***************************************************************************)
EXTENDS Integers, Sequences, FiniteSets, SequencesExt

CONSTANTS
    Televersements,    \* requests that carry files
    MAX_RECEPTIONS

HypothesesReceptions == IsFiniteSet(Televersements) /\ MAX_RECEPTIONS \in Nat \ {0}

VARIABLES
    receptionsEnCours,   \* the counter
    enAttente,           \* the queue
    envoi                \* per request: where it is

varsReceptions == <<receptionsEnCours, enAttente, envoi>>

InitReceptions ==
    /\ receptionsEnCours = 0
    /\ enAttente = <<>>
    /\ envoi = [q \in Televersements |-> "absent"]

Arriver(q) ==
    /\ envoi[q] = "absent"
    /\ IF receptionsEnCours < MAX_RECEPTIONS
       THEN /\ receptionsEnCours' = receptionsEnCours + 1
            /\ envoi' = [envoi EXCEPT ![q] = "recue"]
            /\ UNCHANGED enAttente
       ELSE /\ enAttente' = Append(enAttente, q)
            /\ envoi' = [envoi EXCEPT ![q] = "attend"]
            /\ UNCHANGED receptionsEnCours

\* libererPlace: the place is given back, then taken by the first that waits.
LibererPlace(q, etat) ==
    IF enAttente = <<>>
    THEN /\ receptionsEnCours' = receptionsEnCours - 1
         /\ envoi' = [envoi EXCEPT ![q] = etat]
         /\ UNCHANGED enAttente
    ELSE /\ enAttente' = Tail(enAttente)
         /\ envoi' = [envoi EXCEPT ![q] = etat, ![Head(enAttente)] = "recue"]
         /\ UNCHANGED receptionsEnCours

\* Finish: the answer is sent.
Repondre(q) ==
    /\ envoi[q] = "recue"
    /\ LibererPlace(q, "finie")

\* Variant: the place is released by each of the two events.
LibereAChaqueFois(q) == TRUE

\* Only the first of the two events releases the place.
Libere(q) == envoi[q] = "recue"

\* Close: after the answer, or before it when the client leaves.
Fermer(q) ==
    /\ envoi[q] \in {"recue", "finie"}
    /\ IF Libere(q) THEN LibererPlace(q, "absent")
       ELSE envoi' = [envoi EXCEPT ![q] = "absent"] /\ UNCHANGED <<receptionsEnCours, enAttente>>

\* The client leaves while he waits, or has waited ATTENTE_MAX_MS and is answered 503.
Quitter(q) ==
    /\ envoi[q] = "attend"
    /\ \E i \in DOMAIN enAttente : enAttente[i] = q /\ enAttente' = RemoveAt(enAttente, i)
    /\ envoi' = [envoi EXCEPT ![q] = "absent"]
    /\ UNCHANGED receptionsEnCours

NextReceptions == \E q \in Televersements : Arriver(q) \/ Repondre(q) \/ Fermer(q) \/ Quitter(q)

SpecReceptions == InitReceptions /\ [][NextReceptions]_varsReceptions

-----------------------------------------------------------------------------
(* Properties *)

\* However answers, closings, departures and delays cross: the counter is the number of
\* receptions in memory, which never exceeds the limit, and nobody waits while a place is free.
ReceptionsBornees ==
    /\ receptionsEnCours = Cardinality({q \in Televersements : envoi[q] = "recue"})
    /\ receptionsEnCours <= MAX_RECEPTIONS
    /\ enAttente # <<>> => receptionsEnCours = MAX_RECEPTIONS
    /\ ToSet(enAttente) = {q \in Televersements : envoi[q] = "attend"} /\ IsInjective(enAttente)
=============================================================================
