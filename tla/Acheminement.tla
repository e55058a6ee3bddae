---------------------------- MODULE Acheminement ----------------------------
(***************************************************************************)
(* What the tracking engine promises, seen from outside: a parcel goes     *)
(* through its phases in one direction only, it is in at most one place,   *)
(* it is nowhere once it is closed, and each collection point counts the   *)
(* parcels that are there.  Suivi implements it.                           *)
(***************************************************************************)
EXTENDS Integers

CONSTANTS
    Colis,     \* parcels
    Points,    \* collection points
    NulPart    \* the place of a parcel that is at no point

VARIABLES
    phase,     \* how far each parcel is
    lieu,      \* the point where each parcel is, or NulPart
    compte     \* number of parcels announced at each point

vars == <<phase, lieu, compte>>

\* A parcel is handed over only once it was entrusted; what is closed stays closed.
PhasesSuivantes ==
    [a_confier |-> {"a_confier", "confie", "sans_suite"},
     confie |-> {"confie", "remis", "retourne", "sans_suite"},
     remis |-> {"remis"},
     retourne |-> {"retourne"},
     sans_suite |-> {"sans_suite"}]

Closes == {"remis", "retourne", "sans_suite"}

Compter(p, l) == IF l = p THEN 1 ELSE 0

Init ==
    /\ phase = [c \in Colis |-> "a_confier"]
    /\ lieu = [c \in Colis |-> NulPart]
    /\ compte = [p \in Points |-> 0]

Avancer(c) ==
    /\ \E ph \in PhasesSuivantes[phase[c]] : phase' = [phase EXCEPT ![c] = ph]
    /\ \E l \in Points \cup {NulPart} : lieu' = [lieu EXCEPT ![c] = l]
    /\ phase'[c] \in Closes => lieu'[c] = NulPart
    /\ compte' = [p \in Points |-> compte[p] + Compter(p, lieu'[c]) - Compter(p, lieu[c])]

Next == \E c \in Colis : Avancer(c)

Spec == Init /\ [][Next]_vars
=============================================================================
