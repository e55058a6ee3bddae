------------------------------- MODULE Delais -------------------------------
(* The delivery date of utils/delais.js: days are numbered, day 0 being a  *)
(* Sunday; an estimate is what calculerDateLivraisonEstimee answers for a  *)
(* day and an hour of deposit and a service.                               *)
EXTENDS Integers, FiniteSetsExt

CONSTANTS
    Depots,        \* days of deposit
    ServicesDelai, \* delays of the services: minimum, maximum, working days only
    Supplements,   \* extra days of the delivery zone
    Feries,        \* dated holidays of the two countries
    Recurrents,    \* holidays of every year
    Annee,         \* days in a year
    DelaiSur,      \* delays of at most so many working days end in the window
    Nul            \* no estimate yet

\* What the model takes of its constants.
Hypotheses ==
    /\ Annee \in Nat \ {0}
    /\ \A s \in ServicesDelai : s.min \in Nat /\ s.max \in Nat

VARIABLE estimation  \* the last estimate given

Weekend(jour) == jour % 7 \in {0, 6}

\* Dated holidays of the window only; recurrent ones of each of its years.
JoursFeries(debut, fin) ==
    (Feries \cap debut .. fin)
        \cup {a * Annee + (f % Annee) : f \in Recurrents, a \in (debut \div Annee) .. (fin \div Annee)}

\* A day neither of a week-end nor of a set of holidays.
Ouvre(jour, feries) == ~Weekend(jour) /\ jour \notin feries

\* The first working day after a day.
LendemainOuvre(veille, feries) ==
    Min({j \in veille + 1 .. veille + 30 : Ouvre(j, feries)})

AjouterJoursOuvres(depart, nb, feries) ==
    FoldSet(LAMBDA k, jour: LendemainOuvre(jour, feries), depart, 1 .. nb)

\* A window that stops with the delay.
FinFenetreCourte(depot, delai) == depot + delai

\* Holidays are looked for up to three weeks after the delay.
FinFenetre(depot, delai) == depot + delai + 21

\* A deposit after the hour limit, or on a day off, leaves the next working day.
Depart(depot, avantHeure, feries) ==
    IF avantHeure /\ Ouvre(depot, feries) THEN depot ELSE AjouterJoursOuvres(depot, 1, feries)

Ajouter(s, depart, nb, feries) ==
    IF s.ouvres THEN AjouterJoursOuvres(depart, nb, feries) ELSE depart + nb

CalculerDateLivraisonEstimee(s, depot, avantHeure, supplement) ==
    LET delai == s.max + supplement
        feries == JoursFeries(depot, FinFenetre(depot, delai))
        depart == Depart(depot, avantHeure, feries)
    IN  [service |-> s, depot |-> depot, avantHeure |-> avantHeure, delai |-> delai,
         estimee |-> Ajouter(s, depart, delai, feries),
         auPlusTot |-> Ajouter(s, depart, s.min + supplement, feries)]

-----------------------------------------------------------------------------
Init == estimation = Nul

Estimer(s, depot, avantHeure, supplement) ==
    /\ estimation = Nul
    /\ estimation' = CalculerDateLivraisonEstimee(s, depot, avantHeure, supplement)

Next ==
    \E s \in ServicesDelai, depot \in Depots, avantHeure \in BOOLEAN, supplement \in Supplements :
        Estimer(s, depot, avantHeure, supplement)

Spec == Init /\ [][Next]_estimation

-----------------------------------------------------------------------------
(* Properties                                                              *)

TousFeries == Feries \cup {a * Annee + (f % Annee) : f \in Recurrents, a \in 0 .. 4}

Tenu(e) ==
    LET attendus == e.delai + (IF e.avantHeure /\ Ouvre(e.depot, TousFeries) THEN 0 ELSE 1)
    IN  /\ Cardinality({j \in e.depot + 1 .. e.estimee : Ouvre(j, TousFeries)}) = attendus
        /\ attendus > 0 => Ouvre(e.estimee, TousFeries)
        /\ e.auPlusTot <= e.estimee

\* A service in working days delivers on a working day, after exactly as many
\* working days as its delay and its zone's (one more when the deposit is too
\* late or on a day off), for the delays whose journey stays in the window of
\* holidays the code loads.
DelaiCourtTenu ==
    (estimation # Nul /\ estimation.service.ouvres /\ estimation.delai <= DelaiSur)
        => Tenu(estimation)

\* The same for every delay: delais.js leaves out "week-ends et jours fériés".
DelaiTenu == (estimation # Nul /\ estimation.service.ouvres) => Tenu(estimation)
=============================================================================
