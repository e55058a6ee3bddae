------------------------------- MODULE Taches -------------------------------
(***************************************************************************)
(* The scheduled tasks, jobs/taches.js: every process wakes up at its      *)
(* start and then every hour, and reserves the slot of the hour, then that *)
(* of the day, by a conditional UPDATE; the one that obtains a slot runs   *)
(* its tasks one after the other.  Processes stop and start again at any   *)
(* instant, between a reservation and its tasks as well.                   *)
(*                                                                         *)
(* Time passes in units; tasks are short, it does not pass while they run. *)
(* One request to study, one proposal and one overdue invoice stand for    *)
(* the rows the tasks look for.                                            *)
(***************************************************************************)
EXTENDS Integers, FiniteSets

CONSTANTS
    Processus,
    HEURE,               \* HEURE_MS, the period of the timers and the window of the alert
    PERIODE_HORAIRE,     \* PERIODE_HORAIRE_MS, how old the last slot must be
    Jour,                \* units in a day
    HEURE_QUOTIDIENNE,   \* from when the tasks of the day run
    PannesMax            \* bound on the stops and on the tasks that fail

\* What the model takes of its constants.
HypothesesTaches ==
    /\ HEURE \in Nat /\ PERIODE_HORAIRE \in 1 .. HEURE - 1
    /\ HEURE <= 2 * PERIODE_HORAIRE        \* 55 minutes of 60
    /\ HEURE_QUOTIDIENNE \in 0 .. Jour - 1
    /\ PannesMax \in Nat

VARIABLES
    horloge,     \* time of the day
    age,         \* time since derniereExecution of taches_horaires, up to HEURE
    faitCeJour,  \* derniereExecution of taches_quotidiennes is of today
    attente,     \* per process: time before its timer fires
    travail,     \* per process: what it is about to do
    retard,      \* time since the deadline of the study, up to HEURE; -1 before
    alertes,     \* alerts sent for this study
    proposition, \* the proposal: ouverte, echue, close
    relances,    \* reminders of the invoice sent today
    pannes       \* stops and failures so far

varsTaches == <<horloge, age, faitCeJour, attente, travail, retard, alertes, proposition, relances,
          pannes>>

Etapes == {"repos", "expirer", "alerter", "quotidien", "relancer", "arrete"}

InitTaches ==
    /\ horloge \in {0, HEURE_QUOTIDIENNE}
    /\ age = HEURE
    /\ faitCeJour = FALSE
    /\ attente = [p \in Processus |-> 0]
    /\ travail = [p \in Processus |-> "repos"]
    /\ retard = -1 /\ alertes = 0
    /\ proposition = "ouverte"
    /\ relances = 0
    /\ pannes = 0

Plafonner(t) == IF t >= HEURE THEN HEURE ELSE t

EnTravail(p) == travail[p] \notin {"repos", "arrete"}
Du(p) == travail[p] = "repos" /\ attente[p] = 0

\* Time passes between the timers.
Avancer ==
    /\ \A p \in Processus : ~EnTravail(p) /\ ~Du(p)
    /\ horloge' = (horloge + 1) % Jour
    /\ age' = Plafonner(age + 1)
    /\ attente' = [p \in Processus |-> IF travail[p] = "arrete" THEN 0 ELSE attente[p] - 1]
    /\ retard' = IF retard = -1 THEN -1 ELSE Plafonner(retard + 1)
    /\ IF horloge' = 0 THEN faitCeJour' = FALSE /\ relances' = 0
       ELSE UNCHANGED <<faitCeJour, relances>>
    /\ UNCHANGED <<travail, alertes, proposition, pannes>>

Echoir ==
    \/ /\ retard = -1 /\ retard' = 0
       /\ UNCHANGED <<horloge, age, faitCeJour, attente, travail, alertes, proposition, relances,
                      pannes>>
    \/ /\ proposition = "ouverte" /\ proposition' = "echue"
       /\ UNCHANGED <<horloge, age, faitCeJour, attente, travail, retard, alertes, relances,
                      pannes>>

-----------------------------------------------------------------------------
(* tic *)

Passer(p, etape) == travail' = [travail EXCEPT ![p] = etape]

\* UPDATE ... WHERE derniereExecution < now - PERIODE_HORAIRE
CreneauLibre == age > PERIODE_HORAIRE

\* Variant: the row is written at each passage, whoever holds the slot.
AgeReecrit(a) == 0

\* The age of the slot once a process has tried to reserve it.
AgeApres(a) == IF CreneauLibre THEN 0 ELSE a

Tic(p) ==
    /\ Du(p)
    /\ attente' = [attente EXCEPT ![p] = HEURE]
    /\ age' = AgeApres(age)
    /\ Passer(p, IF CreneauLibre THEN "expirer" ELSE "quotidien")
    /\ UNCHANGED <<horloge, faitCeJour, retard, alertes, proposition, relances, pannes>>

\* The proposals past their date; then the studies that became late within the hour.
ExpirerPropositions(p) ==
    /\ travail[p] = "expirer"
    /\ proposition' = IF proposition = "echue" THEN "close" ELSE proposition
    /\ Passer(p, "alerter")
    /\ UNCHANGED <<horloge, age, faitCeJour, attente, retard, alertes, relances, pannes>>

AlerterEtudesEnRetard(p) ==
    /\ travail[p] = "alerter"
    /\ alertes' = IF retard \in 0 .. HEURE - 1 THEN alertes + 1 ELSE alertes
    /\ Passer(p, "quotidien")
    /\ UNCHANGED <<horloge, age, faitCeJour, attente, retard, proposition, relances, pannes>>

\* Variant: the slot of the day is taken by each process that passes.
JourToujoursLibre == horloge >= HEURE_QUOTIDIENNE

\* From eight o'clock on, UPDATE ... WHERE derniereExecution < debutDuJour
JourLibre == horloge >= HEURE_QUOTIDIENNE /\ ~faitCeJour

ReserverLeJour(p) ==
    /\ travail[p] = "quotidien"
    /\ faitCeJour' = (faitCeJour \/ JourLibre)
    /\ Passer(p, IF JourLibre THEN "relancer" ELSE "repos")
    /\ UNCHANGED <<horloge, age, attente, retard, alertes, proposition, relances, pannes>>

RelancerFacturesEchues(p) ==
    /\ travail[p] = "relancer"
    /\ relances' = relances + 1
    /\ Passer(p, "repos")
    /\ UNCHANGED <<horloge, age, faitCeJour, attente, retard, alertes, proposition, pannes>>

-----------------------------------------------------------------------------
(* Failures *)

TacheSuivante == [expirer |-> "alerter", alerter |-> "quotidien", relancer |-> "repos"]

\* A task that fails is logged, the next one runs.
EchouerTache(p) ==
    /\ travail[p] \in DOMAIN TacheSuivante /\ pannes < PannesMax
    /\ Passer(p, TacheSuivante[travail[p]])
    /\ pannes' = pannes + 1
    /\ UNCHANGED <<horloge, age, faitCeJour, attente, retard, alertes, proposition, relances>>

\* The database refuses or does not answer a reservation, written or not: the error ends the
\* passage, and the timer fires again an hour later.
EchouerTic(p) ==
    /\ pannes < PannesMax
    /\ \/ /\ Du(p)
          /\ attente' = [attente EXCEPT ![p] = HEURE]
          /\ age' \in {age, AgeApres(age)}
          /\ UNCHANGED <<travail, faitCeJour>>
       \/ /\ travail[p] = "quotidien" /\ horloge >= HEURE_QUOTIDIENNE
          /\ faitCeJour' \in {faitCeJour, TRUE}
          /\ Passer(p, "repos")
          /\ UNCHANGED <<age, attente>>
    /\ pannes' = pannes + 1
    /\ UNCHANGED <<horloge, retard, alertes, proposition, relances>>

\* A slot that was reserved stays reserved.
Arreter(p) ==
    /\ travail[p] # "arrete" /\ pannes < PannesMax
    /\ Passer(p, "arrete")
    /\ attente' = [attente EXCEPT ![p] = 0]
    /\ pannes' = pannes + 1
    /\ UNCHANGED <<horloge, age, faitCeJour, retard, alertes, proposition, relances>>

\* demarrerTaches: one passage at once.
Redemarrer(p) ==
    /\ travail[p] = "arrete"
    /\ Passer(p, "repos")
    /\ UNCHANGED <<horloge, age, faitCeJour, attente, retard, alertes, proposition, relances,
                   pannes>>

Travailler(p) ==
    Tic(p) \/ ExpirerPropositions(p) \/ AlerterEtudesEnRetard(p)
           \/ ReserverLeJour(p) \/ RelancerFacturesEchues(p)

NextTaches ==
    \/ Avancer \/ Echoir
    \/ \E p \in Processus :
          \/ Travailler(p)
          \/ EchouerTache(p) \/ EchouerTic(p)
          \/ Arreter(p) \/ Redemarrer(p)

\* Time passes and the timers fire; stopped processes are started again by their supervisor.
EquiteTaches ==
    /\ WF_varsTaches(Avancer)
    /\ \A p \in Processus : WF_varsTaches(Travailler(p)) /\ WF_varsTaches(Redemarrer(p))

SpecTaches == InitTaches /\ [][NextTaches]_varsTaches /\ EquiteTaches

-----------------------------------------------------------------------------
(* Properties *)

\* However many processes wake up, fail, stop and start: an overdue invoice is reminded at
\* most once a day, and a late study is signalled at most twice, which is all that slots
\* fifty-five minutes apart give over a window of an hour (reserver, alerterEtudesEnRetard).
TachesUneFois == relances <= 1 /\ alertes <= 2

\* What the comment of alerterEtudesEnRetard says, taches.js:67-69: "la fenetre d'une heure,
\* egale a la periodicite de la tache, fait que chaque demande n'est signalee qu'une fois".
EtudeSignaleeUneFois == alertes <= 1

\* A proposal past its date is closed in the end, although the process that reserves the slot
\* may stop before its tasks: the rows are found again at the next slot.
Echue == proposition = "echue"
Close == proposition = "close"
PropositionCloturee == Echue ~> Close
=============================================================================
