---------------------------- MODULE ArrierePlan ----------------------------
(***************************************************************************)
(* The background queue of outgoing messages (utils/arrierePlan.js): one   *)
(* lane per channel, each with LIMITE calls in flight and a queue of       *)
(* MAX_FILE, retries planned outside the lane, and vider(), which the      *)
(* shutdown of the server waits for.                                       *)
(*                                                                         *)
(* The process has one thread: an action is what runs between two returns  *)
(* to the event loop.  The end of a call takes two: the handler of its     *)
(* result (catch), then the release of its place (finally), with other     *)
(* callbacks possibly in between.  Timers only run once every finally has. *)
(*                                                                         *)
(* Durations are left out: a timer fires at any time.  The content of the  *)
(* messages and the logs are left out.                                     *)
(***************************************************************************)
EXTENDS Naturals, Sequences, FiniteSets

CONSTANTS
    Envois,        \* messages, each entrusted once to the queue
    Voies,         \* lanes: email, push, whatsapp
    VoieDe,        \* lane of each message
    VoiesFiables,  \* lanes whose every call ends, in success or in error
    Limite,        \* LIMITE: calls in flight in a lane
    MaxFile,       \* MAX_FILE: messages that wait in a lane
    Tentatives     \* attempts allowed for each message

VARIABLES
    file,          \* queue of each lane
    actifs,        \* places taken in each lane
    etat,          \* where each message is: neuf, en_file, en_cours, reessai, or a Finis
    reste,         \* attempts left to each message
    aLiberer,      \* messages whose call is over and whose finally has not run
    reessais,      \* reessaisPlanifies
    arret          \* shutdown: marche, vidange, vide, delai_depasse, mort

vars == <<file, actifs, etat, reste, aLiberer, reessais, arret>>

\* What the model takes of its constants.
Hypotheses ==
    /\ IsFiniteSet(Envois)
    /\ VoieDe \in [Envois -> Voies] /\ VoiesFiables \subseteq Voies
    /\ Limite \in Nat \ {0} /\ MaxFile \in Nat \ {0}
    /\ Tentatives \in [Envois -> Nat \ {0}]

Finis == {"remis", "echoue", "abandonne"}
EnMarche == {"marche", "vidange"}

-----------------------------------------------------------------------------
(* Helpers.  A definition that follows the word "Variant" is a plausible   *)
(* slip in the one below it.                                               *)

\* Variant: one message too many waits.
FilePleineTropTard(v) == Len(file[v]) > MaxFile

FilePleine(v) == Len(file[v]) >= MaxFile

\* Number of messages that pomper takes from queue f when n places are taken.
Departs(f, n) == IF Limite - n < Len(f) THEN Limite - n ELSE Len(f)

\* pomper, on queue f with n places taken and the messages in the states e.
Pomper(v, f, n, e) ==
    LET k == Departs(f, n)
        partis == {f[i] : i \in 1..k}
    IN
    /\ file' = [file EXCEPT ![v] = SubSeq(f, k + 1, Len(f))]
    /\ actifs' = [actifs EXCEPT ![v] = n + k]
    /\ etat' = [m \in Envois |-> IF m \in partis THEN "en_cours" ELSE e[m]]

\* lancer
Deposer(m) ==
    LET v == VoieDe[m] IN
    IF FilePleine(v)
    THEN /\ etat' = [etat EXCEPT ![m] = "abandonne"]
         /\ UNCHANGED <<file, actifs>>
    ELSE Pomper(v, Append(file[v], m), actifs[v], [etat EXCEPT ![m] = "en_file"])

\* Variant: a place is given back, and the lane waits for the next message to go on.
LibererSansPomper(v) ==
    /\ actifs' = [actifs EXCEPT ![v] = @ - 1]
    /\ UNCHANGED <<file, etat>>

\* finally: the place is given back and the next messages leave.
Liberer(v) == Pomper(v, file[v], actifs[v] - 1, etat)

\* Variant: the retries that wait for their timer are forgotten.
OccupationDesVoies(f, n, r) == \E v \in Voies : n[v] # 0 \/ f[v] # <<>>

\* occupation: something is in flight, waits or is to be retried.
Occupation(f, n, r) == r # 0 \/ \E v \in Voies : n[v] # 0 \/ f[v] # <<>>

\* signalerSiVide
Signaler == arret' = IF arret = "vidange" /\ ~Occupation(file', actifs', reessais')
                     THEN "vide" ELSE arret

-----------------------------------------------------------------------------
(* Initial state *)

Init ==
    /\ file = [v \in Voies |-> <<>>]
    /\ actifs = [v \in Voies |-> 0]
    /\ etat = [m \in Envois |-> "neuf"]
    /\ reste = Tentatives
    /\ aLiberer = {}
    /\ reessais = 0
    /\ arret = "marche"

-----------------------------------------------------------------------------
(* Actions *)

\* A request entrusts a message; those that are not over yet still do during the drain.
Lancer(m) ==
    /\ arret \in EnMarche
    /\ etat[m] = "neuf"
    /\ Deposer(m)
    /\ UNCHANGED <<reste, aLiberer, reessais, arret>>

\* The call ends: sent; or failed for good, and surEchec is called.
Terminer(m, issue) ==
    /\ arret \in EnMarche
    /\ etat[m] = "en_cours"
    /\ etat' = [etat EXCEPT ![m] = issue]
    /\ aLiberer' = aLiberer \cup {m}
    /\ UNCHANGED <<file, actifs, reste, reessais, arret>>

\* The call fails, the error is transient and attempts are left.
PlanifierReessai(m) ==
    /\ arret \in EnMarche
    /\ etat[m] = "en_cours"
    /\ reste[m] > 1
    /\ etat' = [etat EXCEPT ![m] = "reessai"]
    /\ reste' = [reste EXCEPT ![m] = @ - 1]
    /\ reessais' = reessais + 1
    /\ aLiberer' = aLiberer \cup {m}
    /\ UNCHANGED <<file, actifs, arret>>

Finir(m) ==
    /\ arret \in EnMarche
    /\ m \in aLiberer
    /\ aLiberer' = aLiberer \ {m}
    /\ Liberer(VoieDe[m])
    /\ UNCHANGED <<reste, reessais>>
    /\ Signaler

\* The timer of a retry fires: it goes to the end of its queue, or is dropped if it is full.
Reessayer(m) ==
    /\ arret \in EnMarche
    /\ aLiberer = {}
    /\ etat[m] = "reessai"
    /\ reessais' = reessais - 1
    /\ Deposer(m)
    /\ UNCHANGED <<reste, aLiberer>>
    /\ Signaler

\* The shutdown calls vider, which returns at once or waits.
Vider ==
    /\ arret = "marche"
    /\ arret' = IF Occupation(file, actifs, reessais) THEN "vidange" ELSE "vide"
    /\ UNCHANGED <<file, actifs, etat, reste, aLiberer, reessais>>

\* vider's own timer, or the forced stop.
DepasserDelai ==
    /\ arret = "vidange"
    /\ aLiberer = {}
    /\ arret' = "delai_depasse"
    /\ UNCHANGED <<file, actifs, etat, reste, aLiberer, reessais>>

\* The process is killed: the queue is not durable.
Mourir ==
    /\ arret \in EnMarche
    /\ arret' = "mort"
    /\ UNCHANGED <<file, actifs, etat, reste, aLiberer, reessais>>

FinAppel(m) == PlanifierReessai(m) \/ \E issue \in {"remis", "echoue"} : Terminer(m, issue)

Next ==
    \/ \E m \in Envois : Lancer(m) \/ FinAppel(m) \/ Finir(m) \/ Reessayer(m)
    \/ Vider
    \/ DepasserDelai
    \/ Mourir

\* The event loop runs what is ready and the timers fire; the calls of a reliable lane end.
Equite ==
    /\ \A m \in Envois : WF_vars(Finir(m)) /\ WF_vars(Reessayer(m))
    /\ \A m \in {n \in Envois : VoieDe[n] \in VoiesFiables} : WF_vars(FinAppel(m))

Spec == Init /\ [][Next]_vars /\ Equite

-----------------------------------------------------------------------------
(* Properties *)

\* The bounds of the lanes, whatever the retries that come back to them and the order in
\* which the calls end: MAX_FILE messages wait, Limite calls are really in flight.
VoiesBornees ==
    \A v \in Voies :
        /\ Len(file[v]) <= MaxFile
        /\ Cardinality({m \in Envois : VoieDe[m] = v /\ etat[m] = "en_cours"}) <= Limite

\* When vider answers that all is over, no message entrusted to the queue is pending, not
\* even one between two attempts.
VidangeFidele ==
    arret' = "vide" /\ arret # "vide" => \A m \in Envois : etat'[m] \in {"neuf"} \cup Finis

\* The lanes keep their bounds, and the queue is over when it says so.
FileTenue == [][VoiesBornees' /\ VidangeFidele]_vars

\* Every message entrusted to a reliable lane is sent, fails for good or is dropped for lack
\* of room, unless the process stops: neither retries nor a lane whose provider is silent
\* hold it for ever.
Confie(m) == VoieDe[m] \in VoiesFiables /\ etat[m] # "neuf"
Denoue(m) == etat[m] \in Finis \/ arret \notin EnMarche
ToutEnvoiAboutit == \A m \in Envois : Confie(m) ~> Denoue(m)
=============================================================================
