----------------------------- MODULE ColisProofs -----------------------------
(***************************************************************************)
(* Proofs about the parts of the life of a parcel that MCColis explores,   *)
(* for any number of requests, rows, processes and amounts.  One section   *)
(* per part: claims, numbers of documents, declarations, caches, files,    *)
(* reviews, territory, timeline.  Each section gives the strengthening of  *)
(* its property that every step keeps, the lemmas of the steps, one per    *)
(* operation, and the theorem.                                             *)
(***************************************************************************)
EXTENDS Reclamations, References, Declaration, Caches, Fichiers, Evaluations, Territoire, Dossier,
        TLAPS, FiniteSetTheorems

-----------------------------------------------------------------------------
(***************************************************************************)
(* Claims.                                                                 *)
(*                                                                         *)
(* That a closing decision compensates a claim once is not inductive.  The *)
(* invariant adds that a decision being written is the only one on its     *)
(* claim (the lock of the row), that the status of the claim still allows  *)
(* it (no answer is written meanwhile), and that a claim compensated by a  *)
(* decision has the status that this one gave it, or is closed for good.   *)
(***************************************************************************)

StatutsReclamation == {Absente, "ouverte", "en_cours", "attente_client"} \cup Closes

Traitement ==
    {Inactive}
    \cup [etape : {"ouvrir"}, colis : Expeditions]
    \cup [etape : {"repondre"}, dossier : Dossiers,
          statut : {"en_cours", "attente_client"}]
    \cup [etape : {"decider"}, dossier : Dossiers, decision : Decisions, montant : Nat,
          inscrit : BOOLEAN]
    \cup [etape : {"indemniser"}, dossier : Dossiers, decision : Decisions, montant : Nat,
          inscrit : BOOLEAN, impute : BOOLEAN]

TypeOK ==
    /\ reclamation \in [Dossiers -> [statut : StatutsReclamation, colis : Expeditions \cup {Nul},
                                     accorde : Nat]]
    /\ avoirs \in [Dossiers -> [nombre : Nat, par : [Closes -> Nat], total : Nat]]
    /\ compense \in [Expeditions -> Nat]
    /\ traitement \in [Requetes -> Traitement]

\* The row of a claim is locked by one decision, which its status allows.
VerrouExclusif ==
    \A r, s \in Requetes :
        /\ EnAttente(r, "indemniser") /\ EnAttente(s, "indemniser")
        /\ traitement[r].dossier = traitement[s].dossier
        => r = s

DecisionPermise ==
    \A r \in Requetes : EnAttente(r, "indemniser") =>
        traitement[r].decision \in TRANSITIONS(Statut(traitement[r].dossier))

\* What the closing decisions granted, in the account p of a claim of status x.
CompteDe(p, x) ==
    /\ \A s \in Closes : p[s] <= 1 /\ (p[s] = 1 => x \in {s, "cloturee"})
    /\ p["resolue"] = 0 \/ p["rejetee"] = 0

ComptesJustes == \A d \in Dossiers : CompteDe(avoirs[d].par, Statut(d))

CompenseBorne == \A c \in Expeditions : compense[c] <= TotalFacture

IInv == TypeOK /\ VerrouExclusif /\ DecisionPermise /\ ComptesJustes /\ CompenseBorne

-----------------------------------------------------------------------------
(* Requests *)

LEMMA RequeteLue ==
    ASSUME TypeOK, NEW r \in Requetes
    PROVE  /\ EnAttente(r, "ouvrir") => traitement[r].colis \in Expeditions
           /\ EnAttente(r, "repondre") => /\ traitement[r].dossier \in Dossiers
                                          /\ traitement[r].statut \in
                                                {"en_cours", "attente_client"}
           /\ EnAttente(r, "decider") \/ EnAttente(r, "indemniser") =>
                 /\ traitement[r].dossier \in Dossiers
                 /\ traitement[r].decision \in Decisions
                 /\ traitement[r].montant \in Nat
                 /\ traitement[r].inscrit \in BOOLEAN
           /\ EnAttente(r, "indemniser") => traitement[r].impute \in BOOLEAN
BY DEF TypeOK, Traitement, EnAttente, Inactive

\* A closed claim can only be closed for good, by another decision that closes it.
LEMMA FermetureDepuis ==
    ASSUME NEW x \in Closes, NEW s \in Closes, s \in TRANSITIONS(x)
    PROVE  s = "cloturee" /\ x # "cloturee"
BY DEF Closes, TRANSITIONS

\* The account of a claim follows its status, x then s.
LEMMA CompteSuit ==
    ASSUME NEW x \in StatutsReclamation, NEW s \in StatutsReclamation, NEW n \in {0, 1},
           NEW p \in [Closes -> Nat], NEW q \in [Closes -> Nat],
           s \in TRANSITIONS(x) \/ s \notin Closes,
           \A y \in Closes : q[y] = IF x \in Closes /\ s \notin Closes THEN 0
                                    ELSE p[y] + (IF y = s THEN n ELSE 0),
           CompteDe(p, x)
    PROVE  CompteDe(q, s)
<1>0. /\ "resolue" \in Closes /\ "rejetee" \in Closes /\ "cloturee" \in Closes
      /\ \A y \in Closes : p[y] \in Nat
  BY DEF Closes
<1>1. CASE x \notin Closes
  <2>1. \A y \in Closes : p[y] = 0
    BY <1>0, <1>1 DEF CompteDe
  <2>2. \A y \in Closes : q[y] = IF y = s THEN n ELSE 0
    BY <1>1, <2>1
  <2>3. QED
    BY <1>0, <2>2 DEF CompteDe
<1>2. CASE x \in Closes /\ s \notin Closes
  <2>1. \A y \in Closes : q[y] = 0
    BY <1>2
  <2>2. QED
    BY <1>0, <2>1 DEF CompteDe
<1>3. CASE x \in Closes /\ s \in Closes
  <2>1. s = "cloturee" /\ x # "cloturee"
    BY <1>3, FermetureDepuis
  <2>2. p["cloturee"] = 0 /\ q["cloturee"] = n
    BY <1>0, <1>3, <2>1 DEF CompteDe
  <2>3. \A y \in Closes : y # "cloturee" => q[y] = p[y]
    BY <1>0, <1>3, <2>1
  <2>4. \A y \in Closes : q[y] <= 1
    <3>1. SUFFICES ASSUME NEW y \in Closes PROVE q[y] <= 1
      OBVIOUS
    <3>2. CASE y = "cloturee"
      BY <2>2, <3>2
    <3>3. CASE y # "cloturee"
      BY <2>3, <3>3 DEF CompteDe
    <3>4. QED
      BY <3>2, <3>3
  <2>5. q["resolue"] = 0 \/ q["rejetee"] = 0
    BY <1>0, <2>3 DEF CompteDe
  <2>6. QED
    BY <2>1, <2>4, <2>5 DEF CompteDe
<1>4. QED
  BY <1>1, <1>2, <1>3

LEMMA DecisionsDesTransitions == Decisions \subseteq StatutsReclamation
BY DEF Decisions, StatutsReclamation, Closes

\* A step that writes only the request r, which then decides nothing, changes nothing else.
LEMMA RequeteSeule ==
    ASSUME IInv, NEW r \in Requetes, NEW q \in Traitement, q.etape # "indemniser",
           traitement' = [traitement EXCEPT ![r] = q],
           UNCHANGED <<reclamation, avoirs, compense>>
    PROVE  IInv'
<1>1. TypeOK'
  BY DEF IInv, TypeOK
<1>2. /\ ~EnAttente(r, "indemniser")'
      /\ \A s \in Requetes : s # r => traitement'[s] = traitement[s]
  BY DEF IInv, TypeOK, EnAttente
<1>3. \A s \in Requetes : EnAttente(s, "indemniser")' =>
         s # r /\ EnAttente(s, "indemniser") /\ traitement'[s] = traitement[s]
  BY <1>2 DEF EnAttente
<1>4. VerrouExclusif'
  BY <1>3 DEF IInv, VerrouExclusif
<1>5. DecisionPermise'
  BY <1>3 DEF IInv, DecisionPermise, Statut
<1>6. ComptesJustes' /\ CompenseBorne'
  BY DEF IInv, ComptesJustes, CompenseBorne, Statut
<1>7. QED
  BY <1>1, <1>4, <1>5, <1>6 DEF IInv

\* The status of d becomes s, and its account follows.
StatutDevient(d, s) ==
    \A e \in Dossiers : reclamation'[e].statut = IF e = d THEN s ELSE Statut(e)

AvoirsSuivent(d, s) ==
    /\ \A e \in Dossiers : e # d => avoirs'[e] = avoirs[e]
    /\ \E n \in {0, 1} : avoirs'[d].par = AvoirsApres(d, s, n)

\* A step that gives the claim d, held by no decision but that of r, the status s, and keeps
\* its account.
LEMMA StatutEcrit ==
    ASSUME IInv, NEW r \in Requetes, NEW d \in Dossiers, NEW s \in StatutsReclamation,
           TypeOK', s \in TRANSITIONS(Statut(d)) \/ s \notin Closes,
           traitement' = [traitement EXCEPT ![r] = Inactive],
           \A t \in Requetes : EnAttente(t, "indemniser") /\ traitement[t].dossier = d => t = r,
           StatutDevient(d, s), AvoirsSuivent(d, s), CompenseBorne'
    PROVE  IInv'
<1> USE DEF StatutDevient, AvoirsSuivent
<1>1. \A t \in Requetes : EnAttente(t, "indemniser")' =>
         /\ t # r /\ EnAttente(t, "indemniser") /\ traitement'[t] = traitement[t]
         /\ traitement[t].dossier # d
  BY DEF IInv, TypeOK, EnAttente, Inactive
<1>2. VerrouExclusif'
  BY <1>1 DEF IInv, VerrouExclusif
<1>3. DecisionPermise'
  <2>1. SUFFICES ASSUME NEW t \in Requetes, EnAttente(t, "indemniser")'
                 PROVE  traitement'[t].decision \in
                           TRANSITIONS(reclamation'[traitement'[t].dossier].statut)
    BY DEF DecisionPermise, Statut
  <2>2. /\ traitement'[t] = traitement[t] /\ traitement[t].dossier # d
        /\ traitement[t].dossier \in Dossiers
        /\ traitement[t].decision \in TRANSITIONS(Statut(traitement[t].dossier))
    BY <1>1, <2>1, RequeteLue DEF IInv, DecisionPermise
  <2>3. QED
    BY <2>2
<1>4. ComptesJustes'
  <2>1. SUFFICES ASSUME NEW e \in Dossiers
                 PROVE  CompteDe(avoirs'[e].par, reclamation'[e].statut)
    BY DEF ComptesJustes, CompteDe, Statut
  <2>2. CompteDe(avoirs[e].par, Statut(e))
    BY DEF IInv, ComptesJustes
  <2>3. CASE e # d
    BY <2>2, <2>3
  <2>4. CASE e = d
    <3>1. PICK n \in {0, 1} : avoirs'[d].par = AvoirsApres(d, s, n)
      OBVIOUS
    <3>2. /\ Statut(d) \in StatutsReclamation
          /\ avoirs[d].par \in [Closes -> Nat] /\ avoirs'[d].par \in [Closes -> Nat]
      BY DEF IInv, TypeOK, Statut
    <3>3. \A y \in Closes : avoirs'[d].par[y] =
             IF Statut(d) \in Closes /\ s \notin Closes THEN 0
             ELSE avoirs[d].par[y] + (IF y = s THEN n ELSE 0)
      BY <3>1 DEF AvoirsApres, Rouvre
    <3>4. CompteDe(avoirs'[d].par, s)
      BY <2>2, <2>4, <3>2, <3>3, CompteSuit
    <3>5. QED
      BY <2>4, <3>4
  <2>5. QED
    BY <2>3, <2>4
<1>5. QED
  BY <1>2, <1>3, <1>4 DEF IInv

-----------------------------------------------------------------------------
(* The invariant is inductive *)

LEMMA InitIInv == ASSUME Hypotheses PROVE Init => IInv
<1> SUFFICES ASSUME Init PROVE IInv
  OBVIOUS
<1>1. TypeOK /\ VerrouExclusif /\ DecisionPermise /\ CompenseBorne
  <2> DEFINE a == [nombre |-> 0, par |-> [s \in Closes |-> 0], total |-> 0]
  <2>1. a \in [nombre : Nat, par : [Closes -> Nat], total : Nat]
    OBVIOUS
  <2>2. avoirs = [d \in Dossiers |-> a]
    BY DEF Init
  <2> HIDE DEF a
  <2>3. QED
    BY <2>1, <2>2 DEF Hypotheses, Init, TypeOK, VerrouExclusif, DecisionPermise, CompenseBorne,
                      Traitement, Inactive, EnAttente, StatutsReclamation
<1>2. ComptesJustes
  <2>1. \A d \in Dossiers, s \in Closes : avoirs[d].par[s] = 0
    BY DEF Init
  <2>2. "resolue" \in Closes
    BY DEF Closes
  <2>3. QED
    BY <2>1, <2>2 DEF ComptesJustes, CompteDe
<1>3. QED
  BY <1>1, <1>2 DEF IInv

\* What the requests read.
LEMMA LectureIInv ==
    ASSUME Hypotheses, IInv, NEW r \in Requetes,
           \/ \E c \in Expeditions : DemanderOuverture(r, c)
           \/ \E d \in Dossiers : LireReponse(r, d)
           \/ \E d \in Dossiers, decision \in Decisions, montant \in Montants :
                 LireDecision(r, d, decision, montant)
           \/ Interrompre(r)
    PROVE  IInv'
<1>1. CASE \E c \in Expeditions : DemanderOuverture(r, c)
  <2>1. PICK c \in Expeditions : DemanderOuverture(r, c)
    BY <1>1
  <2> DEFINE q == [etape |-> "ouvrir", colis |-> c]
  <2>2. /\ traitement' = [traitement EXCEPT ![r] = q]
        /\ UNCHANGED <<reclamation, avoirs, compense>>
    BY <2>1 DEF DemanderOuverture, Debuter
  <2>3. q \in Traitement /\ q.etape # "indemniser"
    BY DEF Traitement
  <2> HIDE DEF q
  <2>4. QED
    BY <2>2, <2>3, RequeteSeule
<1>2. CASE \E d \in Dossiers : LireReponse(r, d)
  <2>0. PICK d \in Dossiers : LireReponse(r, d)
    BY <1>2
  <2>1. PICK s \in Reponses(Statut(d)) :
           /\ traitement' = [traitement EXCEPT ![r] =
                 [etape |-> "repondre", dossier |-> d, statut |-> s]]
           /\ UNCHANGED <<reclamation, avoirs, compense>>
    BY <2>0 DEF LireReponse, Debuter
  <2> DEFINE q == [etape |-> "repondre", dossier |-> d, statut |-> s]
  <2>2. q \in Traitement /\ q.etape # "indemniser"
    BY DEF Traitement, Reponses, StatutsReclamation
  <2>3. traitement' = [traitement EXCEPT ![r] = q]
    BY <2>1
  <2> HIDE DEF q
  <2>4. QED
    BY <2>1, <2>2, <2>3, RequeteSeule
<1>3. CASE \E d \in Dossiers, decision \in Decisions, montant \in Montants :
              LireDecision(r, d, decision, montant)
  <2>1. PICK d \in Dossiers, decision \in Decisions, montant \in Montants :
           LireDecision(r, d, decision, montant)
    BY <1>3
  <2> DEFINE q == [etape |-> "decider", dossier |-> d, decision |-> decision,
                   montant |-> montant, inscrit |-> montant # 0 \/ reclamation[d].accorde # 0]
  <2>2. /\ traitement' = [traitement EXCEPT ![r] = q]
        /\ UNCHANGED <<reclamation, avoirs, compense>>
    BY <2>1 DEF LireDecision, Debuter
  <2>3. q \in Traitement /\ q.etape # "indemniser"
    BY DEF Traitement, Hypotheses
  <2> HIDE DEF q
  <2>4. QED
    BY <2>2, <2>3, RequeteSeule
<1>4. CASE Interrompre(r)
  <2>1. /\ traitement' = [traitement EXCEPT ![r] = Inactive]
        /\ UNCHANGED <<reclamation, avoirs, compense>>
    BY <1>4 DEF Interrompre, Finir
  <2>2. Inactive \in Traitement /\ Inactive.etape # "indemniser"
    BY DEF Traitement, Inactive
  <2>3. QED
    BY <2>1, <2>2, RequeteSeule
<1>5. QED
  BY <1>1, <1>2, <1>3, <1>4

LEMMA OuvrirIInv ==
    ASSUME IInv, NEW r \in Requetes, NEW d \in Dossiers, Ouvrir(r, d)
    PROVE  IInv'
<1>1. /\ EnAttente(r, "ouvrir") /\ Statut(d) = Absente
      /\ traitement' = [traitement EXCEPT ![r] = Inactive]
      /\ UNCHANGED <<avoirs, compense>>
  BY DEF Ouvrir, Finir
<1> DEFINE n == [reclamation[d] EXCEPT !.statut = "ouverte", !.colis = traitement[r].colis]
<1>2. reclamation' = [reclamation EXCEPT ![d] = n]
  BY DEF Ouvrir, IInv, TypeOK
<1>3. /\ n.statut = "ouverte"
      /\ n \in [statut : StatutsReclamation, colis : Expeditions \cup {Nul}, accorde : Nat]
  BY <1>1, RequeteLue DEF IInv, TypeOK, StatutsReclamation
<1> HIDE DEF n
<1>4. \A e \in Dossiers : reclamation'[e].statut = IF e = d THEN "ouverte" ELSE Statut(e)
  BY <1>2, <1>3 DEF IInv, TypeOK, Statut
<1>5. TypeOK'
  BY <1>1, <1>2, <1>3 DEF IInv, TypeOK, Traitement
<1>6. \A t \in Requetes : EnAttente(t, "indemniser") => traitement[t].dossier # d
  <2>1. SUFFICES ASSUME NEW t \in Requetes, EnAttente(t, "indemniser"), traitement[t].dossier = d
                 PROVE  FALSE
    OBVIOUS
  <2>2. traitement[t].decision \in TRANSITIONS(Absente)
    BY <1>1, <2>1 DEF IInv, DecisionPermise
  <2>3. QED
    BY <2>2 DEF TRANSITIONS, Absente
<1>8. VerrouExclusif' /\ DecisionPermise'
  <2>1. \A t \in Requetes : EnAttente(t, "indemniser")' =>
           EnAttente(t, "indemniser") /\ traitement'[t] = traitement[t]
    BY <1>1 DEF IInv, TypeOK, EnAttente, Inactive
  <2>2. VerrouExclusif'
    BY <2>1 DEF IInv, VerrouExclusif
  <2>3. ASSUME NEW t \in Requetes, EnAttente(t, "indemniser")'
        PROVE  traitement'[t].decision \in TRANSITIONS(reclamation'[traitement'[t].dossier].statut)
    <3>1. /\ EnAttente(t, "indemniser") /\ traitement'[t] = traitement[t]
          /\ traitement[t].dossier # d /\ traitement[t].dossier \in Dossiers
          /\ traitement[t].decision \in TRANSITIONS(Statut(traitement[t].dossier))
      BY <1>6, <2>1, <2>3, RequeteLue DEF IInv, DecisionPermise
    <3>2. QED
      BY <1>4, <3>1
  <2>4. QED
    BY <2>2, <2>3 DEF DecisionPermise, Statut
<1>9. ComptesJustes'
  <2>1. SUFFICES ASSUME NEW e \in Dossiers
                 PROVE  CompteDe(avoirs[e].par, reclamation'[e].statut)
    BY <1>1 DEF ComptesJustes, Statut
  <2>2. CompteDe(avoirs[e].par, Statut(e))
    BY DEF IInv, ComptesJustes
  <2>3. CASE e # d
    BY <1>4, <2>2, <2>3
  <2>4. CASE e = d
    <3>1. Absente \notin Closes /\ Absente # "cloturee"
      BY DEF Closes, Absente
    <3>2. \A y \in Closes : avoirs[d].par[y] # 1
      BY <1>1, <2>2, <2>4, <3>1 DEF CompteDe
    <3>3. QED
      BY <1>4, <2>2, <2>4, <3>2 DEF CompteDe
  <2>5. QED
    BY <2>3, <2>4
<1>10. QED
  BY <1>1, <1>5, <1>8, <1>9 DEF IInv, CompenseBorne

LEMMA RepondreIInv ==
    ASSUME IInv, NEW r \in Requetes, Repondre(r)
    PROVE  IInv'
<1> DEFINE d == traitement[r].dossier
           s == traitement[r].statut
           n == [reclamation[d] EXCEPT !.statut = s]
<1>1. /\ EnAttente(r, "repondre") /\ d \notin Verrouillees
      /\ traitement' = [traitement EXCEPT ![r] = Inactive]
      /\ avoirs' = [avoirs EXCEPT ![d].par = AvoirsApres(d, s, 0)]
      /\ UNCHANGED compense
  BY DEF Repondre, Finir
<1>2. d \in Dossiers /\ s \in StatutsReclamation /\ s \notin Closes
  BY <1>1, RequeteLue DEF IInv, StatutsReclamation, Closes
<1>3. reclamation' = [reclamation EXCEPT ![d] = n]
  BY DEF Repondre
<1>4. /\ n.statut = s
      /\ n \in [statut : StatutsReclamation, colis : Expeditions \cup {Nul}, accorde : Nat]
  BY <1>2 DEF IInv, TypeOK
<1>5. \A t \in Requetes : EnAttente(t, "indemniser") => traitement[t].dossier # d
  BY <1>1 DEF Verrouillees
<1> HIDE DEF d, s, n
<1>6. \A e \in Dossiers : reclamation'[e].statut = IF e = d THEN s ELSE Statut(e)
  BY <1>2, <1>3, <1>4 DEF IInv, TypeOK, Statut
<1>7. /\ AvoirsApres(d, s, 0) \in [Closes -> Nat]
      /\ \A e \in Dossiers : e # d => avoirs'[e] = avoirs[e]
      /\ avoirs'[d].par = AvoirsApres(d, s, 0)
      /\ avoirs' \in [Dossiers -> [nombre : Nat, par : [Closes -> Nat], total : Nat]]
  <2>1. avoirs[d] \in [nombre : Nat, par : [Closes -> Nat], total : Nat]
    BY <1>2 DEF IInv, TypeOK
  <2>2. AvoirsApres(d, s, 0) \in [Closes -> Nat]
    BY <2>1 DEF AvoirsApres
  <2> DEFINE b == [avoirs[d] EXCEPT !.par = AvoirsApres(d, s, 0)]
  <2>3. /\ b \in [nombre : Nat, par : [Closes -> Nat], total : Nat]
        /\ b.par = AvoirsApres(d, s, 0)
    BY <2>1, <2>2
  <2>4. avoirs' = [avoirs EXCEPT ![d] = b]
    BY <1>1
  <2> HIDE DEF b
  <2>5. QED
    BY <1>2, <2>2, <2>3, <2>4 DEF IInv, TypeOK
<1>8. TypeOK'
  BY <1>1, <1>2, <1>3, <1>4, <1>7 DEF IInv, TypeOK, Traitement
<1>9. CompenseBorne'
  BY <1>1 DEF IInv, CompenseBorne
<1>10. StatutDevient(d, s) /\ AvoirsSuivent(d, s)
  BY <1>6, <1>7 DEF StatutDevient, AvoirsSuivent
<1>11. QED
  BY <1>1, <1>2, <1>5, <1>8, <1>9, <1>10, StatutEcrit

LEMMA DeciderIInv ==
    ASSUME IInv, NEW r \in Requetes, Decider(r)
    PROVE  IInv'
<1> DEFINE q == traitement[r]
           d == q.dossier
           p == [etape |-> "indemniser", dossier |-> d, decision |-> q.decision,
                 montant |-> q.montant, inscrit |-> q.inscrit,
                 impute |-> q.montant > 0 /\ q.montant <= Compensable(d)]
<1>1. /\ EnAttente(r, "decider") /\ d \notin Verrouillees
      /\ UNCHANGED <<reclamation, avoirs, compense>>
  BY DEF Decider
<1>2. CASE ~EncorePossible(d, q.decision)
  <2>1. traitement' = [traitement EXCEPT ![r] = Inactive]
    BY <1>2 DEF Decider, Finir
  <2>2. Inactive \in Traitement /\ Inactive.etape # "indemniser"
    BY DEF Traitement, Inactive
  <2>3. QED
    BY <1>1, <2>1, <2>2, RequeteSeule
<1>3. CASE EncorePossible(d, q.decision)
  <2>1. traitement' = [traitement EXCEPT ![r] = p]
    BY <1>3 DEF Decider
  <2>2. p \in Traitement
    <3>1. /\ d \in Dossiers /\ q.decision \in Decisions /\ q.montant \in Nat
          /\ q.inscrit \in BOOLEAN
      BY <1>1, RequeteLue DEF IInv
    <3>2. (q.montant > 0 /\ q.montant <= Compensable(d)) \in BOOLEAN
      OBVIOUS
    <3>3. QED
      BY <3>1, <3>2 DEF Traitement
  <2>3. q.decision \in TRANSITIONS(Statut(d))
    BY <1>3 DEF EncorePossible
  <2>4. \A t \in Requetes : EnAttente(t, "indemniser") => traitement[t].dossier # d
    BY <1>1 DEF Verrouillees
  <2>5. p.dossier = d /\ p.decision = q.decision
    OBVIOUS
  <2> HIDE DEF p
  <2>6. traitement'[r] = p /\ \A t \in Requetes : t # r => traitement'[t] = traitement[t]
    BY <2>1 DEF IInv, TypeOK
  <2> HIDE DEF d, q
  <2>7. TypeOK'
    BY <1>1, <2>1, <2>2 DEF IInv, TypeOK
  <2>8. VerrouExclusif'
    <3>1. SUFFICES ASSUME NEW t \in Requetes, NEW u \in Requetes,
                          EnAttente(t, "indemniser")', EnAttente(u, "indemniser")',
                          traitement'[t].dossier = traitement'[u].dossier, t # u
                   PROVE  FALSE
      BY DEF VerrouExclusif
    <3>2. CASE t # r /\ u # r
      BY <2>6, <3>1, <3>2 DEF IInv, VerrouExclusif, EnAttente
    <3>3. CASE t = r
      BY <2>4, <2>5, <2>6, <3>1, <3>3 DEF EnAttente
    <3>4. CASE u = r
      BY <2>4, <2>5, <2>6, <3>1, <3>4 DEF EnAttente
    <3>5. QED
      BY <3>2, <3>3, <3>4
  <2>9. DecisionPermise'
    <3>1. SUFFICES ASSUME NEW t \in Requetes, EnAttente(t, "indemniser")'
                   PROVE  traitement'[t].decision \in TRANSITIONS(Statut(traitement'[t].dossier))
      BY <1>1 DEF DecisionPermise, Statut
    <3>2. CASE t = r
      BY <2>3, <2>5, <2>6, <3>2
    <3>3. CASE t # r
      BY <2>6, <3>1, <3>3 DEF IInv, DecisionPermise, EnAttente
    <3>4. QED
      BY <3>2, <3>3
  <2>10. ComptesJustes' /\ CompenseBorne'
    BY <1>1 DEF IInv, ComptesJustes, CompenseBorne, Statut
  <2>11. QED
    BY <2>7, <2>8, <2>9, <2>10 DEF IInv
<1>4. QED
  BY <1>2, <1>3

LEMMA IndemniserIInv ==
    ASSUME Hypotheses, IInv, NEW r \in Requetes, Indemniser(r)
    PROVE  IInv'
<1> DEFINE q == traitement[r]
           d == q.dossier
           c == reclamation[d].colis
           n == [reclamation[d] EXCEPT !.statut = q.decision,
                                       !.accorde = IF q.inscrit THEN q.montant ELSE @]
           k == IF q.montant = 0 THEN 0 ELSE 1
           a == [nombre |-> avoirs[d].nombre + k, par |-> AvoirsApres(d, q.decision, k),
                 total |-> avoirs[d].total + q.montant]
<1>1. EnAttente(r, "indemniser") /\ traitement' = [traitement EXCEPT ![r] = Inactive]
  BY DEF Indemniser, Finir
<1>2. /\ d \in Dossiers /\ q.decision \in Decisions /\ q.montant \in Nat
      /\ q.decision \in TRANSITIONS(Statut(d)) /\ q.decision \in StatutsReclamation
  BY <1>1, RequeteLue, DecisionsDesTransitions DEF IInv, DecisionPermise
<1>3. CASE UNCHANGED <<reclamation, avoirs, compense>>
  <2>1. Inactive \in Traitement /\ Inactive.etape # "indemniser"
    BY DEF Traitement, Inactive
  <2>2. QED
    BY <1>1, <1>3, <2>1, RequeteSeule
<1>4. CASE /\ q.impute => Absorbe(d, q.montant)
           /\ reclamation' = [reclamation EXCEPT ![d] = n]
           /\ avoirs' = [avoirs EXCEPT ![d] = a]
           /\ compense' = IF q.impute THEN [compense EXCEPT ![c] = @ + q.montant] ELSE compense
  <2>1. /\ n.statut = q.decision
        /\ n \in [statut : StatutsReclamation, colis : Expeditions \cup {Nul}, accorde : Nat]
    BY <1>2 DEF IInv, TypeOK
  <2>2. /\ a \in [nombre : Nat, par : [Closes -> Nat], total : Nat]
        /\ a.par = AvoirsApres(d, q.decision, k)
    <3>1. k \in {0, 1} /\ k \in Nat
      OBVIOUS
    <3> HIDE DEF k
    <3>2. avoirs[d] \in [nombre : Nat, par : [Closes -> Nat], total : Nat]
      BY <1>2 DEF IInv, TypeOK
    <3>3. AvoirsApres(d, q.decision, k) \in [Closes -> Nat]
      BY <3>1, <3>2 DEF AvoirsApres
    <3>4. QED
      BY <1>2, <3>1, <3>2, <3>3
  <2>3. k \in {0, 1}
    OBVIOUS
  <2> HIDE DEF n, a, k
  <2>4. avoirs' \in [Dossiers -> [nombre : Nat, par : [Closes -> Nat], total : Nat]]
    BY <1>2, <1>4, <2>2 DEF IInv, TypeOK
  <2>5. \A e \in Dossiers : e # d => avoirs'[e] = avoirs[e]
    BY <1>2, <1>4 DEF IInv, TypeOK
  <2>6. avoirs'[d].par = AvoirsApres(d, q.decision, k)
    BY <1>2, <1>4, <2>2 DEF IInv, TypeOK
  <2>7. \A e \in Dossiers : reclamation'[e].statut = IF e = d THEN q.decision ELSE Statut(e)
    BY <1>2, <1>4, <2>1 DEF IInv, TypeOK, Statut
  <2>8. reclamation' \in [Dossiers -> [statut : StatutsReclamation,
                                       colis : Expeditions \cup {Nul}, accorde : Nat]]
    BY <1>2, <1>4, <2>1 DEF IInv, TypeOK
  <2>9. compense' \in [Expeditions -> Nat]
    <3>1. CASE q.impute /\ c \in Expeditions
      <4>1. compense[c] + q.montant \in Nat
        BY <1>2, <3>1 DEF IInv, TypeOK
      <4>2. compense' = [compense EXCEPT ![c] = compense[c] + q.montant]
        BY <1>4, <3>1
      <4> HIDE DEF c
      <4>3. QED
        BY <3>1, <4>1, <4>2 DEF IInv, TypeOK
    <3>2. CASE ~(q.impute /\ c \in Expeditions)
      <4>1. compense' = compense
        <5>1. CASE q.impute
          <6>1. c \notin Expeditions /\ compense' = [compense EXCEPT ![c] = compense[c] + q.montant]
            BY <1>4, <3>2, <5>1
          <6> HIDE DEF c
          <6>2. QED
            BY <6>1 DEF IInv, TypeOK
        <5>2. CASE ~q.impute
          BY <1>4, <5>2
        <5>3. QED
          BY <5>1, <5>2
      <4>2. QED
        BY <4>1 DEF IInv, TypeOK
    <3>3. QED
      BY <3>1, <3>2
  <2>10. CompenseBorne'
    <3>1. SUFFICES ASSUME NEW x \in Expeditions PROVE compense'[x] <= TotalFacture
      BY DEF CompenseBorne
    <3>2. compense[x] \in Nat /\ compense[x] <= TotalFacture /\ TotalFacture \in Nat
      BY DEF IInv, TypeOK, CompenseBorne, Hypotheses
    <3>3. CASE q.impute /\ x = c
      <4>1. q.montant <= TotalFacture - compense[x]
        BY <1>4, <3>3 DEF Absorbe, Compensable
      <4>2. compense'[x] = compense[x] + q.montant
        BY <1>4, <3>3 DEF IInv, TypeOK
      <4>3. QED
        BY <1>2, <3>2, <4>1, <4>2
    <3>4. CASE ~(q.impute /\ x = c)
      <4>1. compense'[x] = compense[x]
        BY <1>4, <3>4 DEF IInv, TypeOK
      <4>2. QED
        BY <3>2, <4>1
    <3>5. QED
      BY <3>3, <3>4
  <2>11. \A t \in Requetes : EnAttente(t, "indemniser") /\ traitement[t].dossier = d => t = r
    BY <1>1 DEF IInv, VerrouExclusif
  <2> HIDE DEF c, d, q
  <2>13. TypeOK'
    BY <1>1, <2>4, <2>8, <2>9 DEF IInv, TypeOK, Traitement
  <2> DEFINE s == q.decision
  <2>14. s \in StatutsReclamation /\ s \in TRANSITIONS(Statut(d))
    BY <1>2
  <2>15. AvoirsSuivent(d, s)
    BY <2>3, <2>5, <2>6 DEF AvoirsSuivent
  <2>16. StatutDevient(d, s)
    BY <2>7 DEF StatutDevient
  <2> HIDE DEF s
  <2>17. QED
    BY <1>1, <1>2, <2>10, <2>11, <2>13, <2>14, <2>15, <2>16, StatutEcrit
<1>5. QED
  BY <1>3, <1>4 DEF Indemniser

LEMMA NextIInv == ASSUME Hypotheses PROVE IInv /\ [Next]_vars => IInv'
<1> SUFFICES ASSUME IInv, [Next]_vars PROVE IInv'
  OBVIOUS
<1>1. CASE UNCHANGED vars
  BY <1>1 DEF vars, IInv, TypeOK, VerrouExclusif, DecisionPermise, ComptesJustes, CompenseBorne,
              EnAttente, Statut
<1>2. QED
  BY <1>1, LectureIInv, OuvrirIInv, RepondreIInv, DeciderIInv, IndemniserIInv DEF Next

-----------------------------------------------------------------------------
(* The theorem *)

\* Each decision that closes a claim compensates it once at most, and its resolution excludes its
\* rejection, until somebody reopens it, however many decisions and answers cross; the credit
\* notes set against an invoice never exceed its total (resoudre, emettre).
THEOREM IndemnitesUniques == Hypotheses /\ Spec => []IndemniteUnique
<1> SUFFICES ASSUME Hypotheses PROVE Spec => []IndemniteUnique
  OBVIOUS
<1>1. Init => IInv
  BY InitIInv
<1>2. IInv /\ [Next]_vars => IInv'
  BY NextIInv
<1>3. IInv => IndemniteUnique
  BY DEF IInv, ComptesJustes, CompteDe, CompenseBorne, IndemniteUnique
<1>4. QED
  BY <1>1, <1>2, <1>3, PTL DEF Spec

-----------------------------------------------------------------------------
(***************************************************************************)
(* Numbers of documents.                                                   *)
(*                                                                         *)
(* A number is the only one of its kind because the transaction that holds *)
(* it took it from a sequence that nobody else reads before its commit;    *)
(* the ranks committed are the first ones, so that the next is held by one *)
(* transaction at most; and an attempt fails only when another transaction *)
(* took the rank since the count it rests on.                              *)
(***************************************************************************)

EtatsActe ==
    {"repos", "creer", "attendre", "nextval", "introuvable", "compter", "inserer", "inscrit",
     "epuise", "valide", "annule"}

ActeType ==
    [etat : EtatsActe, processus : Serveurs \cup {Personne}, sorte : Sortes, apprend : BOOLEAN,
     trompe : BOOLEAN, numero : Nat, lu : Nat, essai : Nat, croisees : SUBSET Actes]

TypeReferences ==
    /\ sequence \in [par : Actes \cup {Personne}, validee : BOOLEAN]
    /\ valeur \in Nat
    /\ connues \in SUBSET (Serveurs \cup {Personne})
    /\ trompes \in SUBSET (Serveurs \cup {Personne})
    /\ lignes \in SUBSET [rang : Nat, par : Actes, validee : BOOLEAN] /\ IsFiniteSet(lignes)
    /\ acte \in [Actes -> ActeType]

Numerote(t) == acte[t].etat \in {"inscrit", "valide"}

\* A sequence that is not committed serves the transaction that created it, and no other; who
\* is about to read a sequence sees it, or has it from a COMMIT that failed.
SuiteTenue ==
    /\ connues \ trompes # {} => sequence.validee
    /\ \A t \in Actes :
          /\ acte[t].etat = "introuvable" => acte[t].trompe
          /\ acte[t].etat = "nextval" =>
                sequence.validee \/ sequence.par = t \/ acte[t].processus \in trompes
          /\ Numerote(t) => (sequence.validee \/ sequence.par = t) /\ acte[t].numero <= valeur
    /\ \A t, u \in Actes :
          t # u /\ Numerote(t) /\ Numerote(u) => acte[t].numero # acte[u].numero

Validees == {l \in lignes : l.validee}
Rangs == Cardinality(Validees)

\* A declaration that has inserted its parcel and is not over.
Porteur(a) ==
    a.sorte = "declaration" /\ a.etat \in {"creer", "attendre", "nextval", "inscrit"}

\* The committed ranks are the first ones; the next may be held by one transaction.
RangsTenus ==
    /\ \A l \in lignes :
          IF l.validee
          THEN acte[l.par].sorte = "declaration" /\ acte[l.par].etat = "valide" /\ l.rang < Rangs
          ELSE Porteur(acte[l.par]) /\ l.rang = Rangs
    /\ \A l, m \in lignes : l.rang = m.rang => l = m
    /\ \A i \in Nat : i < Rangs => \E l \in Validees : l.rang = i
    /\ \A t \in Actes : Porteur(acte[t]) => \E l \in lignes : l.par = t /\ ~l.validee
    /\ \A t \in Actes :
          acte[t].etat \in {"compter", "inserer"} => acte[t].sorte = "declaration"

\* A rank was taken for each failed attempt, and for each rank that the last count has not seen.
EssaisTenus ==
    \A t \in Actes :
        /\ IsFiniteSet(acte[t].croisees)
        /\ \A u \in acte[t].croisees : acte[u].etat = "valide"
        /\ acte[t].essai <= Cardinality(acte[t].croisees)
        /\ acte[t].etat = "inserer" =>
              /\ acte[t].lu <= Rangs
              /\ acte[t].essai + Rangs <= Cardinality(acte[t].croisees) + acte[t].lu
        /\ acte[t].etat = "epuise" => Tentatives <= acte[t].essai

InvReferences == TypeReferences /\ SuiteTenue /\ RangsTenus /\ EssaisTenus
-----------------------------------------------------------------------------
(* Steps that write one act and no row *)

ActeSain(a) ==
    /\ IsFiniteSet(a.croisees)
    /\ \A u \in a.croisees : acte[u].etat = "valide"
    /\ a.essai <= Cardinality(a.croisees)
    /\ a.etat = "inserer" =>
          a.lu <= Rangs /\ a.essai + Rangs <= Cardinality(a.croisees) + a.lu
    /\ a.etat = "epuise" => Tentatives <= a.essai

Passe(t, a) == acte' = [acte EXCEPT ![t] = a]

\* An act that moves on without a new attempt.
LEMMA Avance ==
    ASSUME InvReferences, NEW t \in Actes, NEW e \in EtatsActe,
           e \notin {"inserer", "epuise"}
    PROVE  LET a == [acte[t] EXCEPT !.etat = e]
           IN /\ a \in ActeType /\ ActeSain(a)
              /\ a.etat = e /\ a.numero = acte[t].numero /\ a.sorte = acte[t].sorte
              /\ a.processus = acte[t].processus
<1> DEFINE a == [acte[t] EXCEPT !.etat = e]
<1>1. acte[t] \in ActeType
  BY DEF InvReferences, TypeReferences
<1>2. /\ a \in ActeType /\ a.etat = e /\ a.numero = acte[t].numero /\ a.sorte = acte[t].sorte
      /\ a.processus = acte[t].processus
      /\ a.essai = acte[t].essai /\ a.croisees = acte[t].croisees
  BY <1>1 DEF ActeType
<1> HIDE DEF a
<1>3. ActeSain(a)
  BY <1>2 DEF ActeSain, InvReferences, EssaisTenus
<1>4. QED
  BY <1>2, <1>3 DEF a

LEMMA RangsNaturels == TypeReferences => IsFiniteSet(Validees) /\ Rangs \in Nat
<1> SUFFICES ASSUME TypeReferences PROVE IsFiniteSet(Validees) /\ Rangs \in Nat
  OBVIOUS
<1>1. Validees \in SUBSET lignes /\ IsFiniteSet(lignes)
  BY DEF TypeReferences, Validees
<1>2. QED
  BY <1>1, FS_Subset, FS_CardinalityType DEF Rangs

\* What is left of the invariant of an act, of whose rows nothing is said.
LEMMA EssaisApres ==
    ASSUME InvReferences, NEW t \in Actes, NEW a \in ActeType, Passe(t, a),
           acte[t].etat # "valide", Rangs' = Rangs, ActeSain(a)
    PROVE  EssaisTenus'
<1>1. \A u \in Actes : acte'[u] = IF u = t THEN a ELSE acte[u]
  BY DEF InvReferences, TypeReferences, Passe
<1>2. \A u, v \in Actes : v \in acte[u].croisees => acte'[v].etat = "valide"
  BY <1>1 DEF InvReferences, EssaisTenus
<1>3. \A v \in Actes : v \in a.croisees => acte'[v].etat = "valide"
  BY <1>1 DEF ActeSain
<1>4. \A u \in Actes : acte'[u].croisees \in SUBSET Actes
  BY <1>1 DEF InvReferences, TypeReferences, ActeType
<1>5. ASSUME NEW u \in Actes
      PROVE  /\ IsFiniteSet(acte'[u].croisees)
             /\ \A v \in acte'[u].croisees : acte'[v].etat = "valide"
             /\ acte'[u].essai <= Cardinality(acte'[u].croisees)
             /\ acte'[u].etat = "inserer" =>
                   /\ acte'[u].lu <= Rangs
                   /\ acte'[u].essai + Rangs <= Cardinality(acte'[u].croisees) + acte'[u].lu
             /\ acte'[u].etat = "epuise" => Tentatives <= acte'[u].essai
  <2>1. CASE u = t
    BY <2>1, <1>1, <1>3, <1>4 DEF ActeSain
  <2>2. CASE u # t
    BY <2>2, <1>1, <1>2, <1>4 DEF InvReferences, EssaisTenus
  <2>3. QED
    BY <2>1, <2>2
<1>6. QED
  BY <1>5 DEF EssaisTenus

LEMMA ActeSeul ==
    ASSUME InvReferences, NEW t \in Actes, NEW a \in ActeType, Passe(t, a),
           acte[t].etat # "valide", Porteur(a) <=> Porteur(acte[t]),
           a.etat \in {"compter", "inserer"} => a.sorte = "declaration",
           UNCHANGED lignes, ActeSain(a)
    PROVE  RangsTenus' /\ EssaisTenus'
<1>1. \A u \in Actes : acte'[u] = IF u = t THEN a ELSE acte[u]
  BY DEF InvReferences, TypeReferences, Passe
<1>2. Validees' = Validees /\ Rangs' = Rangs
  BY DEF Validees, Rangs
<1>3. \A l \in lignes : l.par \in Actes /\ l.validee \in BOOLEAN
  BY DEF InvReferences, TypeReferences
<1>4. \A l \in lignes :
         IF l.validee
         THEN acte'[l.par].sorte = "declaration" /\ acte'[l.par].etat = "valide" /\ l.rang < Rangs
         ELSE Porteur(acte'[l.par]) /\ l.rang = Rangs
  BY <1>1, <1>3 DEF InvReferences, RangsTenus
<1>5. \A u \in Actes : Porteur(acte'[u]) => \E l \in lignes : l.par = u /\ ~l.validee
  BY <1>1 DEF InvReferences, RangsTenus
<1>6. \A u \in Actes :
         acte'[u].etat \in {"compter", "inserer"} => acte'[u].sorte = "declaration"
  BY <1>1 DEF InvReferences, RangsTenus
<1>7. \A u \in Actes : Porteur(acte[u])' <=> Porteur(acte'[u])
  BY DEF Porteur
<1>8. RangsTenus'
  BY <1>2, <1>4, <1>5, <1>6, <1>7 DEF InvReferences, RangsTenus, Porteur
<1>9. EssaisTenus'
  BY <1>2, EssaisApres
<1>10. QED
  BY <1>8, <1>9

\* The act is over, and its row gone.
LEMMA ActeDefait ==
    ASSUME InvReferences, NEW t \in Actes, NEW a \in ActeType, Passe(t, a),
           acte[t].etat # "valide", a.etat \in {"annule", "introuvable"},
           lignes' = {l \in lignes : l.par # t}, ActeSain(a)
    PROVE  RangsTenus' /\ EssaisTenus' /\ lignes' \in SUBSET lignes /\ IsFiniteSet(lignes')
<1>1. \A u \in Actes : acte'[u] = IF u = t THEN a ELSE acte[u]
  BY DEF InvReferences, TypeReferences, Passe
<1>2. \A l \in lignes : l.par \in Actes /\ (l.validee => l.par # t)
  BY DEF InvReferences, TypeReferences, RangsTenus
<1>3. Validees' = Validees /\ Rangs' = Rangs
  BY <1>2 DEF Validees, Rangs
<1>4. \A l \in lignes' : l \in lignes /\ l.par # t
  OBVIOUS
<1>5. \A l \in lignes' :
         IF l.validee
         THEN acte'[l.par].sorte = "declaration" /\ acte'[l.par].etat = "valide" /\ l.rang < Rangs
         ELSE Porteur(acte'[l.par]) /\ l.rang = Rangs
  BY <1>1, <1>2, <1>4 DEF InvReferences, RangsTenus
<1>6. \A l, m \in lignes' : l.rang = m.rang => l = m
  BY <1>4 DEF InvReferences, RangsTenus
<1>7. \A u \in Actes : Porteur(acte'[u]) => \E l \in lignes' : l.par = u /\ ~l.validee
  <2>1. ~Porteur(a)
    BY DEF Porteur
  <2>2. QED
    BY <2>1, <1>1 DEF InvReferences, RangsTenus
<1>8. \A u \in Actes :
         acte'[u].etat \in {"compter", "inserer"} => acte'[u].sorte = "declaration"
  BY <1>1 DEF InvReferences, RangsTenus
<1>9. RangsTenus'
  BY <1>3, <1>5, <1>6, <1>7, <1>8 DEF InvReferences, RangsTenus, Porteur
<1>10. EssaisTenus'
  BY <1>3, EssaisApres
<1>11. lignes' \in SUBSET lignes /\ IsFiniteSet(lignes')
  <2>1. IsFiniteSet(lignes) /\ lignes' \in SUBSET lignes
    BY DEF InvReferences, TypeReferences
  <2>2. QED
    BY <2>1, FS_Subset
<1>12. QED
  BY <1>9, <1>10, <1>11

LEMMA InitReferencesInv == ASSUME HypothesesReferences PROVE InitReferences => InvReferences
<1> SUFFICES ASSUME InitReferences PROVE InvReferences
  OBVIOUS
<1>1. \A t \in Actes : acte[t] = Repos
  BY DEF InitReferences
<1>2. Repos \in ActeType /\ Repos.etat = "repos" /\ Repos.croisees = {} /\ Repos.essai = 0
  BY DEF Repos, ActeType, EtatsActe, Sortes
<1>3. IsFiniteSet({}) /\ Cardinality({}) = 0
  BY FS_EmptySet
<1>4. TypeReferences
  <2>1. sequence \in [par : Actes \cup {Personne}, validee : BOOLEAN]
    <3>1. CASE sequence = Rien
      BY <3>1 DEF Rien
    <3>2. CASE sequence = [par |-> Personne, validee |-> TRUE]
      BY <3>2
    <3>3. QED
      BY <3>1, <3>2 DEF InitReferences
  <2>2. acte \in [Actes -> ActeType]
    BY <1>2 DEF InitReferences
  <2>3. QED
    BY <2>1, <2>2, <1>3 DEF InitReferences, TypeReferences
<1>5. SuiteTenue
  BY <1>1, <1>2 DEF InitReferences, SuiteTenue, Numerote
<1>6. Rangs = 0 /\ lignes = {}
  BY <1>3 DEF InitReferences, Rangs, Validees
<1>7. RangsTenus
  BY <1>1, <1>2, <1>6 DEF RangsTenus, Porteur
<1>8. EssaisTenus
  BY <1>1, <1>2, <1>3 DEF EssaisTenus
<1>9. QED
  BY <1>4, <1>5, <1>7, <1>8 DEF InvReferences

LEMMA TypeApres ==
    ASSUME InvReferences, NEW t \in Actes, NEW a \in ActeType, Passe(t, a),
           UNCHANGED <<sequence, trompes, lignes>>, valeur' \in Nat,
           connues' \in SUBSET (Serveurs \cup {Personne})
    PROVE  TypeReferences'
BY DEF InvReferences, TypeReferences, Passe

\* An act that moves on, the sequence as it is: only what the act says of it is left to show.
LEMMA SuiteInchangee ==
    ASSUME InvReferences, NEW t \in Actes, NEW a \in ActeType, Passe(t, a),
           UNCHANGED <<sequence, valeur, trompes>>,
           connues' \ trompes # {} => sequence.validee,
           a.etat = "introuvable" => a.trompe,
           a.etat = "nextval" =>
               sequence.validee \/ sequence.par = t \/ a.processus \in trompes,
           a.etat \in {"inscrit", "valide"} => Numerote(t) /\ a.numero = acte[t].numero
    PROVE  SuiteTenue'
<1>1. \A u \in Actes : acte'[u] = IF u = t THEN a ELSE acte[u]
  BY DEF InvReferences, TypeReferences, Passe
<1>2. \A u \in Actes : Numerote(u)' => Numerote(u) /\ acte'[u].numero = acte[u].numero
  BY <1>1 DEF Numerote
<1>3. \A u \in Actes : acte'[u].etat = "nextval" =>
         sequence.validee \/ sequence.par = u \/ acte'[u].processus \in trompes
  BY <1>1 DEF InvReferences, SuiteTenue
<1>4. \A u \in Actes : acte'[u].etat = "introuvable" => acte'[u].trompe
  BY <1>1 DEF InvReferences, SuiteTenue
<1>5. QED
  BY <1>2, <1>3, <1>4 DEF InvReferences, SuiteTenue

LEMMA SuiteSansNumero ==
    ASSUME InvReferences, NEW t \in Actes, NEW a \in ActeType, Passe(t, a),
           UNCHANGED <<sequence, valeur, connues, trompes>>,
           a.etat \notin {"introuvable", "nextval", "inscrit", "valide"}
    PROVE  SuiteTenue'
<1>1. connues' \ trompes # {} => sequence.validee
  BY DEF InvReferences, SuiteTenue
<1>2. QED
  BY <1>1, SuiteInchangee

LEMMA CommencerInv ==
    ASSUME InvReferences, NEW t \in Actes, NEW p \in Serveurs, NEW sorte \in Sortes,
           Commencer(t, p, sorte)
    PROVE  InvReferences'
<1> DEFINE e == IF sorte = "declaration" THEN "compter" ELSE "creer"
           a == [Repos EXCEPT !.etat = e, !.processus = p, !.sorte = sorte]
<1>1. /\ Passe(t, a) /\ UNCHANGED <<sequence, valeur, connues, trompes, lignes>>
      /\ acte[t].etat = "repos"
  BY DEF Commencer, Passe
<1>2. e \in {"compter", "creer"} /\ (e = "compter" <=> sorte = "declaration")
  OBVIOUS
<1> HIDE DEF e
<1>3. a \in ActeType /\ a.etat = e /\ a.croisees = {} /\ a.essai = 0 /\ a.sorte = sorte
  <2>1. e \in EtatsActe
    BY <1>2 DEF EtatsActe
  <2>2. QED
    BY <2>1 DEF Repos, ActeType
<1> HIDE DEF a
<1>4. ActeSain(a)
  BY <1>2, <1>3, FS_EmptySet DEF ActeSain
<1>5. ~Porteur(a) /\ ~Porteur(acte[t])
  BY <1>1, <1>2, <1>3 DEF Porteur
<1>6. a.etat \in {"compter", "inserer"} => a.sorte = "declaration"
  BY <1>2, <1>3
<1>7. RangsTenus' /\ EssaisTenus'
  BY <1>1, <1>3, <1>4, <1>5, <1>6, ActeSeul
<1>8. TypeReferences'
  BY <1>1, <1>3, TypeApres DEF InvReferences, TypeReferences
<1>9. SuiteTenue'
  BY <1>1, <1>2, <1>3, SuiteSansNumero
<1>10. QED
  BY <1>7, <1>8, <1>9 DEF InvReferences

\* Nobody has a number of a sequence that is not created.
LEMMA SuiteCreee ==
    ASSUME HypothesesReferences, InvReferences,
           ~sequence.validee, sequence.par \notin Actes
    PROVE  \A u \in Actes : ~Numerote(u)
BY DEF HypothesesReferences, InvReferences, SuiteTenue

LEMMA CreerSequenceInv ==
    ASSUME HypothesesReferences, InvReferences, NEW t \in Actes, CreerSequence(t)
    PROVE  InvReferences'
<1> DEFINE a(e) == [acte[t] EXCEPT !.etat = e]
           b == [acte[t] EXCEPT !.etat = "nextval", !.apprend = TRUE]
<1>1. acte[t] \in ActeType /\ acte[t].etat = "creer" /\ UNCHANGED <<trompes, lignes>>
  BY DEF InvReferences, TypeReferences, CreerSequence
<1>2. /\ b \in ActeType /\ b.etat = "nextval" /\ b.numero = acte[t].numero
      /\ b.essai = acte[t].essai /\ b.croisees = acte[t].croisees /\ b.sorte = acte[t].sorte
  BY <1>1 DEF ActeType, EtatsActe
<1> HIDE DEF b
<1>3. ActeSain(b)
  BY <1>2 DEF ActeSain, InvReferences, EssaisTenus
<1>4. ASSUME NEW e \in {"nextval", "attendre"}
      PROVE  /\ a(e) \in ActeType /\ ActeSain(a(e)) /\ a(e).etat = e
             /\ a(e).sorte = acte[t].sorte /\ a(e).processus = acte[t].processus
             /\ Porteur(a(e)) <=> Porteur(acte[t])
  <2>1. e \in EtatsActe /\ e \notin {"inserer", "epuise"}
    BY DEF EtatsActe
  <2>2. /\ a(e) \in ActeType /\ ActeSain(a(e)) /\ a(e).etat = e
        /\ a(e).sorte = acte[t].sorte /\ a(e).processus = acte[t].processus
    BY <2>1, Avance
  <2>3. QED
    BY <2>2, <1>1 DEF Porteur
<1> HIDE DEF a
<1>5. CASE acte[t].processus \in connues
  <2>1. Passe(t, a("nextval")) /\ UNCHANGED <<sequence, valeur, connues>>
    BY <1>5 DEF CreerSequence, Poursuivre, Passe, a
  <2>2. sequence.validee \/ acte[t].processus \in trompes
    BY <1>5 DEF InvReferences, SuiteTenue
  <2>3. TypeReferences'
    BY <2>1, <1>1, <1>4, TypeApres DEF InvReferences, TypeReferences
  <2>4. connues' \ trompes # {} => sequence.validee
    BY <2>1 DEF InvReferences, SuiteTenue
  <2>5. SuiteTenue'
    BY <2>1, <2>2, <2>4, <1>1, <1>4, SuiteInchangee
  <2>6. RangsTenus' /\ EssaisTenus'
    BY <2>1, <1>1, <1>4, ActeSeul
  <2>7. QED
    BY <2>3, <2>5, <2>6 DEF InvReferences
<1>6. CASE acte[t].processus \notin connues /\ sequence.par # Personne /\ ~sequence.validee
  <2>1. Passe(t, a("attendre")) /\ UNCHANGED <<sequence, valeur, connues>>
    BY <1>6 DEF CreerSequence, Poursuivre, Passe, a
  <2>2. TypeReferences'
    BY <2>1, <1>1, <1>4, TypeApres DEF InvReferences, TypeReferences
  <2>3. SuiteTenue'
    BY <2>1, <1>1, <1>4, SuiteSansNumero
  <2>4. RangsTenus' /\ EssaisTenus'
    BY <2>1, <1>1, <1>4, ActeSeul
  <2>5. QED
    BY <2>2, <2>3, <2>4 DEF InvReferences
<1>7. CASE acte[t].processus \notin connues /\ ~(sequence.par # Personne /\ ~sequence.validee)
  <2> DEFINE seul == acte[t].sorte = "seul"
  <2>1. /\ Passe(t, b)
        /\ connues' = connues \cup (IF seul THEN {acte[t].processus} ELSE {})
        /\ IF sequence.validee THEN UNCHANGED <<sequence, valeur>>
           ELSE sequence' = [par |-> t, validee |-> seul] /\ valeur' = 0
    BY <1>7 DEF CreerSequence, Passe, b, ApprendreDesCreation
  <2>2. seul \in BOOLEAN /\ acte[t].processus \in Serveurs \cup {Personne}
    BY <1>1 DEF ActeType
  <2> HIDE DEF seul
  <2>3. sequence' \in [par : Actes \cup {Personne}, validee : BOOLEAN] /\ valeur' \in Nat
    BY <2>1, <2>2 DEF InvReferences, TypeReferences
  <2>4. acte' \in [Actes -> ActeType]
    BY <2>1, <1>2 DEF InvReferences, TypeReferences, Passe
  <2>5. TypeReferences'
    BY <2>1, <2>2, <2>3, <2>4, <1>1 DEF InvReferences, TypeReferences
  <2>6. \A u \in Actes : acte'[u] = IF u = t THEN b ELSE acte[u]
    BY <2>1 DEF InvReferences, TypeReferences, Passe
  <2>7. ASSUME sequence.validee PROVE SuiteTenue'
    <3>1. sequence' = sequence /\ valeur' = valeur
      BY <2>1, <2>7
    <3>2. \A u \in Actes : Numerote(u)' => Numerote(u) /\ acte'[u] = acte[u]
      BY <2>6, <1>2 DEF Numerote
    <3>3. \A u \in Actes : acte'[u].etat = "introuvable" => acte'[u].trompe
      BY <2>6, <1>2 DEF InvReferences, SuiteTenue
    <3>4. QED
      BY <3>1, <3>2, <3>3, <2>7 DEF InvReferences, SuiteTenue, Numerote
  <2>8. ASSUME ~sequence.validee PROVE SuiteTenue'
    <3>1. sequence.par \notin Actes
      BY <2>8, <1>7 DEF HypothesesReferences
    <3>2. \A u \in Actes : ~Numerote(u)
      BY <3>1, <2>8, SuiteCreee
    <3>3. connues \ trompes = {}
      BY <2>8 DEF InvReferences, SuiteTenue
    <3>4. sequence'.par = t /\ sequence'.validee = seul
      BY <2>1, <2>8
    <3>5. \A u \in Actes : ~Numerote(u)'
      BY <3>2, <2>6, <1>2 DEF Numerote
    <3>6. \A u \in Actes : acte'[u].etat = "nextval" => u = t \/ acte'[u].processus \in trompes
      BY <2>6, <2>8, <3>1 DEF InvReferences, SuiteTenue
    <3>7. \A u \in Actes : acte'[u].etat = "introuvable" => acte'[u].trompe
      BY <2>6, <1>2 DEF InvReferences, SuiteTenue
    <3>8. connues' \ trompes # {} => sequence'.validee
      <4>1. CASE seul
        BY <4>1, <3>4
      <4>2. CASE ~seul
        BY <4>2, <3>3, <2>1
      <4>3. QED
        BY <4>1, <4>2
    <3>9. QED
      BY <3>4, <3>5, <3>6, <3>7, <3>8, <1>1 DEF SuiteTenue
  <2>9. SuiteTenue'
    BY <2>7, <2>8
  <2>10. Porteur(b) <=> Porteur(acte[t])
    BY <1>1, <1>2 DEF Porteur
  <2>11. RangsTenus' /\ EssaisTenus'
    BY <2>1, <2>10, <1>1, <1>2, <1>3, ActeSeul
  <2>12. QED
    BY <2>5, <2>9, <2>11 DEF InvReferences
<1>8. QED
  BY <1>5, <1>6, <1>7

LEMMA ReprendreInv ==
    ASSUME InvReferences, NEW t \in Actes, Reprendre(t)
    PROVE  InvReferences'
<1> DEFINE a(e) == [acte[t] EXCEPT !.etat = e]
<1>1. acte[t] \in ActeType /\ acte[t].etat = "attendre"
  BY DEF InvReferences, TypeReferences, Reprendre
<1>2. UNCHANGED <<sequence, valeur, trompes, lignes>>
  BY DEF Reprendre
<1>3. ASSUME NEW e \in {"nextval", "creer"}
      PROVE  /\ a(e) \in ActeType /\ ActeSain(a(e)) /\ a(e).etat = e
             /\ Porteur(a(e)) <=> Porteur(acte[t])
  <2>1. e \in EtatsActe /\ e \notin {"inserer", "epuise"}
    BY DEF EtatsActe
  <2>2. a(e) \in ActeType /\ ActeSain(a(e)) /\ a(e).etat = e /\ a(e).sorte = acte[t].sorte
    BY <2>1, Avance
  <2>3. QED
    BY <2>2, <1>1 DEF Porteur
<1>4. acte[t].processus \in Serveurs \cup {Personne}
  BY <1>1 DEF ActeType
<1>5. CASE sequence.validee
  <2>1. Passe(t, a("nextval")) /\ connues' = connues \cup {acte[t].processus}
    BY <1>5 DEF Reprendre, Poursuivre, Passe
  <2> HIDE DEF a
  <2>2. connues' \in SUBSET (Serveurs \cup {Personne}) /\ valeur' \in Nat
    BY <2>1, <1>2, <1>4 DEF InvReferences, TypeReferences
  <2>3. TypeReferences'
    BY <2>1, <2>2, <1>2, <1>3, TypeApres
  <2>4. SuiteTenue'
    BY <2>1, <1>2, <1>3, <1>5, SuiteInchangee
  <2>5. RangsTenus' /\ EssaisTenus'
    BY <2>1, <1>1, <1>2, <1>3, ActeSeul
  <2>6. QED
    BY <2>3, <2>4, <2>5 DEF InvReferences
<1>6. CASE ~sequence.validee
  <2>1. Passe(t, a("creer")) /\ connues' = connues
    BY <1>6 DEF Reprendre, Poursuivre, Passe
  <2> HIDE DEF a
  <2>2. connues' \in SUBSET (Serveurs \cup {Personne}) /\ valeur' \in Nat
    BY <2>1, <1>2 DEF InvReferences, TypeReferences
  <2>3. TypeReferences'
    BY <2>1, <2>2, <1>2, <1>3, TypeApres
  <2>4. SuiteTenue'
    BY <2>1, <1>2, <1>3, SuiteSansNumero
  <2>5. RangsTenus' /\ EssaisTenus'
    BY <2>1, <1>1, <1>2, <1>3, ActeSeul
  <2>6. QED
    BY <2>3, <2>4, <2>5 DEF InvReferences
<1>7. QED
  BY <1>5, <1>6

LEMMA NextvalTrouve ==
    ASSUME InvReferences, NEW t \in Actes, Nextval(t), sequence.validee \/ sequence.par = t
    PROVE  InvReferences'
<1> DEFINE e == IF acte[t].sorte = "seul" THEN "valide" ELSE "inscrit"
           a == [acte[t] EXCEPT !.numero = valeur + 1, !.etat = e]
<1>1. acte[t] \in ActeType /\ acte[t].etat = "nextval" /\ valeur \in Nat
  BY DEF InvReferences, TypeReferences, Nextval
<1>2. Passe(t, a) /\ valeur' = valeur + 1 /\ UNCHANGED <<sequence, connues, trompes, lignes>>
  BY DEF Nextval, Passe
<1>3. e \in {"valide", "inscrit"} /\ (acte[t].sorte = "declaration" => e = "inscrit")
  OBVIOUS
<1> HIDE DEF e
<1>4. /\ a \in ActeType /\ a.etat = e /\ a.numero = valeur + 1 /\ a.sorte = acte[t].sorte
      /\ a.essai = acte[t].essai /\ a.croisees = acte[t].croisees
  <2>1. e \in EtatsActe /\ valeur + 1 \in Nat
    BY <1>1, <1>3 DEF EtatsActe
  <2>2. QED
    BY <1>1, <2>1 DEF ActeType
<1> HIDE DEF a
<1>5. ActeSain(a)
  BY <1>3, <1>4 DEF ActeSain, InvReferences, EssaisTenus
<1>6. Porteur(a) <=> Porteur(acte[t])
  BY <1>1, <1>3, <1>4 DEF Porteur
<1>7. RangsTenus' /\ EssaisTenus'
  BY <1>1, <1>2, <1>3, <1>4, <1>5, <1>6, ActeSeul
<1>8. TypeReferences'
  <2>1. valeur' \in Nat /\ connues' \in SUBSET (Serveurs \cup {Personne})
    BY <1>1, <1>2 DEF InvReferences, TypeReferences
  <2>2. QED
    BY <2>1, <1>2, <1>4, TypeApres
<1>9. \A u \in Actes : acte'[u] = IF u = t THEN a ELSE acte[u]
  BY <1>2 DEF InvReferences, TypeReferences, Passe
<1>10. SuiteTenue'
  <2>1. \A u \in Actes : u # t /\ Numerote(u)' => Numerote(u) /\ acte'[u].numero = acte[u].numero
    BY <1>9 DEF Numerote
  <2>2. \A u \in Actes : Numerote(u) => acte[u].numero \in Nat /\ acte[u].numero <= valeur
    BY DEF InvReferences, TypeReferences, ActeType, SuiteTenue
  <2>3. \A u \in Actes : Numerote(u)' => sequence.validee \/ sequence.par = u
    BY <2>1 DEF InvReferences, SuiteTenue
  <2>4. \A u \in Actes : /\ acte'[u].etat = "introuvable" => acte'[u].trompe
                         /\ acte'[u].etat = "nextval" =>
                               \/ sequence.validee \/ sequence.par = u
                               \/ acte'[u].processus \in trompes
    BY <1>3, <1>4, <1>9 DEF InvReferences, SuiteTenue
  <2>5. acte'[t].numero = valeur + 1
    BY <1>4, <1>9
  <2>6. \A u \in Actes : Numerote(u)' => acte'[u].numero <= valeur'
    BY <2>1, <2>2, <2>5, <1>1, <1>2
  <2>7. \A u, v \in Actes : u # v /\ Numerote(u)' /\ Numerote(v)' =>
           acte'[u].numero # acte'[v].numero
    <3>1. \A u \in Actes : u # t /\ Numerote(u)' => acte'[u].numero # valeur + 1
      BY <2>1, <2>2, <1>1
    <3>2. \A u, v \in Actes : u # v /\ Numerote(u) /\ Numerote(v) =>
             acte[u].numero # acte[v].numero
      BY DEF InvReferences, SuiteTenue
    <3>3. QED
      BY <2>1, <2>5, <3>1, <3>2
  <2>8. connues' \ trompes # {} => sequence.validee
    BY <1>2 DEF InvReferences, SuiteTenue
  <2>9. QED
    BY <1>2, <2>3, <2>4, <2>6, <2>7, <2>8 DEF SuiteTenue
<1>11. QED
  BY <1>7, <1>8, <1>10 DEF InvReferences

\* A sequence that is not there: the process has it from a COMMIT that failed.
LEMMA NextvalManque ==
    ASSUME InvReferences, NEW t \in Actes, Nextval(t), ~(sequence.validee \/ sequence.par = t)
    PROVE  InvReferences'
<1> DEFINE q == acte[t].processus \in trompes
           a == [acte[t] EXCEPT !.etat = "introuvable", !.trompe = q]
<1>1. acte[t] \in ActeType /\ acte[t].etat = "nextval"
  BY DEF InvReferences, TypeReferences, Nextval
<1>2. /\ Passe(t, a) /\ lignes' = {l \in lignes : l.par # t}
      /\ UNCHANGED <<sequence, valeur, connues, trompes>>
  BY DEF Nextval, Passe
<1>3. q /\ q \in BOOLEAN
  BY <1>1 DEF InvReferences, SuiteTenue
<1> HIDE DEF q
<1>4. /\ a \in ActeType /\ a.etat = "introuvable" /\ a.trompe = q
      /\ a.essai = acte[t].essai /\ a.croisees = acte[t].croisees
  BY <1>1, <1>3 DEF ActeType, EtatsActe
<1> HIDE DEF a
<1>5. ActeSain(a)
  BY <1>4 DEF ActeSain, InvReferences, EssaisTenus
<1>6. RangsTenus' /\ EssaisTenus' /\ lignes' \in SUBSET lignes /\ IsFiniteSet(lignes')
  BY <1>1, <1>2, <1>4, <1>5, ActeDefait
<1>7. connues' \ trompes # {} => sequence.validee
  BY <1>2 DEF InvReferences, SuiteTenue
<1>8. SuiteTenue'
  <2>1. a.etat = "introuvable" => a.trompe
    BY <1>3, <1>4
  <2>2. QED
    BY <1>2, <1>4, <1>7, <2>1, SuiteInchangee
<1>9. TypeReferences'
  <2>1. acte' \in [Actes -> ActeType]
    BY <1>2, <1>4 DEF InvReferences, TypeReferences, Passe
  <2>2. QED
    BY <1>2, <1>6, <2>1 DEF InvReferences, TypeReferences
<1>10. QED
  BY <1>6, <1>8, <1>9 DEF InvReferences

LEMMA CompterInv ==
    ASSUME InvReferences, NEW t \in Actes, Compter(t)
    PROVE  InvReferences'
<1> DEFINE a == [acte[t] EXCEPT !.lu = Rangs, !.etat = "inserer"]
<1>1. acte[t] \in ActeType /\ acte[t].etat = "compter" /\ Rangs \in Nat
  BY RangsNaturels DEF InvReferences, TypeReferences, Compter
<1>2. Passe(t, a) /\ UNCHANGED <<sequence, valeur, connues, trompes, lignes>>
  BY DEF Compter, Passe, Rangs, Validees
<1>3. /\ a \in ActeType /\ a.etat = "inserer" /\ a.lu = Rangs /\ a.sorte = acte[t].sorte
      /\ a.essai = acte[t].essai /\ a.croisees = acte[t].croisees
  BY <1>1 DEF ActeType, EtatsActe
<1> HIDE DEF a
<1>4. ActeSain(a)
  <2>1. IsFiniteSet(acte[t].croisees) /\ acte[t].essai <= Cardinality(acte[t].croisees)
    BY DEF InvReferences, EssaisTenus
  <2>2. Cardinality(acte[t].croisees) \in Nat /\ acte[t].essai \in Nat
    BY <2>1, <1>1, FS_CardinalityType DEF ActeType
  <2>3. \A u \in acte[t].croisees : acte[u].etat = "valide"
    BY DEF InvReferences, EssaisTenus
  <2>4. QED
    BY <1>1, <1>3, <2>1, <2>2, <2>3 DEF ActeSain
<1>5. SuiteTenue'
  BY <1>2, <1>3, SuiteSansNumero
<1>6. TypeReferences'
  BY <1>2, <1>3, TypeApres DEF InvReferences, TypeReferences
<1>7. a.sorte = "declaration" /\ ~Porteur(a) /\ ~Porteur(acte[t])
  BY <1>1, <1>3 DEF Porteur, InvReferences, RangsTenus
<1>8. RangsTenus' /\ EssaisTenus'
  BY <1>1, <1>2, <1>3, <1>4, <1>7, ActeSeul
<1>9. QED
  BY <1>5, <1>6, <1>8 DEF InvReferences

\* The row of an occupied rank: if the rank is counted, somebody took it since the count.
LEMMA EssaiManque ==
    ASSUME HypothesesReferences, InvReferences, NEW t \in Actes, acte[t].etat = "inserer",
           NEW l \in lignes, l.rang = acte[t].lu, l.validee
    PROVE  acte[t].essai + 1 <= Cardinality(acte[t].croisees)
<1>1. l.rang < Rangs /\ l.rang \in Nat
  BY DEF InvReferences, RangsTenus, TypeReferences
<1>2. acte[t].essai + Rangs <= Cardinality(acte[t].croisees) + acte[t].lu
  BY DEF InvReferences, EssaisTenus
<1>3. IsFiniteSet(acte[t].croisees)
  BY DEF InvReferences, EssaisTenus
<1>4. Cardinality(acte[t].croisees) \in Nat
  BY <1>3, FS_CardinalityType
<1>5. acte[t].essai \in Nat /\ Rangs \in Nat
  BY RangsNaturels DEF InvReferences, TypeReferences, ActeType
<1>6. QED
  BY <1>1, <1>2, <1>4, <1>5

LEMMA InsererManque ==
    ASSUME HypothesesReferences, InvReferences, NEW t \in Actes, Inserer(t),
           {l \in lignes : l.rang = acte[t].lu} # {}
    PROVE  InvReferences'
<1> DEFINE e == ApresViolation(acte[t].essai + 1)
           a == [acte[t] EXCEPT !.essai = acte[t].essai + 1, !.etat = e]
<1>1. acte[t] \in ActeType /\ acte[t].etat = "inserer"
  BY DEF InvReferences, TypeReferences, Inserer
<1>2. Passe(t, a) /\ UNCHANGED <<sequence, valeur, connues, trompes, lignes>>
  BY DEF Inserer, Passe
<1>3. PICK l \in lignes : l.rang = acte[t].lu /\ l.validee
  BY DEF Inserer
<1>4. acte[t].essai + 1 <= Cardinality(acte[t].croisees)
  BY <1>1, <1>3, EssaiManque
<1>5. acte[t].essai \in Nat /\ Tentatives \in Nat
  BY <1>1 DEF ActeType, HypothesesReferences
<1>6. e \in {"compter", "epuise"} /\ (e = "epuise" => Tentatives <= acte[t].essai + 1)
  BY <1>5 DEF ApresViolation
<1> HIDE DEF e
<1>7. /\ a \in ActeType /\ a.etat = e /\ a.numero = acte[t].numero /\ a.sorte = acte[t].sorte
      /\ a.essai = acte[t].essai + 1 /\ a.croisees = acte[t].croisees
  <2>1. e \in EtatsActe /\ acte[t].essai + 1 \in Nat
    BY <1>5, <1>6 DEF EtatsActe
  <2>2. QED
    BY <1>1, <2>1 DEF ActeType
<1> HIDE DEF a
<1>8. ActeSain(a)
  BY <1>4, <1>6, <1>7 DEF ActeSain, InvReferences, EssaisTenus
<1>9. SuiteTenue'
  BY <1>2, <1>6, <1>7, SuiteSansNumero
<1>10. TypeReferences'
  BY <1>2, <1>7, TypeApres DEF InvReferences, TypeReferences
<1>11. RangsTenus' /\ EssaisTenus'
  <2>1. a.sorte = "declaration" /\ ~Porteur(a) /\ ~Porteur(acte[t])
    BY <1>1, <1>6, <1>7 DEF Porteur, InvReferences, RangsTenus
  <2>2. QED
    BY <1>1, <1>2, <1>6, <1>7, <1>8, <2>1, ActeSeul
<1>12. QED
  BY <1>9, <1>10, <1>11 DEF InvReferences

LEMMA InsererPris ==
    ASSUME InvReferences, NEW t \in Actes, Inserer(t),
           {l \in lignes : l.rang = acte[t].lu} = {}
    PROVE  InvReferences'
<1> DEFINE a == [acte[t] EXCEPT !.etat = "creer"]
           n == [rang |-> acte[t].lu, par |-> t, validee |-> FALSE]
<1>1. acte[t] \in ActeType /\ acte[t].etat = "inserer" /\ Rangs \in Nat
  BY RangsNaturels DEF InvReferences, TypeReferences, Inserer
<1>2. /\ Passe(t, a) /\ lignes' = lignes \cup {n}
      /\ UNCHANGED <<sequence, valeur, connues, trompes>>
  BY DEF Inserer, Passe, Poursuivre
<1>3. a \in ActeType /\ ActeSain(a) /\ a.etat = "creer" /\ a.sorte = acte[t].sorte
  BY Avance DEF EtatsActe
<1>4. n \in [rang : Nat, par : Actes, validee : BOOLEAN]
  BY <1>1 DEF ActeType
<1>5. n.rang = acte[t].lu /\ n.par = t /\ ~n.validee
  OBVIOUS
<1> HIDE DEF a, n
<1>6. \A l \in lignes : l.rang # acte[t].lu
  BY DEF Inserer
<1>7. acte[t].lu = Rangs
  <2>1. acte[t].lu \in Nat /\ acte[t].lu <= Rangs
    BY <1>1 DEF ActeType, InvReferences, EssaisTenus
  <2>2. ~(acte[t].lu < Rangs)
    BY <1>6, <2>1 DEF InvReferences, RangsTenus, Validees
  <2>3. QED
    BY <1>1, <2>1, <2>2
<1>8. Validees' = Validees /\ Rangs' = Rangs
  BY <1>2, <1>5 DEF Validees, Rangs
<1>9. \A u \in Actes : acte'[u] = IF u = t THEN a ELSE acte[u]
  BY <1>2 DEF InvReferences, TypeReferences, Passe
<1>10. TypeReferences'
  <2>1. acte' \in [Actes -> ActeType]
    BY <1>2, <1>3 DEF InvReferences, TypeReferences, Passe
  <2>2. IsFiniteSet(lignes')
    BY <1>2, FS_AddElement DEF InvReferences, TypeReferences
  <2>3. QED
    BY <1>2, <1>4, <2>1, <2>2 DEF InvReferences, TypeReferences
<1>11. SuiteTenue'
  BY <1>2, <1>3, SuiteSansNumero
<1>12. RangsTenus'
  <2>1. \A l \in lignes : l.par \in Actes /\ l.par # t
    BY <1>1 DEF InvReferences, RangsTenus, TypeReferences, Porteur
  <2>2. Porteur(a)
    BY <1>1, <1>3 DEF Porteur, InvReferences, RangsTenus
  <2>3. \A l \in lignes' :
           IF l.validee
           THEN acte'[l.par].sorte = "declaration" /\ acte'[l.par].etat = "valide" /\ l.rang < Rangs
           ELSE Porteur(acte'[l.par]) /\ l.rang = Rangs
    <3>1. \A l \in lignes :
           IF l.validee
           THEN acte'[l.par].sorte = "declaration" /\ acte'[l.par].etat = "valide" /\ l.rang < Rangs
           ELSE Porteur(acte'[l.par]) /\ l.rang = Rangs
      BY <1>9, <2>1 DEF InvReferences, RangsTenus
    <3>2. QED
      BY <1>2, <1>5, <1>7, <1>9, <2>2, <3>1
  <2>4. \A l, m \in lignes' : l.rang = m.rang => l = m
    BY <1>2, <1>5, <1>6 DEF InvReferences, RangsTenus
  <2>5. \A u \in Actes : Porteur(acte'[u]) => \E l \in lignes' : l.par = u /\ ~l.validee
    BY <1>2, <1>5, <1>9 DEF InvReferences, RangsTenus
  <2>6. \A i \in Nat : i < Rangs => \E l \in Validees : l.rang = i
    BY DEF InvReferences, RangsTenus
  <2>7. \A u \in Actes :
           acte'[u].etat \in {"compter", "inserer"} => acte'[u].sorte = "declaration"
    BY <1>3, <1>9 DEF InvReferences, RangsTenus
  <2>8. QED
    BY <1>8, <2>3, <2>4, <2>5, <2>6, <2>7 DEF RangsTenus, Porteur
<1>13. EssaisTenus'
  BY <1>1, <1>2, <1>3, <1>8, EssaisApres
<1>14. QED
  BY <1>10, <1>11, <1>12, <1>13 DEF InvReferences

\* What a COMMIT leaves of the sequence: it is there, whoever created it.
LEMMA SuiteValidee ==
    ASSUME InvReferences, NEW t \in Actes, ValiderActe(t)
    PROVE  /\ acte[t].etat = "inscrit" /\ trompes' = trompes /\ valeur' = valeur
           /\ sequence'.validee
           /\ sequence' \in [par : Actes \cup {Personne}, validee : BOOLEAN]
           /\ connues' \in SUBSET (Serveurs \cup {Personne})
<1>1. /\ acte[t].etat = "inscrit" /\ trompes' = trompes /\ valeur' = valeur
      /\ sequence' = [sequence EXCEPT !.validee = sequence.validee \/ sequence.par = t]
      /\ connues' = connues \cup Apprises(t)
  BY DEF ValiderActe
<1>2. sequence.validee \/ sequence.par = t
  BY <1>1 DEF InvReferences, SuiteTenue, Numerote
<1>3. sequence \in [par : Actes \cup {Personne}, validee : BOOLEAN]
  BY DEF InvReferences, TypeReferences
<1>4. sequence'.validee /\ sequence' \in [par : Actes \cup {Personne}, validee : BOOLEAN]
  BY <1>1, <1>2, <1>3
<1>5. connues' \in SUBSET (Serveurs \cup {Personne})
  BY <1>1 DEF Apprises, InvReferences, TypeReferences, ActeType
<1>6. QED
  BY <1>1, <1>4, <1>5

\* A transaction that has no row.
LEMMA ValiderSansLigne ==
    ASSUME InvReferences, NEW t \in Actes, ValiderActe(t), acte[t].sorte # "declaration"
    PROVE  InvReferences'
<1> DEFINE a == [acte[t] EXCEPT !.etat = "valide"]
<1>1. acte[t] \in ActeType
  BY DEF InvReferences, TypeReferences
<1>2. acte' = [u \in Actes |-> IF u = t THEN a ELSE acte[u]]
  BY DEF ValiderActe
<1>3. /\ a \in ActeType /\ ActeSain(a) /\ a.etat = "valide" /\ a.sorte = acte[t].sorte
      /\ a.numero = acte[t].numero
  BY Avance DEF EtatsActe
<1> HIDE DEF a
<1>4. Passe(t, a) /\ \A u \in Actes : acte'[u] = IF u = t THEN a ELSE acte[u]
  <2>1. acte' = [acte EXCEPT ![t] = a]
    BY <1>2 DEF InvReferences, TypeReferences
  <2>2. QED
    BY <1>2, <2>1 DEF Passe
<1>5. lignes' = lignes
  <2>1. \A l \in lignes : l \in [rang : Nat, par : Actes, validee : BOOLEAN] /\ l.par # t
    BY DEF InvReferences, TypeReferences, RangsTenus, Porteur
  <2>2. \A l \in lignes : [l EXCEPT !.validee = l.validee \/ l.par = t] = l
    BY <2>1
  <2>3. lignes' = {[l EXCEPT !.validee = l.validee \/ l.par = t] : l \in lignes}
    BY DEF ValiderActe
  <2>4. QED
    BY <2>2, <2>3
<1>6. ~Porteur(a) /\ ~Porteur(acte[t])
  BY <1>3 DEF Porteur
<1>7. RangsTenus' /\ EssaisTenus'
  BY <1>3, <1>4, <1>5, <1>6, SuiteValidee, ActeSeul
<1>8. TypeReferences'
  BY <1>3, <1>4, <1>5, SuiteValidee DEF InvReferences, TypeReferences, Passe
<1>9. SuiteTenue'
  <2>1. \A u \in Actes : Numerote(u)' => Numerote(u) /\ acte'[u].numero = acte[u].numero
    BY <1>3, <1>4, SuiteValidee DEF Numerote
  <2>2. \A u \in Actes : acte'[u].etat = "introuvable" => acte'[u].trompe
    BY <1>3, <1>4 DEF InvReferences, SuiteTenue
  <2>3. QED
    BY <2>1, <2>2, SuiteValidee DEF InvReferences, SuiteTenue
<1>10. QED
  BY <1>7, <1>8, <1>9 DEF InvReferences

\* The row of the declaration, which has the next rank, joins the committed ones.
LEMMA ValiderLigne ==
    ASSUME HypothesesReferences, InvReferences, NEW t \in Actes, ValiderActe(t),
           acte[t].sorte = "declaration"
    PROVE  InvReferences'
<1> DEFINE f(l) == [l EXCEPT !.validee = l.validee \/ l.par = t]
           g(u) == IF u = t THEN [acte[u] EXCEPT !.etat = "valide"]
                   ELSE IF acte[u].etat \in {"compter", "inserer"}
                   THEN [acte[u] EXCEPT !.croisees = acte[u].croisees \cup {t}]
                   ELSE acte[u]
<1>1. /\ acte[t].etat = "inscrit"
      /\ lignes' = {f(l) : l \in lignes} /\ acte' = [u \in Actes |-> g(u)]
      /\ valeur' = valeur
  BY DEF ValiderActe
<1>2. PICK l0 \in lignes : l0.par = t /\ ~l0.validee
  BY <1>1 DEF InvReferences, RangsTenus, Porteur
<1> DEFINE n == f(l0)
<1>3. \A l \in lignes : l \in [rang : Nat, par : Actes, validee : BOOLEAN]
  BY DEF InvReferences, TypeReferences
<1>4. Rangs \in Nat /\ IsFiniteSet(Validees)
  BY RangsNaturels DEF InvReferences
<1>5. l0.rang = Rangs /\ \A l \in lignes : ~l.validee => l = l0
  BY <1>2, <1>3 DEF InvReferences, RangsTenus
<1>6. \A l \in lignes : l # l0 => l.validee /\ l.par # t /\ f(l) = l
  <2>1. \A l \in lignes : l # l0 => l.validee
    BY <1>5
  <2>2. \A l \in lignes : l.validee => l.par # t
    BY <1>1 DEF InvReferences, RangsTenus
  <2>3. \A l \in [rang : Nat, par : Actes, validee : BOOLEAN] :
           l.validee /\ l.par # t => f(l) = l
    OBVIOUS
  <2>4. QED
    BY <1>3, <2>1, <2>2, <2>3
<1>7. f(l0) = n
  OBVIOUS
<1>8. n.rang = Rangs /\ n.par = t /\ n.validee
  BY <1>2, <1>3, <1>5
<1>9. n \in [rang : Nat, par : Actes, validee : BOOLEAN]
  BY <1>3
<1> HIDE DEF f, n
<1>10. lignes' = (lignes \ {l0}) \cup {n}
  <2>1. lignes' = {f(l) : l \in lignes}
    BY <1>1
  <2>2. \A x : x \in lignes' <=> x \in (lignes \ {l0}) \cup {n}
    BY <2>1, <1>2, <1>6, <1>7
  <2>3. QED
    BY <2>2
<1>11. Validees' = Validees \cup {n} /\ Validees = lignes \ {l0} /\ n \notin Validees
  BY <1>2, <1>5, <1>6, <1>8, <1>10, <1>4 DEF Validees, InvReferences, RangsTenus
<1>12. Rangs' = Rangs + 1 /\ lignes' = Validees'
  BY <1>4, <1>10, <1>11, FS_AddElement DEF Rangs
<1>13. \A u \in Actes : acte[u] \in ActeType
  BY DEF InvReferences, TypeReferences
<1>14. \A u \in Actes : acte'[u] = g(u)
  BY <1>1
<1>15. ASSUME NEW u \in Actes
       PROVE  /\ g(u) \in ActeType
              /\ g(u).etat = (IF u = t THEN "valide" ELSE acte[u].etat)
              /\ g(u).numero = acte[u].numero /\ g(u).essai = acte[u].essai
              /\ g(u).lu = acte[u].lu /\ g(u).sorte = acte[u].sorte
              /\ g(u).trompe = acte[u].trompe
              /\ g(u).croisees = IF u # t /\ acte[u].etat \in {"compter", "inserer"}
                                 THEN acte[u].croisees \cup {t} ELSE acte[u].croisees
  <2>1. acte[u] \in ActeType /\ acte[u].croisees \in SUBSET Actes
    BY <1>13 DEF ActeType
  <2>2. CASE u = t
    BY <2>1, <2>2 DEF ActeType, EtatsActe
  <2>3. CASE u # t /\ acte[u].etat \in {"compter", "inserer"}
    BY <2>1, <2>3 DEF ActeType
  <2>4. CASE u # t /\ acte[u].etat \notin {"compter", "inserer"}
    BY <2>1, <2>4 DEF ActeType
  <2>5. QED
    BY <2>2, <2>3, <2>4
<1> HIDE DEF g
<1>19. TypeReferences'
  <2>3. lignes' \in SUBSET [rang : Nat, par : Actes, validee : BOOLEAN]
    BY <1>3, <1>9, <1>10
  <2>4. IsFiniteSet(lignes')
    BY <1>4, <1>11, <1>12, FS_AddElement
  <2>5. acte' \in [Actes -> ActeType]
    BY <1>1, <1>15
  <2>6. valeur' \in Nat /\ trompes' \in SUBSET (Serveurs \cup {Personne})
    BY SuiteValidee DEF InvReferences, TypeReferences
  <2>7. QED
    BY <2>3, <2>4, <2>5, <2>6, SuiteValidee DEF TypeReferences
<1>20. SuiteTenue'
  <2>1. \A u \in Actes : Numerote(u)' => Numerote(u) /\ acte'[u].numero = acte[u].numero
    BY <1>1, <1>14, <1>15 DEF Numerote
  <2>2. \A u \in Actes : acte'[u].etat = "introuvable" => acte'[u].trompe
    <3>1. \A u \in Actes : acte[u].etat = "introuvable" => acte[u].trompe
      BY DEF InvReferences, SuiteTenue
    <3>2. ASSUME NEW u \in Actes, acte'[u].etat = "introuvable"
          PROVE  acte'[u].trompe
      <4>1. acte'[u].etat = acte[u].etat
        BY <3>2, <1>14, <1>15
      <4>2. acte'[u].trompe = acte[u].trompe
        BY <1>14, <1>15
      <4>3. QED
        BY <3>1, <3>2, <4>1, <4>2, Zenon
    <3>3. QED
      BY <3>2
  <2>3. QED
    BY <2>1, <2>2, SuiteValidee DEF InvReferences, SuiteTenue
<1>21. RangsTenus'
  <2>1. \A l \in Validees : /\ l \in lignes /\ l.validee /\ l.rang < Rangs /\ l.rang \in Nat
                            /\ l.par \in Actes /\ acte[l.par].etat = "valide"
                            /\ acte[l.par].sorte = "declaration"
    BY <1>3 DEF Validees, InvReferences, RangsTenus
  <2>2. \A l \in lignes' : /\ l.validee /\ l.rang < Rangs'
                           /\ acte'[l.par].etat = "valide" /\ acte'[l.par].sorte = "declaration"
    <3>1. \A u \in Actes : /\ acte[u].etat = "valide" \/ u = t => acte'[u].etat = "valide"
                           /\ acte'[u].sorte = acte[u].sorte
      BY <1>14, <1>15
    <3>2. \A l \in Validees : /\ l.validee /\ l.rang < Rangs + 1
                              /\ acte'[l.par].etat = "valide"
                              /\ acte'[l.par].sorte = "declaration"
      BY <2>1, <3>1, <1>4
    <3>3. /\ n.validee /\ n.rang < Rangs + 1 /\ acte'[n.par].etat = "valide"
          /\ acte'[n.par].sorte = "declaration"
      BY <3>1, <1>4, <1>8
    <3>4. QED
      BY <3>2, <3>3, <1>11, <1>12
  <2>3. \A l, m \in lignes' : l.rang = m.rang => l = m
    <3>1. \A l, m \in Validees : l.rang = m.rang => l = m
      BY <2>1 DEF InvReferences, RangsTenus
    <3>2. \A l \in Validees : l.rang # n.rang
      BY <2>1, <1>4, <1>8
    <3>3. QED
      BY <3>1, <3>2, <1>11, <1>12
  <2>4. \A i \in Nat : i < Rangs' => \E l \in Validees' : l.rang = i
    <3>1. \A i \in Nat : i < Rangs => \E l \in Validees : l.rang = i
      BY DEF InvReferences, RangsTenus
    <3>2. \A i \in Nat : i < Rangs + 1 => i < Rangs \/ i = Rangs
      BY <1>4
    <3>3. QED
      BY <3>1, <3>2, <1>8, <1>11, <1>12
  <2>5. \A u \in Actes : ~Porteur(acte'[u])
    <3>1. \A u \in Actes : Porteur(acte[u]) => u = t
      <4>1. \A u \in Actes : Porteur(acte[u]) => \E l \in lignes : l.par = u /\ ~l.validee
        BY DEF InvReferences, RangsTenus
      <4>2. QED
        BY <4>1, <1>2, <1>5
    <3>2. \A u \in Actes : Porteur(acte'[u]) => Porteur(acte[u]) /\ u # t
      BY <1>14, <1>15 DEF Porteur
    <3>3. QED
      BY <3>1, <3>2
  <2>6. \A u \in Actes :
           acte'[u].etat \in {"compter", "inserer"} => acte'[u].sorte = "declaration"
    <3>1. \A u \in Actes :
             acte[u].etat \in {"compter", "inserer"} => acte[u].sorte = "declaration"
      BY DEF InvReferences, RangsTenus
    <3>2. QED
      BY <3>1, <1>14, <1>15
  <2>7. QED
    BY <2>2, <2>3, <2>4, <2>5, <2>6 DEF RangsTenus, Porteur
<1>22. EssaisTenus'
  <2>1. ASSUME NEW u \in Actes
        PROVE  /\ IsFiniteSet(acte'[u].croisees)
               /\ \A v \in acte'[u].croisees : acte'[v].etat = "valide"
               /\ acte'[u].essai <= Cardinality(acte'[u].croisees)
               /\ acte'[u].etat = "inserer" =>
                     /\ acte'[u].lu <= Rangs + 1
                     /\ acte'[u].essai + (Rangs + 1)
                           <= Cardinality(acte'[u].croisees) + acte'[u].lu
               /\ acte'[u].etat = "epuise" => Tentatives <= acte'[u].essai
    <3>1. /\ IsFiniteSet(acte[u].croisees) /\ acte[u].croisees \in SUBSET Actes
          /\ \A v \in acte[u].croisees : acte[v].etat = "valide"
          /\ acte[u].essai <= Cardinality(acte[u].croisees)
          /\ acte[u].etat = "inserer" =>
                /\ acte[u].lu <= Rangs
                /\ acte[u].essai + Rangs <= Cardinality(acte[u].croisees) + acte[u].lu
          /\ acte[u].etat = "epuise" => Tentatives <= acte[u].essai
      BY <1>13 DEF InvReferences, EssaisTenus, ActeType
    <3>2. t \notin acte[u].croisees
      BY <3>1, <1>1
    <3>3. acte[u].essai \in Nat /\ acte[u].lu \in Nat /\ Cardinality(acte[u].croisees) \in Nat
      BY <1>13, <3>1, FS_CardinalityType DEF ActeType
    <3>4. /\ IsFiniteSet(acte[u].croisees \cup {t})
          /\ Cardinality(acte[u].croisees \cup {t}) = Cardinality(acte[u].croisees) + 1
      BY <3>1, <3>2, FS_AddElement
    <3>5. \A v \in Actes : v \in acte'[u].croisees => acte'[v].etat = "valide"
      <4>1. \A v \in Actes : acte[v].etat = "valide" \/ v = t => acte'[v].etat = "valide"
        BY <1>14, <1>15
      <4>2. acte'[u].croisees \in SUBSET (acte[u].croisees \cup {t})
        BY <1>14, <1>15
      <4>3. QED
        BY <4>1, <4>2, <3>1
    <3>6. acte'[u].croisees \in SUBSET Actes
      <4>1. acte'[u].croisees \in SUBSET (acte[u].croisees \cup {t})
        BY <1>14, <1>15
      <4>2. QED
        BY <4>1, <3>1
    <3>7. CASE u = t \/ acte[u].etat \notin {"compter", "inserer"}
      <4>1. /\ acte'[u].croisees = acte[u].croisees /\ acte'[u].essai = acte[u].essai
            /\ acte'[u].etat # "inserer"
            /\ acte'[u].etat = "epuise" => acte[u].etat = "epuise"
        BY <3>7, <1>14, <1>15
      <4>2. QED
        BY <4>1, <3>1, <3>5, <3>6
    <3>8. CASE u # t /\ acte[u].etat \in {"compter", "inserer"}
      <4>1. /\ acte'[u].croisees = acte[u].croisees \cup {t} /\ acte'[u].essai = acte[u].essai
            /\ acte'[u].etat = acte[u].etat /\ acte'[u].lu = acte[u].lu
        BY <3>8, <1>14, <1>15
      <4>2. QED
        BY <4>1, <3>1, <3>3, <3>4, <3>5, <3>6, <3>8, <1>4
    <3>9. QED
      BY <3>7, <3>8
  <2>2. QED
    BY <2>1, <1>12 DEF EssaisTenus
<1>23. QED
  BY <1>19, <1>20, <1>21, <1>22 DEF InvReferences

\* A transaction undone: whoever learnt its sequence is deceived.
LEMMA DefaireInv ==
    ASSUME HypothesesReferences, InvReferences, NEW t \in Actes, Defaire(t),
           acte[t].etat # "valide",
           connues' \in SUBSET (Serveurs \cup {Personne}),
           trompes' \in SUBSET (Serveurs \cup {Personne}), trompes \subseteq trompes',
           connues' \ trompes' # {} => sequence.validee
    PROVE  InvReferences'
<1> DEFINE a == [acte[t] EXCEPT !.etat = "annule"]
<1>1. acte[t] \in ActeType
  BY DEF InvReferences, TypeReferences
<1>2. /\ Passe(t, a) /\ lignes' = {l \in lignes : l.par # t} /\ valeur' = valeur
      /\ sequence' = IF CreeParLui(t) THEN Rien ELSE sequence
  BY DEF Defaire, Poursuivre, Passe
<1>3. a \in ActeType /\ ActeSain(a) /\ a.etat = "annule"
  BY Avance DEF EtatsActe
<1> HIDE DEF a
<1>4. \A u \in Actes : acte'[u] = IF u = t THEN a ELSE acte[u]
  BY <1>2 DEF InvReferences, TypeReferences, Passe
<1>5. sequence'.validee = sequence.validee /\ (sequence.par # t => sequence' = sequence)
  <2>1. sequence \in [par : Actes \cup {Personne}, validee : BOOLEAN]
    BY DEF InvReferences, TypeReferences
  <2>2. QED
    BY <2>1, <1>2 DEF Rien, CreeParLui
<1>6. RangsTenus' /\ EssaisTenus' /\ lignes' \in SUBSET lignes /\ IsFiniteSet(lignes')
  BY <1>2, <1>3, ActeDefait
<1>7. TypeReferences'
  <2>1. sequence' \in [par : Actes \cup {Personne}, validee : BOOLEAN]
    BY <1>2 DEF InvReferences, TypeReferences, Rien
  <2>2. acte' \in [Actes -> ActeType]
    BY <1>2, <1>3 DEF InvReferences, TypeReferences, Passe
  <2>3. QED
    BY <1>2, <1>6, <2>1, <2>2 DEF InvReferences, TypeReferences
<1>8. SuiteTenue'
  <2>1. \A u \in Actes : Numerote(u)' => u # t /\ Numerote(u) /\ acte'[u].numero = acte[u].numero
    BY <1>3, <1>4 DEF Numerote
  <2>2. \A u \in Actes : acte'[u].etat = "introuvable" => acte'[u].trompe
    BY <1>3, <1>4 DEF InvReferences, SuiteTenue
  <2>3. \A u \in Actes : Numerote(u)' => sequence'.validee \/ sequence'.par = u
    BY <2>1, <1>5 DEF InvReferences, SuiteTenue
  <2>4. \A u \in Actes : acte'[u].etat = "nextval" => u # t /\ acte'[u] = acte[u]
    BY <1>3, <1>4
  <2>5. \A u \in Actes : acte'[u].etat = "nextval" =>
           sequence'.validee \/ sequence'.par = u \/ acte'[u].processus \in trompes'
    BY <2>4, <1>5 DEF InvReferences, SuiteTenue
  <2>6. connues' \ trompes' # {} => sequence'.validee
    BY <1>5
  <2>7. \A u \in Actes : Numerote(u)' => acte'[u].numero <= valeur'
    BY <1>2, <2>1 DEF InvReferences, SuiteTenue
  <2>8. \A u, v \in Actes :
           u # v /\ Numerote(u)' /\ Numerote(v)' => acte'[u].numero # acte'[v].numero
    BY <2>1 DEF InvReferences, SuiteTenue
  <2>9. QED
    BY <2>2, <2>3, <2>5, <2>6, <2>7, <2>8 DEF SuiteTenue
<1>9. QED
  BY <1>6, <1>7, <1>8 DEF InvReferences

LEMMA ValiderEnEchecInv ==
    ASSUME HypothesesReferences, InvReferences, NEW t \in Actes, ValiderEnEchec(t)
    PROVE  InvReferences'
<1>1. /\ acte[t].etat = "inscrit" /\ Defaire(t) /\ connues' = connues \cup Apprises(t)
      /\ trompes' = trompes \cup (IF CreeParLui(t) THEN Apprises(t) ELSE {})
  BY DEF ValiderEnEchec
<1>2. Apprises(t) \in SUBSET (Serveurs \cup {Personne})
  BY DEF Apprises, InvReferences, TypeReferences, ActeType
<1>3. /\ connues' \in SUBSET (Serveurs \cup {Personne})
      /\ trompes' \in SUBSET (Serveurs \cup {Personne}) /\ trompes \subseteq trompes'
  BY <1>1, <1>2 DEF InvReferences, TypeReferences
<1>4. sequence.validee \/ sequence.par = t
  BY <1>1 DEF InvReferences, SuiteTenue, Numerote
<1>5. connues \ trompes # {} => sequence.validee
  BY DEF InvReferences, SuiteTenue
<1>6. connues' \ trompes' # {} => sequence.validee
  BY <1>1, <1>4, <1>5 DEF CreeParLui
<1>7. QED
  BY <1>1, <1>3, <1>6, DefaireInv

LEMMA AnnulerInv ==
    ASSUME HypothesesReferences, InvReferences, NEW t \in Actes, Annuler(t)
    PROVE  InvReferences'
<1>1. Defaire(t) /\ UNCHANGED <<connues, trompes>> /\ acte[t].etat # "valide"
  BY DEF Annuler
<1>2. connues' \ trompes' # {} => sequence.validee
  BY <1>1 DEF InvReferences, SuiteTenue
<1>3. QED
  BY <1>1, <1>2, DefaireInv DEF InvReferences, TypeReferences

\* A process forgets what it knew: none of its requests is about to read a sequence.
LEMMA RelancerInv ==
    ASSUME InvReferences, NEW p \in Serveurs, RelancerServeur(p)
    PROVE  InvReferences'
<1>1. /\ \A t \in Actes : acte[t].processus = p => acte[t].etat # "nextval"
      /\ connues' = connues \ {p} /\ trompes' = trompes \ {p}
      /\ UNCHANGED <<sequence, valeur, lignes, acte>>
  BY DEF RelancerServeur, Finis
<1>2. TypeReferences'
  BY <1>1 DEF InvReferences, TypeReferences
<1>3. SuiteTenue'
  BY <1>1 DEF InvReferences, SuiteTenue, Numerote
<1>4. Validees' = Validees /\ Rangs' = Rangs
  BY <1>1 DEF Validees, Rangs
<1>5. RangsTenus' /\ EssaisTenus'
  BY <1>1, <1>4 DEF InvReferences, RangsTenus, EssaisTenus, Porteur
<1>6. QED
  BY <1>2, <1>3, <1>5 DEF InvReferences

LEMMA ImmobileReferences ==
    ASSUME InvReferences, UNCHANGED varsReferences
    PROVE  InvReferences'
<1>1. TypeReferences' /\ SuiteTenue'
  BY DEF varsReferences, InvReferences, TypeReferences, SuiteTenue, Numerote
<1>2. Validees' = Validees /\ Rangs' = Rangs
  BY DEF varsReferences, Validees, Rangs
<1>3. RangsTenus' /\ EssaisTenus'
  BY <1>2 DEF varsReferences, InvReferences, RangsTenus, EssaisTenus, Porteur
<1>4. QED
  BY <1>1, <1>3 DEF InvReferences

LEMMA NextReferencesInv ==
    ASSUME HypothesesReferences, InvReferences, [NextReferences]_varsReferences
    PROVE  InvReferences'
<1>1. ASSUME NEW t \in Actes, Inserer(t) PROVE InvReferences'
  BY <1>1, InsererManque, InsererPris
<1>2. ASSUME NEW t \in Actes, Nextval(t) PROVE InvReferences'
  BY <1>2, NextvalTrouve, NextvalManque
<1>3. ASSUME NEW t \in Actes, ValiderActe(t) PROVE InvReferences'
  BY <1>3, ValiderSansLigne, ValiderLigne
<1>4. QED
  BY <1>1, <1>2, <1>3, ImmobileReferences, RelancerInv, CommencerInv, CompterInv,
     CreerSequenceInv, ReprendreInv, ValiderEnEchecInv, AnnulerInv DEF NextReferences

LEMMA InvReferencesSures ==
    ASSUME HypothesesReferences, InvReferences
    PROVE  ReferencesSures
<1>1. connues \ trompes # {} => sequence.validee
  BY DEF InvReferences, SuiteTenue
<1>2. ASSUME NEW t \in Actes, acte[t].etat = "epuise"
      PROVE  Cardinality(acte[t].croisees) >= Tentatives
  <2>1. /\ IsFiniteSet(acte[t].croisees) /\ acte[t].essai <= Cardinality(acte[t].croisees)
        /\ Tentatives <= acte[t].essai
    BY <1>2 DEF InvReferences, EssaisTenus
  <2>2. acte[t].essai \in Nat /\ Cardinality(acte[t].croisees) \in Nat /\ Tentatives \in Nat
    BY <2>1, FS_CardinalityType DEF InvReferences, TypeReferences, ActeType, HypothesesReferences
  <2>3. QED
    BY <2>1, <2>2
<1>3. \A t, u \in Actes :
         t # u /\ acte[t].etat = "valide" /\ acte[u].etat = "valide" =>
             acte[t].numero # acte[u].numero
  BY DEF InvReferences, SuiteTenue, Numerote
<1>4. \A t \in Actes : acte[t].etat = "introuvable" => acte[t].trompe
  BY DEF InvReferences, SuiteTenue
<1>5. \A l, m \in lignes : l.rang = m.rang => l = m
  BY DEF InvReferences, RangsTenus
<1>6. QED
  BY <1>1, <1>2, <1>3, <1>4, <1>5 DEF ReferencesSures

\* Numbers and ranks are given once, whatever transactions are undone, whatever COMMITs fail and
\* processes start again; no process asks for a sequence that is not there but one whose COMMIT
\* failed, until it starts again; and a declaration gives up only after Tentatives others took its ranks
\* (prochaineValeur, creerAvecReference).
THEOREM NumerosUniques == HypothesesReferences /\ SpecReferences => []ReferencesSures
<1> SUFFICES ASSUME HypothesesReferences PROVE SpecReferences => []ReferencesSures
  OBVIOUS
<1>1. InitReferences => InvReferences
  BY InitReferencesInv
<1>2. InvReferences /\ [NextReferences]_varsReferences => InvReferences'
  BY NextReferencesInv
<1>3. InvReferences => ReferencesSures
  BY InvReferencesSures
<1>4. QED
  BY <1>1, <1>2, <1>3, PTL DEF SpecReferences

-----------------------------------------------------------------------------
(***************************************************************************)
(* Declarations.                                                           *)
(*                                                                         *)
(* The invariant follows the files of a request through its steps (none,   *)
(* all those it uploads, those it has still to clean, those of its row),   *)
(* keeps the numbers of a series without a gap, and says of a number that  *)
(* waits for its insertion that it is at most the next one.                *)
(***************************************************************************)

Numerotees == {"inserer", "inseree"}
Envoyees == {"numeroter"} \cup Numerotees

FichiersPossibles == UNION {Fichiers(r, d) : r \in Demandeurs, d \in Demandes}

RequeteDeclaration ==
    {Disponible, Faite}
    \cup [etape : {"lue"}, demande : Demandes]
    \cup [etape : {"numeroter"}, demande : Demandes, essai : Nat]
    \cup [etape : Numerotees, demande : Demandes, essai : Nat, numero : Nat]
    \cup [etape : {"nettoyer"}, fichiers : SUBSET FichiersPossibles]

Existants == {c \in Demandeurs : Existe(c)}
Series == Categories \cup {Serie(d) : d \in Demandes}
Compte(s) == Cardinality(Numerotes(s))

\* The files of a request, given what it does, those of the storage and those left behind.
Suivis(r, q, stock, laisses) ==
    /\ q.etape \in {"libre", "lue"} => \A f \in stock : f[1] # r
    /\ q.etape \in Envoyees =>
          /\ Fichiers(r, q.demande) \subseteq stock
          /\ \A f \in stock : f[1] = r => f \in Fichiers(r, q.demande)
    /\ q.etape = "nettoyer" =>
          /\ \A f \in q.fichiers : f[1] = r
          /\ \A f \in stock : f[1] = r => f \in q.fichiers
    /\ q.etape = "faite" =>
          \A f \in stock : f[1] = r => f \in laisses \/ (Existe(r) /\ f \in declares[r].fichiers)

FichiersTenus ==
    /\ \A f \in stockage : f[1] \in Demandeurs
    /\ \A r \in Demandeurs : Suivis(r, requete[r], stockage, restes)
    /\ \A c \in Demandeurs : Existe(c) =>
          /\ requete[c].etape = "faite"
          /\ declares[c].fichiers \subseteq stockage
          /\ \A f \in declares[c].fichiers : f[1] = c

\* A number that waits is at most the next one; the number of a row not committed is the next
\* one, and nobody else's in its series.
NumerosTenus ==
    /\ \A r \in Demandeurs :
          /\ A(r, "inserer") => requete[r].numero \in 1 .. Compte(Serie(requete[r].demande)) + 1
          /\ A(r, "inseree") => requete[r].numero = Compte(Serie(requete[r].demande)) + 1
    /\ \A q, r \in Demandeurs :
          A(q, "inseree") /\ A(r, "inseree") /\ Serie(requete[q].demande) = Serie(requete[r].demande)
              => q = r

SeriesTenues ==
    \A s \in Series :
        /\ \A c \in Numerotes(s) : declares[c].numero \in 1 .. Compte(s)
        /\ \A n \in 1 .. Compte(s) : Pris(s, n)

TourneesTenues ==
    \A t \in Tournees : inscrits[t] = Cardinality(Enregistres(t)) /\ inscrits[t] <= Capacite[t]

TypeDeclaration ==
    /\ requete \in [Demandeurs -> RequeteDeclaration]
    /\ declares = [c \in Demandeurs |-> declares[c]]
    /\ inscrits \in [Tournees -> Nat]
    /\ IsFiniteSet(Existants)

InvDeclaration ==
    TypeDeclaration /\ FichiersTenus /\ NumerosTenus /\ SeriesTenues /\ TourneesTenues

-----------------------------------------------------------------------------
(* Lemmas *)

LEMMA DemandeLue ==
    ASSUME TypeDeclaration, NEW r \in Demandeurs
    PROVE  /\ requete[r] \in RequeteDeclaration
           /\ A(r, "lue") => requete[r].demande \in Demandes
           /\ A(r, "numeroter") => requete[r].demande \in Demandes /\ requete[r].essai \in Nat
           /\ requete[r].etape \in Numerotees =>
                 requete[r] \in [etape : Numerotees, demande : Demandes, essai : Nat, numero : Nat]
           /\ requete[r].etape = "libre" => requete[r] = Disponible
           /\ requete[r].etape = "faite" => requete[r] = Faite
BY DEF TypeDeclaration, RequeteDeclaration, A, Numerotees, Disponible, Faite

LEMMA FichiersDeLaRequete ==
    ASSUME NEW r \in Demandeurs, NEW d \in Demandes
    PROVE  /\ \A f \in Fichiers(r, d) : f[1] = r
           /\ Fichiers(r, d) \in SUBSET FichiersPossibles
<1>1. \A f \in Fichiers(r, d) : f[1] = r
  BY DEF Fichiers
<1>2. Fichiers(r, d) \in SUBSET FichiersPossibles
  BY DEF FichiersPossibles
<1>3. QED
  BY <1>1, <1>2

LEMMA ComptesNaturels ==
    ASSUME TypeDeclaration
    PROVE  /\ \A s : IsFiniteSet(Numerotes(s)) /\ Compte(s) \in Nat
           /\ \A t : IsFiniteSet(Enregistres(t)) /\ Cardinality(Enregistres(t)) \in Nat
<1>1. \A s : Numerotes(s) \in SUBSET Existants
  BY DEF Numerotes, Existants
<1>2. \A t : Enregistres(t) \in SUBSET Existants
  BY DEF Enregistres, Existants
<1>3. IsFiniteSet(Existants)
  BY DEF TypeDeclaration
<1>4. \A S \in SUBSET Existants : IsFiniteSet(S) /\ Cardinality(S) \in Nat
  BY <1>3, FS_Subset, FS_CardinalityType
<1>5. QED
  BY <1>1, <1>2, <1>4 DEF Compte

\* What a step that commits nothing leaves as it is.
LEMMA LignesInchangees ==
    ASSUME UNCHANGED <<declares, inscrits>>
    PROVE  /\ Existants' = Existants
           /\ \A c : Existe(c)' = Existe(c)
           /\ \A s : Numerotes(s)' = Numerotes(s) /\ Compte(s)' = Compte(s)
           /\ SeriesTenues => SeriesTenues'
           /\ TourneesTenues => TourneesTenues'
<1>1. \A c : Existe(c)' = Existe(c)
  BY DEF Existe
<1>2. Existants' = Existants
  BY DEF Existants, Existe
<1>3. \A s : Numerotes(s)' = Numerotes(s)
  BY DEF Numerotes, Existe
<1>4. \A s : Compte(s)' = Compte(s)
  BY <1>3 DEF Compte
<1>5. SeriesTenues => SeriesTenues'
  BY <1>3, <1>4 DEF SeriesTenues, Pris
<1>6. \A t : Enregistres(t)' = Enregistres(t)
  BY DEF Enregistres, Existe
<1>7. TourneesTenues => TourneesTenues'
  BY <1>6 DEF TourneesTenues
<1>8. QED
  BY <1>1, <1>2, <1>3, <1>4, <1>5, <1>7

\* What a request may become with its number.
NumeroSuivi(r, q) ==
    /\ q.etape = "inserer" => q.numero \in 1 .. Compte(Serie(q.demande)) + 1
    /\ q.etape = "inseree" =>
          /\ q.numero = Compte(Serie(q.demande)) + 1
          /\ \A p \in Demandeurs \ {r} :
                ~(A(p, "inseree") /\ Serie(requete[p].demande) = Serie(q.demande))

\* A step of one request that commits nothing, and touches its own files alone.
Propre(r, q) ==
    /\ Passer(r, q) /\ UNCHANGED <<declares, inscrits>> /\ ~Existe(r)
    /\ \A f \in stockage' : f \in stockage \/ f[1] = r
    /\ \A f \in stockage : f \in stockage' \/ f[1] = r
    /\ restes \subseteq restes'

LEMMA PropreInv ==
    ASSUME InvDeclaration, NEW r \in Demandeurs, NEW q \in RequeteDeclaration, Propre(r, q),
           Suivis(r, q, stockage', restes'), NumeroSuivi(r, q)
    PROVE  InvDeclaration'
<1>1. \A p \in Demandeurs : requete'[p] = IF p = r THEN q ELSE requete[p]
  BY DEF InvDeclaration, TypeDeclaration, Propre, Passer
<1>2. UNCHANGED <<declares, inscrits>> /\ ~Existe(r)
  BY DEF Propre
<1>3. /\ Existants' = Existants /\ SeriesTenues' /\ TourneesTenues'
      /\ \A c : Existe(c)' = Existe(c)
      /\ \A s : Compte(s)' = Compte(s)
  BY <1>2, LignesInchangees DEF InvDeclaration
<1>4. TypeDeclaration'
  <2>1. requete' \in [Demandeurs -> RequeteDeclaration]
    BY DEF InvDeclaration, TypeDeclaration, Propre, Passer
  <2>2. QED
    BY <1>2, <1>3, <2>1 DEF InvDeclaration, TypeDeclaration
<1>5. \A f \in stockage' : f[1] \in Demandeurs
  BY DEF InvDeclaration, FichiersTenus, Propre
<1>6. ASSUME NEW p \in Demandeurs, p # r
      PROVE  Suivis(p, requete[p], stockage', restes')
  <2>1. \A f : f[1] = p => (f \in stockage' <=> f \in stockage)
    BY <1>6 DEF Propre
  <2>2. Suivis(p, requete[p], stockage, restes)
    BY DEF InvDeclaration, FichiersTenus
  <2>3. restes \subseteq restes'
    BY DEF Propre
  <2>4. requete[p].etape \in {"libre", "lue"} => \A f \in stockage' : f[1] # p
    BY <2>1, <2>2 DEF Suivis
  <2>5. requete[p].etape \in Envoyees =>
          /\ Fichiers(p, requete[p].demande) \subseteq stockage'
          /\ \A f \in stockage' : f[1] = p => f \in Fichiers(p, requete[p].demande)
    <3>1. requete[p].etape \in Envoyees => requete[p].demande \in Demandes
      BY DEF InvDeclaration, TypeDeclaration, RequeteDeclaration, Envoyees, Numerotees,
             Disponible, Faite
    <3>2. QED
      BY <2>1, <2>2, <3>1, FichiersDeLaRequete DEF Suivis
  <2>6. requete[p].etape = "nettoyer" =>
          /\ \A f \in requete[p].fichiers : f[1] = p
          /\ \A f \in stockage' : f[1] = p => f \in requete[p].fichiers
    BY <2>1, <2>2 DEF Suivis
  <2>7. requete[p].etape = "faite" =>
          \A f \in stockage' : f[1] = p =>
              f \in restes' \/ (Existe(p) /\ f \in declares[p].fichiers)
    BY <2>1, <2>2, <2>3 DEF Suivis
  <2>8. QED
    BY <2>4, <2>5, <2>6, <2>7 DEF Suivis
<1>7. \A p \in Demandeurs : Suivis(p, requete'[p], stockage', restes')
  BY <1>1, <1>6
<1>8. \A p \in Demandeurs : Suivis(p, requete[p], stockage, restes)'
  BY <1>2, <1>7 DEF Suivis, Existe
<1>9. ASSUME NEW c \in Demandeurs, Existe(c)
      PROVE  /\ requete'[c].etape = "faite"
             /\ declares[c].fichiers \subseteq stockage'
             /\ \A f \in declares[c].fichiers : f[1] = c
  <2>1. c # r
    BY <1>2, <1>9
  <2>2. /\ requete[c].etape = "faite" /\ declares[c].fichiers \subseteq stockage
        /\ \A f \in declares[c].fichiers : f[1] = c
    BY <1>9 DEF InvDeclaration, FichiersTenus
  <2>3. \A f \in stockage : f[1] = c => f \in stockage'
    BY <2>1 DEF Propre
  <2>4. QED
    BY <1>1, <2>1, <2>2, <2>3
<1>10. FichiersTenus'
  <2>1. \A c \in Demandeurs : Existe(c)' =>
          /\ requete'[c].etape = "faite"
          /\ declares'[c].fichiers \subseteq stockage'
          /\ \A f \in declares'[c].fichiers : f[1] = c
    BY <1>2, <1>3, <1>9
  <2>2. QED
    BY <1>5, <1>8, <2>1 DEF FichiersTenus
<1>11. NumerosTenus'
  <2>1. \A p \in Demandeurs :
          /\ requete'[p].etape = "inserer" =>
                requete'[p].numero \in 1 .. Compte(Serie(requete'[p].demande)) + 1
          /\ requete'[p].etape = "inseree" =>
                requete'[p].numero = Compte(Serie(requete'[p].demande)) + 1
    BY <1>1 DEF InvDeclaration, NumerosTenus, NumeroSuivi, A
  <2>2. \A p, o \in Demandeurs :
          /\ requete'[p].etape = "inseree" /\ requete'[o].etape = "inseree"
          /\ Serie(requete'[p].demande) = Serie(requete'[o].demande)
          => p = o
    BY <1>1 DEF InvDeclaration, NumerosTenus, NumeroSuivi, A
  <2>3. \A d : Serie(d)' = Serie(d)
    BY DEF Serie
  <2>4. QED
    BY <1>3, <2>1, <2>2 DEF NumerosTenus, A, Serie
<1>12. QED
  BY <1>3, <1>4, <1>10, <1>11 DEF InvDeclaration

LEMMA InitDeclarationInv == ASSUME HypothesesDeclaration PROVE InitDeclaration => InvDeclaration
<1> SUFFICES ASSUME InitDeclaration PROVE InvDeclaration
  OBVIOUS
<1>1. \A r \in Demandeurs : requete[r] = Disponible /\ declares[r] = SansColis /\ ~Existe(r)
  BY DEF InitDeclaration, Existe
<1>2. Existants = {} /\ (\A s : Numerotes(s) = {}) /\ (\A t : Enregistres(t) = {})
  BY <1>1 DEF Existants, Numerotes, Enregistres
<1>3. IsFiniteSet({}) /\ Cardinality({}) = 0
  BY FS_EmptySet
<1>4. TypeDeclaration
  BY <1>2, <1>3 DEF InitDeclaration, TypeDeclaration, RequeteDeclaration
<1>5. FichiersTenus
  BY <1>1 DEF InitDeclaration, FichiersTenus, Suivis, Disponible, Envoyees, Numerotees
<1>6. NumerosTenus
  BY <1>1 DEF NumerosTenus, A, Disponible
<1>7. SeriesTenues
  BY <1>2, <1>3 DEF SeriesTenues, Compte
<1>8. \A t \in Tournees : inscrits[t] = 0 /\ Capacite[t] \in Nat
  BY DEF InitDeclaration, HypothesesDeclaration
<1>9. TourneesTenues
  BY <1>2, <1>3, <1>8 DEF TourneesTenues
<1>10. QED
  BY <1>4, <1>5, <1>6, <1>7, <1>9 DEF InvDeclaration

LEMMA EnCoursSansColis ==
    ASSUME InvDeclaration, NEW r \in Demandeurs, requete[r].etape # "faite"
    PROVE  ~Existe(r)
BY DEF InvDeclaration, FichiersTenus

LEMMA SoumettreInv ==
    ASSUME InvDeclaration, NEW r \in Demandeurs, NEW d \in Demandes, Soumettre(r, d)
    PROVE  InvDeclaration'
<1> DEFINE q == [etape |-> "lue", demande |-> d]
<1>1. /\ requete[r] = Disponible /\ Passer(r, q)
      /\ UNCHANGED <<stockage, declares, inscrits, restes>>
  BY DEF Soumettre
<1>2. requete[r].etape = "libre"
  BY <1>1 DEF Disponible
<1>3. q \in RequeteDeclaration
  BY DEF RequeteDeclaration
<1>4. q.etape = "lue"
  OBVIOUS
<1> HIDE DEF q
<1>5. ~Existe(r)
  BY <1>2, EnCoursSansColis
<1>6. Propre(r, q)
  BY <1>1, <1>5 DEF Propre
<1>7. Suivis(r, q, stockage', restes')
  BY <1>1, <1>2, <1>4 DEF Suivis, InvDeclaration, FichiersTenus, Envoyees, Numerotees
<1>8. NumeroSuivi(r, q)
  BY <1>4 DEF NumeroSuivi
<1>9. QED
  BY <1>3, <1>6, <1>7, <1>8, PropreInv

LEMMA TeleverserInv ==
    ASSUME InvDeclaration, NEW r \in Demandeurs, Televerser(r)
    PROVE  InvDeclaration'
<1> DEFINE d == requete[r].demande
           q == [etape |-> "numeroter", demande |-> d, essai |-> 1]
           n(envoyes) == [etape |-> "nettoyer", fichiers |-> envoyes]
<1>1. requete[r].etape = "lue" /\ d \in Demandes
  BY DemandeLue DEF InvDeclaration, Televerser, A
<1>2. PICK envoyes \in SUBSET Fichiers(r, d) :
          /\ stockage' = stockage \cup envoyes
          /\ Passer(r, IF envoyes = Fichiers(r, d) THEN q ELSE n(envoyes))
  BY DEF Televerser
<1>3. UNCHANGED <<declares, inscrits, restes>>
  BY DEF Televerser
<1>4. q \in RequeteDeclaration /\ q.etape = "numeroter" /\ q.demande = d
  BY <1>1 DEF RequeteDeclaration
<1>5. /\ n(envoyes) \in RequeteDeclaration /\ n(envoyes).etape = "nettoyer"
      /\ n(envoyes).fichiers = envoyes
  BY <1>1, FichiersDeLaRequete DEF RequeteDeclaration
<1> HIDE DEF q, n, d
<1>6. \A f \in Fichiers(r, d) : f[1] = r
  BY <1>1, FichiersDeLaRequete
<1>7. \A f \in stockage : f[1] # r
  BY <1>1 DEF InvDeclaration, FichiersTenus, Suivis
<1>8. ~Existe(r)
  BY <1>1, EnCoursSansColis
<1>9. CASE envoyes = Fichiers(r, d)
  <2>1. Passer(r, q)
    BY <1>2, <1>9
  <2>2. Propre(r, q)
    BY <2>1, <1>2, <1>3, <1>6, <1>8 DEF Propre
  <2>3. Suivis(r, q, stockage', restes')
    BY <1>2, <1>4, <1>7, <1>9 DEF Suivis, Envoyees, Numerotees
  <2>4. NumeroSuivi(r, q)
    BY <1>4 DEF NumeroSuivi
  <2>5. QED
    BY <1>4, <2>2, <2>3, <2>4, PropreInv
<1>10. CASE envoyes # Fichiers(r, d)
  <2>1. Passer(r, n(envoyes))
    BY <1>2, <1>10
  <2>2. Propre(r, n(envoyes))
    BY <2>1, <1>2, <1>3, <1>6, <1>8 DEF Propre
  <2>3. Suivis(r, n(envoyes), stockage', restes')
    BY <1>2, <1>5, <1>6, <1>7 DEF Suivis, Envoyees, Numerotees
  <2>4. NumeroSuivi(r, n(envoyes))
    BY <1>5 DEF NumeroSuivi
  <2>5. QED
    BY <1>5, <2>2, <2>3, <2>4, PropreInv
<1>11. QED
  BY <1>9, <1>10

LEMMA NettoyerInv ==
    ASSUME InvDeclaration, NEW r \in Demandeurs, Nettoyer(r)
    PROVE  InvDeclaration'
<1>1. PICK refuses \in SUBSET ANettoyer(r) :
          /\ stockage' = stockage \ (ANettoyer(r) \ refuses)
          /\ restes' = restes \cup refuses
  BY DEF Nettoyer
<1>2. requete[r].etape = "nettoyer" /\ Passer(r, Faite) /\ UNCHANGED <<declares, inscrits>>
  BY DEF Nettoyer, A
<1>3. /\ \A f \in ANettoyer(r) : f[1] = r
      /\ \A f \in stockage : f[1] = r => f \in ANettoyer(r)
  BY <1>2 DEF InvDeclaration, FichiersTenus, Suivis, ANettoyer
<1>4. ~Existe(r)
  BY <1>2, EnCoursSansColis
<1>5. Faite \in RequeteDeclaration /\ Faite.etape = "faite"
  BY DEF Faite, RequeteDeclaration
<1>6. Propre(r, Faite)
  BY <1>1, <1>2, <1>3, <1>4 DEF Propre
<1>7. Suivis(r, Faite, stockage', restes')
  BY <1>1, <1>3, <1>5 DEF Suivis, Envoyees, Numerotees
<1>8. NumeroSuivi(r, Faite)
  BY <1>5 DEF NumeroSuivi
<1>9. QED
  BY <1>5, <1>6, <1>7, <1>8, PropreInv

\* A request in the transaction that goes on with the same files.
LEMMA PoursuiteSuivie ==
    ASSUME InvDeclaration, NEW r \in Demandeurs, requete[r].etape \in Envoyees,
           NEW q, q.etape \in Envoyees, q.demande = requete[r].demande,
           Passer(r, q), UNCHANGED <<stockage, declares, inscrits, restes>>
    PROVE  Propre(r, q) /\ Suivis(r, q, stockage', restes')
<1>1. ~Existe(r)
  BY EnCoursSansColis DEF Envoyees, Numerotees
<1>2. Propre(r, q)
  BY <1>1 DEF Propre
<1>3. Suivis(r, requete[r], stockage, restes)
  BY DEF InvDeclaration, FichiersTenus
<1>4. Suivis(r, q, stockage, restes)
  BY <1>3 DEF Suivis, Envoyees, Numerotees
<1>5. QED
  BY <1>2, <1>4

LEMMA NumeroterInv ==
    ASSUME InvDeclaration, NEW r \in Demandeurs, Numeroter(r)
    PROVE  InvDeclaration'
<1> DEFINE s == Serie(requete[r].demande)
           q == [etape |-> "inserer", demande |-> requete[r].demande, essai |-> requete[r].essai,
                 numero |-> Compte(s) + 1]
<1>1. requete[r].etape = "numeroter" /\ requete[r].demande \in Demandes /\ requete[r].essai \in Nat
  BY DemandeLue DEF InvDeclaration, Numeroter, A
<1>2. Passer(r, q) /\ UNCHANGED <<stockage, declares, inscrits, restes>>
  BY DEF Numeroter, Compte
<1>3. Compte(s) \in Nat
  BY ComptesNaturels DEF InvDeclaration
<1>4. q \in RequeteDeclaration
  BY <1>1, <1>3 DEF RequeteDeclaration, Numerotees
<1>5. q.etape = "inserer" /\ q.demande = requete[r].demande /\ q.numero = Compte(s) + 1
  OBVIOUS
<1> HIDE DEF q
<1>6. Propre(r, q) /\ Suivis(r, q, stockage', restes')
  BY <1>1, <1>2, <1>5, PoursuiteSuivie DEF Envoyees, Numerotees
<1>7. NumeroSuivi(r, q)
  BY <1>3, <1>5 DEF NumeroSuivi
<1>8. QED
  BY <1>4, <1>6, <1>7, PropreInv

\* Its files are to be deleted: the transaction failed.
LEMMA EchouerInv ==
    ASSUME InvDeclaration, NEW r \in Demandeurs, requete[r].etape \in Numerotees, Echouer(r),
           UNCHANGED <<stockage, declares, inscrits, restes>>
    PROVE  InvDeclaration'
<1> DEFINE F == Fichiers(r, requete[r].demande)
           q == [etape |-> "nettoyer", fichiers |-> F]
<1>1. requete[r].demande \in Demandes
  BY DemandeLue DEF InvDeclaration
<1>2. (\A f \in F : f[1] = r) /\ F \in SUBSET FichiersPossibles
  BY <1>1, FichiersDeLaRequete
<1>3. Passer(r, q)
  BY DEF Echouer
<1> HIDE DEF F
<1>4. q \in RequeteDeclaration /\ q.etape = "nettoyer" /\ q.fichiers = F
  BY <1>2 DEF RequeteDeclaration
<1> HIDE DEF q
<1>5. ~Existe(r)
  BY EnCoursSansColis DEF Numerotees
<1>6. Propre(r, q)
  BY <1>3, <1>5 DEF Propre
<1>7. \A f \in stockage : f[1] = r => f \in F
  BY DEF InvDeclaration, FichiersTenus, Suivis, Envoyees, F
<1>8. Suivis(r, q, stockage', restes')
  BY <1>2, <1>4, <1>7 DEF Suivis, Envoyees, Numerotees
<1>9. NumeroSuivi(r, q)
  BY <1>4 DEF NumeroSuivi
<1>10. QED
  BY <1>4, <1>6, <1>8, <1>9, PropreInv

\* A number that is not taken and that nobody holds is the next one.
LEMMA NumeroLibre ==
    ASSUME InvDeclaration, NEW r \in Demandeurs, A(r, "inserer"), ~Tenu(r),
           ~Pris(Serie(requete[r].demande), requete[r].numero)
    PROVE  /\ requete[r].numero = Compte(Serie(requete[r].demande)) + 1
           /\ \A p \in Demandeurs \ {r} :
                 ~(A(p, "inseree") /\ Serie(requete[p].demande) = Serie(requete[r].demande))
<1> DEFINE s == Serie(requete[r].demande)
<1>1. requete[r].demande \in Demandes
  BY DemandeLue DEF InvDeclaration, A, Numerotees
<1>2. s \in Series
  BY <1>1 DEF Series
<1>3. Compte(s) \in Nat
  BY ComptesNaturels DEF InvDeclaration
<1>4. requete[r].numero \in 1 .. Compte(s) + 1
  BY DEF InvDeclaration, NumerosTenus
<1>5. requete[r].numero \notin 1 .. Compte(s)
  BY <1>2 DEF InvDeclaration, SeriesTenues
<1>6. requete[r].numero = Compte(s) + 1
  BY <1>3, <1>4, <1>5
<1>7. ASSUME NEW p \in Demandeurs \ {r}, A(p, "inseree"), Serie(requete[p].demande) = s
      PROVE  FALSE
  <2>1. requete[p].numero = Compte(s) + 1
    BY <1>7 DEF InvDeclaration, NumerosTenus
  <2>2. QED
    BY <2>1, <1>6, <1>7 DEF Tenu
<1>8. QED
  BY <1>6, <1>7

LEMMA IntroduireColisInv ==
    ASSUME InvDeclaration, NEW r \in Demandeurs, IntroduireColis(r)
    PROVE  InvDeclaration'
<1>1. /\ A(r, "inserer") /\ requete[r].etape \in Numerotees /\ requete[r].etape \in Envoyees
      /\ requete[r] \in [etape : Numerotees, demande : Demandes, essai : Nat, numero : Nat]
  BY DemandeLue DEF InvDeclaration, IntroduireColis, A, Numerotees, Envoyees
<1>2. ~Tenu(r) /\ UNCHANGED <<stockage, declares, inscrits, restes>>
  BY DEF IntroduireColis
<1>3. CASE ~Pris(Serie(requete[r].demande), requete[r].numero)
  <2> DEFINE q == [requete[r] EXCEPT !.etape = "inseree"]
  <2>1. Passer(r, q)
    BY <1>3 DEF IntroduireColis
  <2>2. /\ q \in RequeteDeclaration /\ q.etape = "inseree" /\ q.demande = requete[r].demande
        /\ q.numero = requete[r].numero
    BY <1>1 DEF RequeteDeclaration, Numerotees
  <2> HIDE DEF q
  <2>3. Propre(r, q) /\ Suivis(r, q, stockage', restes')
    BY <1>1, <1>2, <2>1, <2>2, PoursuiteSuivie DEF Envoyees, Numerotees
  <2>4. NumeroSuivi(r, q)
    BY <1>1, <1>2, <1>3, <2>2, NumeroLibre DEF NumeroSuivi
  <2>5. QED
    BY <2>2, <2>3, <2>4, PropreInv
<1>4. CASE Pris(Serie(requete[r].demande), requete[r].numero) /\ requete[r].essai < Essais
  <2> DEFINE q == [etape |-> "numeroter", demande |-> requete[r].demande,
                   essai |-> requete[r].essai + 1]
  <2>1. Passer(r, q)
    BY <1>4 DEF IntroduireColis
  <2>2. q \in RequeteDeclaration /\ q.etape = "numeroter" /\ q.demande = requete[r].demande
    BY <1>1 DEF RequeteDeclaration
  <2> HIDE DEF q
  <2>3. Propre(r, q) /\ Suivis(r, q, stockage', restes')
    BY <1>1, <1>2, <2>1, <2>2, PoursuiteSuivie DEF Envoyees, Numerotees
  <2>4. NumeroSuivi(r, q)
    BY <2>2 DEF NumeroSuivi
  <2>5. QED
    BY <2>2, <2>3, <2>4, PropreInv
<1>5. CASE Pris(Serie(requete[r].demande), requete[r].numero) /\ ~(requete[r].essai < Essais)
  <2>1. Echouer(r)
    BY <1>5 DEF IntroduireColis
  <2>2. QED
    BY <1>1, <1>2, <2>1, EchouerInv
<1>6. QED
  BY <1>3, <1>4, <1>5

LEMMA ReserverInv ==
    ASSUME InvDeclaration, NEW r \in Demandeurs, Reserver(r)
    PROVE  InvDeclaration'
BY EchouerInv DEF Reserver, A, Numerotees

\* The row of a request joins those of its series, under the next number, and of its round.
LEMMA ValiderInv ==
    ASSUME HypothesesDeclaration, InvDeclaration, NEW r \in Demandeurs, Valider(r)
    PROVE  InvDeclaration'
<1> DEFINE d == requete[r].demande
           l == LigneColis(r)
           s0 == Serie(d)
           t0 == TourneeDe(d)
<1>1. /\ requete[r].etape = "inseree" /\ PlaceRestante(t0) /\ Passer(r, Faite)
      /\ declares' = [declares EXCEPT ![r] = l]
      /\ inscrits' = IF t0 = Neant THEN inscrits ELSE [inscrits EXCEPT ![t0] = @ + 1]
      /\ UNCHANGED <<stockage, restes>>
  BY DEF Valider, A
<1>2. d \in Demandes /\ s0 \in Series
  BY <1>1, DemandeLue DEF InvDeclaration, Numerotees, Series
<1>3. ~Existe(r)
  BY <1>1, EnCoursSansColis
<1>4. Compte(s0) \in Nat
  BY ComptesNaturels DEF InvDeclaration
<1>5. /\ l.numero = Compte(s0) + 1 /\ l.demande = d /\ l.tournee = t0
      /\ l.fichiers = Fichiers(r, d)
  BY <1>1 DEF LigneColis, InvDeclaration, NumerosTenus, A
<1> HIDE DEF l
<1>6. l # SansColis
  BY <1>4, <1>5 DEF SansColis
<1>7. \A c \in Demandeurs : declares'[c] = IF c = r THEN l ELSE declares[c]
  BY <1>1 DEF InvDeclaration, TypeDeclaration
<1>8. \A p \in Demandeurs : requete'[p] = IF p = r THEN Faite ELSE requete[p]
  BY <1>1 DEF InvDeclaration, TypeDeclaration, Passer
<1>9. \A c \in Demandeurs : Existe(c)' <=> c = r \/ Existe(c)
  BY <1>6, <1>7 DEF Existe
<1>10. \A s : Numerotes(s)' = IF s = s0 THEN Numerotes(s) \cup {r} ELSE Numerotes(s)
  <2>1. \A s : \A c \in Demandeurs :
           c \in Numerotes(s)' <=> c \in Numerotes(s) \/ (c = r /\ s = s0)
    BY <1>3, <1>5, <1>7, <1>9 DEF Numerotes, Serie
  <2>2. \A s : Numerotes(s)' \in SUBSET Demandeurs /\ Numerotes(s) \in SUBSET Demandeurs
    BY DEF Numerotes
  <2>3. QED
    BY <2>1, <2>2
<1>11. \A s : r \notin Numerotes(s) /\ IsFiniteSet(Numerotes(s)) /\ Compte(s) \in Nat
  BY <1>3, ComptesNaturels DEF Numerotes, InvDeclaration
<1>12. \A s : Compte(s)' = IF s = s0 THEN Compte(s) + 1 ELSE Compte(s)
  BY <1>10, <1>11, FS_AddElement DEF Compte
<1>13. Faite \in RequeteDeclaration /\ Faite.etape = "faite"
  BY DEF Faite, RequeteDeclaration
<1>14. TypeDeclaration'
  <2>1. requete' \in [Demandeurs -> RequeteDeclaration]
    BY <1>1, <1>13 DEF InvDeclaration, TypeDeclaration, Passer
  <2>2. declares' = [c \in Demandeurs |-> declares'[c]]
    BY <1>1 DEF InvDeclaration, TypeDeclaration
  <2>3. inscrits' \in [Tournees -> Nat]
    <3>1. inscrits \in [Tournees -> Nat]
      BY DEF InvDeclaration, TypeDeclaration
    <3>2. CASE t0 = Neant
      BY <3>1, <3>2, <1>1
    <3>3. CASE t0 # Neant
      <4>1. inscrits' = [inscrits EXCEPT ![t0] = inscrits[t0] + 1]
        BY <3>3, <1>1
      <4>2. PICK g \in [Tournees -> Nat] : g = inscrits
        BY <3>1
      <4>3. PICK u : u = t0
        OBVIOUS
      <4>4. inscrits' = [t \in Tournees |-> IF t = u THEN g[t] + 1 ELSE g[t]]
        BY <4>1, <4>2, <4>3
      <4>5. \A t \in Tournees : g[t] \in Nat /\ g[t] + 1 \in Nat
        BY <4>2
      <4>6. \A t \in Tournees : (IF t = u THEN g[t] + 1 ELSE g[t]) \in Nat
        BY <4>5
      <4>7. QED
        BY <4>4, <4>6
    <3>4. QED
      BY <3>2, <3>3
  <2>4. Existants' = Existants \cup {r}
    BY <1>9 DEF Existants
  <2>5. IsFiniteSet(Existants')
    BY <2>4, FS_AddElement DEF InvDeclaration, TypeDeclaration
  <2>6. QED
    BY <2>1, <2>2, <2>3, <2>5 DEF TypeDeclaration
<1>15. FichiersTenus'
  <2>1. /\ Fichiers(r, d) \subseteq stockage
        /\ \A f \in stockage : f[1] = r => f \in Fichiers(r, d)
    BY <1>1 DEF InvDeclaration, FichiersTenus, Suivis, Envoyees, Numerotees
  <2>2. \A f \in Fichiers(r, d) : f[1] = r
    BY <1>2, FichiersDeLaRequete
  <2>3. ASSUME NEW p \in Demandeurs
        PROVE  Suivis(p, requete[p], stockage, restes)'
    <3>1. CASE p = r
      <4>1. requete'[p].etape = "faite" /\ Existe(p)' /\ declares'[p].fichiers = Fichiers(r, d)
        BY <3>1, <1>5, <1>7, <1>8, <1>9, <1>13
      <4>2. QED
        BY <4>1, <3>1, <1>1, <2>1 DEF Suivis, Envoyees, Numerotees
    <3>2. CASE p # r
      <4>1. requete'[p] = requete[p] /\ declares'[p] = declares[p] /\ (Existe(p)' <=> Existe(p))
        BY <3>2, <1>7, <1>8, <1>9
      <4>2. Suivis(p, requete[p], stockage, restes)
        BY DEF InvDeclaration, FichiersTenus
      <4>3. QED
        BY <4>1, <4>2, <1>1 DEF Suivis, Fichiers
    <3>3. QED
      BY <3>1, <3>2
  <2>4. ASSUME NEW c \in Demandeurs, Existe(c)'
        PROVE  /\ requete'[c].etape = "faite"
               /\ declares'[c].fichiers \subseteq stockage'
               /\ \A f \in declares'[c].fichiers : f[1] = c
    <3>1. CASE c = r
      BY <3>1, <2>1, <2>2, <1>1, <1>5, <1>7, <1>8, <1>13
    <3>2. CASE c # r
      BY <3>2, <2>4, <1>1, <1>7, <1>8, <1>9 DEF InvDeclaration, FichiersTenus
    <3>3. QED
      BY <3>1, <3>2
  <2>5. \A f \in stockage' : f[1] \in Demandeurs
    BY <1>1 DEF InvDeclaration, FichiersTenus
  <2>6. QED
    BY <2>3, <2>4, <2>5 DEF FichiersTenus
<1>16. NumerosTenus'
  <2>1. \A p \in Demandeurs : requete'[p].etape = "inseree" => p # r /\ Serie(requete[p].demande) # s0
    BY <1>1, <1>8, <1>13 DEF InvDeclaration, NumerosTenus, A
  <2>2. \A p \in Demandeurs : requete'[p].etape \in {"inserer", "inseree"} =>
           p # r /\ requete'[p] = requete[p]
    BY <1>8, <1>13
  <2>3. ASSUME NEW p \in Demandeurs, requete'[p].etape \in {"inserer", "inseree"}
        PROVE  /\ requete'[p].etape = "inserer" =>
                     requete'[p].numero \in 1 .. (Compte(Serie(requete[p].demande))' + 1)
               /\ requete'[p].etape = "inseree" =>
                     requete'[p].numero = Compte(Serie(requete[p].demande))' + 1
    <3>1. PICK q : q = requete[p]
      OBVIOUS
    <3>2. requete'[p] = q /\ p # r
      BY <2>2, <2>3, <3>1
    <3>3. PICK s : s = Serie(q.demande)
      OBVIOUS
    <3>4. s = Serie(requete[p].demande) /\ s = Serie(requete[p].demande)'
      BY <3>1, <3>2, <3>3 DEF Serie
    <3>5. /\ q.etape = "inserer" => q.numero \in 1 .. Compte(s) + 1
          /\ q.etape = "inseree" => q.numero = Compte(s) + 1 /\ s # s0
      BY <2>1, <3>1, <3>2, <3>4 DEF InvDeclaration, NumerosTenus, A
    <3>6. Compte(s) \in Nat /\ Compte(s)' = IF s = s0 THEN Compte(s) + 1 ELSE Compte(s)
      BY <1>11, <1>12
    <3>7. Compte(Serie(requete[p].demande))' = Compte(s)'
      BY <3>4
    <3>8. QED
      BY <3>2, <3>5, <3>6, <3>7
  <2>4. ASSUME NEW p \in Demandeurs, NEW q \in Demandeurs,
               requete'[p].etape = "inseree", requete'[q].etape = "inseree",
               Serie(requete'[p].demande) = Serie(requete'[q].demande)
        PROVE  p = q
    BY <2>2, <2>4 DEF InvDeclaration, NumerosTenus, A
  <2>5. QED
    BY <2>3, <2>4 DEF NumerosTenus, A, Serie
<1>17. SeriesTenues'
  <2>1. ASSUME NEW s \in Series
        PROVE  /\ \A c \in Numerotes(s)' : declares'[c].numero \in 1 .. Compte(s)'
               /\ \A n \in 1 .. Compte(s)' : \E c \in Numerotes(s)' : declares'[c].numero = n
    <3>1. /\ \A c \in Numerotes(s) : declares[c].numero \in 1 .. Compte(s)
          /\ \A n \in 1 .. Compte(s) : \E c \in Numerotes(s) : declares[c].numero = n
      BY DEF InvDeclaration, SeriesTenues, Pris
    <3>2. \A c \in Numerotes(s) : declares'[c] = declares[c]
      BY <1>7, <1>11 DEF Numerotes
    <3>3. CASE s # s0
      BY <3>1, <3>2, <3>3, <1>10, <1>12
    <3>4. CASE s = s0
      <4>1. Numerotes(s)' = Numerotes(s) \cup {r} /\ Compte(s)' = Compte(s) + 1 /\ Compte(s) \in Nat
        BY <3>4, <1>4, <1>10, <1>12
      <4>2. declares'[r].numero = Compte(s) + 1
        BY <3>4, <1>5, <1>7
      <4>3. \A n \in 1 .. Compte(s) + 1 : n \in 1 .. Compte(s) \/ n = Compte(s) + 1
        BY <4>1
      <4>4. \A c \in Numerotes(s)' : declares'[c].numero \in 1 .. Compte(s)'
        BY <3>1, <3>2, <4>1, <4>2
      <4>5. \A n \in 1 .. Compte(s)' : \E c \in Numerotes(s)' : declares'[c].numero = n
        BY <3>1, <3>2, <4>1, <4>2, <4>3
      <4>6. QED
        BY <4>4, <4>5
    <3>5. QED
      BY <3>3, <3>4
  <2>2. Series' = Series
    BY DEF Series, Serie
  <2>3. QED
    BY <2>1, <2>2 DEF SeriesTenues, Pris
<1>18. TourneesTenues'
  <2>1. ASSUME NEW t \in Tournees
        PROVE  inscrits'[t] = Cardinality(Enregistres(t)') /\ inscrits'[t] <= Capacite[t]
    <3>1. /\ inscrits[t] = Cardinality(Enregistres(t)) /\ inscrits[t] <= Capacite[t]
          /\ inscrits[t] \in Nat /\ Capacite[t] \in Nat
      BY DEF InvDeclaration, TourneesTenues, TypeDeclaration, HypothesesDeclaration
    <3>2. IsFiniteSet(Enregistres(t)) /\ r \notin Enregistres(t)
      BY <1>3, ComptesNaturels DEF Enregistres, InvDeclaration
    <3>3. t # Neant
      BY DEF HypothesesDeclaration
    <3>4. CASE t = t0
      <4>1. inscrits'[t] = inscrits[t] + 1 /\ inscrits[t] < Capacite[t]
        BY <3>3, <3>4, <1>1 DEF InvDeclaration, TypeDeclaration, PlaceRestante
      <4>2. Enregistres(t)' = Enregistres(t) \cup {r}
        BY <3>4, <1>5, <1>7, <1>9 DEF Enregistres
      <4>3. Cardinality(Enregistres(t)') = Cardinality(Enregistres(t)) + 1
        BY <3>2, <4>2, FS_AddElement
      <4>4. inscrits'[t] = Cardinality(Enregistres(t)')
        BY <3>1, <4>1, <4>3
      <4>5. inscrits'[t] <= Capacite[t]
        BY <3>1, <4>1
      <4>6. QED
        BY <4>4, <4>5
    <3>5. CASE t # t0
      <4>1. inscrits'[t] = inscrits[t]
        BY <3>5, <1>1 DEF InvDeclaration, TypeDeclaration
      <4>2. Enregistres(t)' = Enregistres(t)
        BY <3>5, <1>3, <1>5, <1>7, <1>9 DEF Enregistres
      <4>3. QED
        BY <3>1, <4>1, <4>2
    <3>6. QED
      BY <3>4, <3>5
  <2>2. QED
    BY <2>1 DEF TourneesTenues
<1>19. QED
  BY <1>14, <1>15, <1>16, <1>17, <1>18 DEF InvDeclaration

LEMMA ArreterInv ==
    ASSUME InvDeclaration, NEW R \in SUBSET Demandeurs, Arreter(R)
    PROVE  InvDeclaration'
<1>1. /\ \A r \in Demandeurs : requete'[r] = IF r \in R THEN Faite ELSE requete[r]
      /\ requete' = [r \in Demandeurs |-> IF r \in R THEN Faite ELSE requete[r]]
      /\ restes' = restes \cup Stockes(R) /\ UNCHANGED <<stockage, declares, inscrits>>
  BY DEF Arreter
<1>2. Faite \in RequeteDeclaration /\ Faite.etape = "faite"
  BY DEF Faite, RequeteDeclaration
<1>3. /\ Existants' = Existants /\ SeriesTenues' /\ TourneesTenues'
      /\ \A c : Existe(c)' = Existe(c)
      /\ \A s : Compte(s)' = Compte(s)
  BY <1>1, LignesInchangees DEF InvDeclaration
<1>4. TypeDeclaration'
  <2>1. requete' \in [Demandeurs -> RequeteDeclaration]
    BY <1>1, <1>2 DEF InvDeclaration, TypeDeclaration
  <2>2. QED
    BY <1>1, <1>3, <2>1 DEF InvDeclaration, TypeDeclaration
<1>5. ASSUME NEW p \in Demandeurs
      PROVE  Suivis(p, requete[p], stockage, restes)'
  <2>1. Suivis(p, requete[p], stockage, restes)
    BY DEF InvDeclaration, FichiersTenus
  <2>2. CASE p \in R
    <3>1. \A f \in stockage : f[1] = p => f \in restes'
      BY <2>2, <1>1 DEF Stockes
    <3>2. QED
      BY <3>1, <2>2, <1>1, <1>2 DEF Suivis, Envoyees, Numerotees
  <2>3. CASE p \notin R
    <3>1. requete'[p] = requete[p] /\ declares' = declares /\ (Existe(p)' <=> Existe(p))
      BY <2>3, <1>1, <1>3
    <3>2. restes \subseteq restes' /\ stockage' = stockage
      BY <1>1
    <3>3. QED
      BY <2>1, <3>1, <3>2 DEF Suivis, Fichiers
  <2>4. QED
    BY <2>2, <2>3
<1>6. FichiersTenus'
  <2>1. \A c \in Demandeurs : Existe(c) => requete'[c].etape = "faite"
    BY <1>1, <1>2 DEF InvDeclaration, FichiersTenus
  <2>2. QED
    BY <1>1, <1>3, <1>5, <2>1 DEF InvDeclaration, FichiersTenus
<1>7. NumerosTenus'
  <2>1. \A p \in Demandeurs : requete'[p].etape \in {"inserer", "inseree"} => requete'[p] = requete[p]
    BY <1>1, <1>2
  <2>2. \A p \in Demandeurs :
          /\ requete'[p].etape = "inserer" =>
                requete'[p].numero \in 1 .. Compte(Serie(requete'[p].demande)) + 1
          /\ requete'[p].etape = "inseree" =>
                requete'[p].numero = Compte(Serie(requete'[p].demande)) + 1
    BY <2>1 DEF InvDeclaration, NumerosTenus, A
  <2>3. \A p, o \in Demandeurs :
          /\ requete'[p].etape = "inseree" /\ requete'[o].etape = "inseree"
          /\ Serie(requete'[p].demande) = Serie(requete'[o].demande)
          => p = o
    BY <2>1 DEF InvDeclaration, NumerosTenus, A
  <2>4. QED
    BY <1>3, <2>2, <2>3 DEF NumerosTenus, A, Serie
<1>8. QED
  BY <1>3, <1>4, <1>6, <1>7 DEF InvDeclaration

LEMMA NextDeclarationInv ==
    ASSUME HypothesesDeclaration, InvDeclaration, [NextDeclaration]_varsDeclaration
    PROVE  InvDeclaration'
<1>1. CASE UNCHANGED varsDeclaration
  <2>1. UNCHANGED <<requete, stockage, declares, inscrits, restes>>
    BY <1>1 DEF varsDeclaration
  <2>2. /\ Existants' = Existants /\ SeriesTenues' /\ TourneesTenues'
        /\ \A c : Existe(c)' = Existe(c)
        /\ \A s : Compte(s)' = Compte(s)
    BY <2>1, LignesInchangees DEF InvDeclaration
  <2>3. TypeDeclaration'
    BY <2>1, <2>2 DEF InvDeclaration, TypeDeclaration
  <2>4. FichiersTenus'
    BY <2>1, <2>2 DEF InvDeclaration, FichiersTenus, Suivis, Fichiers, Existe
  <2>5. NumerosTenus'
    BY <2>1, <2>2 DEF InvDeclaration, NumerosTenus, A, Serie
  <2>6. QED
    BY <2>2, <2>3, <2>4, <2>5 DEF InvDeclaration
<1>2. QED
  BY <1>1, SoumettreInv, TeleverserInv, NettoyerInv, NumeroterInv, IntroduireColisInv, ValiderInv,
     ReserverInv, ArreterInv DEF NextDeclaration

LEMMA InvDeclarationJuste ==
    ASSUME InvDeclaration
    PROVE  DeclarationJuste
<1>1. ASSUME NEW f \in stockage \ restes
      PROVE  (Existe(f[1]) /\ f \in declares[f[1]].fichiers) \/ EnInstance(f[1])
  <2>1. f[1] \in Demandeurs /\ Suivis(f[1], requete[f[1]], stockage, restes)
    BY DEF InvDeclaration, FichiersTenus
  <2>2. requete[f[1]].etape # "libre"
    BY <2>1 DEF Suivis
  <2>3. QED
    BY <2>1, <2>2 DEF Suivis, EnInstance
<1>2. \A c \in Demandeurs : Existe(c) => declares[c].fichiers \subseteq stockage
  BY DEF InvDeclaration, FichiersTenus
<1>3. ASSUME NEW s \in Categories
      PROVE  {declares[c].numero : c \in Numerotes(s)} = 1 .. Cardinality(Numerotes(s))
  BY DEF InvDeclaration, SeriesTenues, Series, Compte, Pris
<1>4. \A t \in Tournees : inscrits[t] = Cardinality(Enregistres(t)) /\ inscrits[t] <= Capacite[t]
  BY DEF InvDeclaration, TourneesTenues
<1>5. QED
  BY <1>1, <1>2, <1>3, <1>4 DEF DeclarationJuste, FichiersSuivis, DeclarationsEntieres

\* No file is left without a parcel, no parcel without its files, and the parcels of a series
\* are numbered without a gap or a double, whatever requests cross, fail or stop
\* (declarerExpedition).
THEOREM DeclarationsJustes == HypothesesDeclaration /\ SpecDeclaration => []DeclarationJuste
<1> SUFFICES ASSUME HypothesesDeclaration PROVE SpecDeclaration => []DeclarationJuste
  OBVIOUS
<1>1. InitDeclaration => InvDeclaration
  BY InitDeclarationInv
<1>2. InvDeclaration /\ [NextDeclaration]_varsDeclaration => InvDeclaration'
  BY NextDeclarationInv
<1>3. InvDeclaration => DeclarationJuste
  BY InvDeclarationJuste
<1>4. QED
  BY <1>1, <1>2, <1>3, PTL DEF SpecDeclaration

-----------------------------------------------------------------------------
(***************************************************************************)
(* Caches.                                                                 *)
(*                                                                         *)
(* What an entry has left to live bounds the age of what it holds, and a   *)
(* load in flight has read nothing older than itself.                      *)
(***************************************************************************)

Valeurs == [valeur : Int, reste : Int, croise : BOOLEAN]
Chargements == [lu : Int, duree : Int, croise : BOOLEAN]

TypeCaches ==
    /\ version \in 0 .. EcrituresMax
    /\ remplacee \in [0 .. EcrituresMax -> Nat]
    /\ \A v \in version .. EcrituresMax : remplacee[v] = 0
    /\ entree \in [Processus -> Valeurs \cup {SansEntree}]
    /\ charges \in [Processus -> [Lectures -> Chargements \cup {SansEntree}]]
    /\ DOMAIN ecrite = Processus /\ DOMAIN invalidee = Processus
    /\ \A p \in Processus :
          /\ ecrite[p] # SansEntree => ecrite[p] \in 0 .. version
          /\ invalidee[p] \in 0 .. version

\* A load has read what was replaced since it started at most; the entry ages with the clock.
ChargeTenue(p, c) ==
    /\ c.duree \in 0 .. DureeMax
    /\ c.lu \in 0 .. version
    /\ remplacee[c.lu] <= c.duree
    /\ c.croise \/ c.lu >= invalidee[p]

EntreeTenue(p, e) ==
    /\ e.reste \in 0 .. TTL
    /\ e.valeur # Repli =>
          /\ e.valeur \in 0 .. version
          /\ remplacee[e.valeur] <= DureeMax + (TTL - e.reste)
          /\ e.croise \/ e.valeur >= invalidee[p]

ChargesTenues ==
    \A p \in Processus, l \in Lectures :
        charges[p][l] # SansEntree => ChargeTenue(p, charges[p][l])

EntreesTenues == \A p \in Processus : entree[p] # SansEntree => EntreeTenue(p, entree[p])

InvCaches == TypeCaches /\ ChargesTenues /\ EntreesTenues

-----------------------------------------------------------------------------

LEMMA ChargerInv ==
    ASSUME HypothesesCaches, InvCaches, NEW p \in Processus, NEW l \in Lectures, Charger(p, l)
    PROVE  InvCaches'
<1> DEFINE c0 == [lu |-> version, duree |-> 0, croise |-> FALSE]
<1>1. /\ c0 \in Chargements
      /\ UNCHANGED <<version, remplacee, entree, ecrite, invalidee>>
      /\ charges' = [charges EXCEPT ![p][l] = c0]
  BY DEF Charger, Chargements, InvCaches, TypeCaches
<1>2. ChargeTenue(p, c0)
  BY DEF ChargeTenue, InvCaches, TypeCaches, HypothesesCaches
<1> HIDE DEF c0
<1>3. \A q \in Processus, k \in Lectures :
         charges'[q][k] = IF q = p /\ k = l THEN c0 ELSE charges[q][k]
  BY <1>1 DEF InvCaches, TypeCaches
<1>4. TypeCaches'
  BY <1>1 DEF InvCaches, TypeCaches
<1>5. ChargesTenues'
  BY <1>1, <1>2, <1>3 DEF InvCaches, ChargesTenues, ChargeTenue
<1>6. EntreesTenues'
  BY <1>1 DEF InvCaches, EntreesTenues, EntreeTenue
<1>7. QED
  BY <1>4, <1>5, <1>6 DEF InvCaches

\* A load that ends, whether it brings an entry or not.
LEMMA FinInv ==
    ASSUME HypothesesCaches, InvCaches, NEW p \in Processus, NEW l \in Lectures,
           NEW e \in Valeurs, EntreeTenue(p, e),
           entree' = entree \/ entree' = [entree EXCEPT ![p] = e],
           charges' = [charges EXCEPT ![p][l] = SansEntree],
           UNCHANGED <<version, remplacee, ecrite, invalidee>>
    PROVE  InvCaches'
<1>1. \A q \in Processus, k \in Lectures :
         charges'[q][k] = IF q = p /\ k = l THEN SansEntree ELSE charges[q][k]
  BY DEF InvCaches, TypeCaches
<1>2. \A q \in Processus : entree'[q] = entree[q] \/ (q = p /\ entree'[q] = e)
  BY DEF InvCaches, TypeCaches
<1>3. TypeCaches'
  BY DEF InvCaches, TypeCaches
<1>4. ChargesTenues'
  BY <1>1 DEF InvCaches, ChargesTenues, ChargeTenue
<1>5. EntreesTenues'
  BY <1>2 DEF InvCaches, EntreesTenues, EntreeTenue
<1>6. QED
  BY <1>3, <1>4, <1>5 DEF InvCaches

LEMMA MemoriserInv ==
    ASSUME HypothesesCaches, InvCaches, NEW p \in Processus, NEW l \in Lectures, Memoriser(p, l)
    PROVE  InvCaches'
<1>1. PICK c : c = charges[p][l]
  OBVIOUS
<1>2. c \in Chargements /\ ChargeTenue(p, c) /\ c # SansEntree
  BY <1>1 DEF Memoriser, InvCaches, TypeCaches, ChargesTenues
<1>3. PICK e : e = Entree(c.lu, TTL, c.croise)
  OBVIOUS
<1>4. e.valeur = c.lu /\ e.reste = TTL /\ e.croise = c.croise
  BY <1>3 DEF Entree
<1>5. e \in Valeurs
  BY <1>2, <1>3 DEF Entree, Valeurs, Chargements, HypothesesCaches
<1>6. EntreeTenue(p, e)
  <2>1. e.reste \in 0 .. TTL
    BY <1>4 DEF HypothesesCaches
  <2>2. e.valeur \in 0 .. version /\ remplacee[e.valeur] \in Nat
    BY <1>2, <1>4 DEF ChargeTenue, InvCaches, TypeCaches, HypothesesCaches
  <2>3. remplacee[e.valeur] <= DureeMax + (TTL - e.reste)
    BY <1>2, <1>4, <2>2 DEF ChargeTenue, HypothesesCaches
  <2>4. e.croise \/ e.valeur >= invalidee[p]
    BY <1>2, <1>4 DEF ChargeTenue
  <2>5. QED
    BY <2>1, <2>2, <2>3, <2>4 DEF EntreeTenue
<1>7. entree' = [entree EXCEPT ![p] = e] /\ charges' = [charges EXCEPT ![p][l] = SansEntree]
  BY <1>1, <1>3 DEF Memoriser
<1>8. UNCHANGED <<version, remplacee, ecrite, invalidee>>
  BY DEF Memoriser
<1>9. QED
  BY <1>5, <1>6, <1>7, <1>8, FinInv

LEMMA EchouerChargementInv ==
    ASSUME HypothesesCaches, InvCaches, NEW p \in Processus, NEW l \in Lectures,
           EchouerChargement(p, l)
    PROVE  InvCaches'
<1>1. PICK e : e = Entree(Repli, DureePanne, FALSE)
  OBVIOUS
<1>2. e.valeur = Repli /\ e.reste = DureePanne
  BY <1>1 DEF Entree
<1>3. e \in Valeurs
  BY <1>1 DEF Entree, Valeurs, HypothesesCaches, Repli
<1>4. EntreeTenue(p, e)
  BY <1>2 DEF EntreeTenue, HypothesesCaches
<1>5. /\ entree' = entree \/ entree' = [entree EXCEPT ![p] = e]
      /\ charges' = [charges EXCEPT ![p][l] = SansEntree]
      /\ UNCHANGED <<version, remplacee, ecrite, invalidee>>
  BY <1>1 DEF EchouerChargement
<1>6. QED
  BY <1>3, <1>4, <1>5, FinInv

LEMMA EcrireInv ==
    ASSUME HypothesesCaches, InvCaches, NEW p \in Processus, Ecrire(p)
    PROVE  InvCaches'
<1>1. /\ version' = version + 1 /\ version \in Nat /\ version' \in 0 .. EcrituresMax
      /\ UNCHANGED <<remplacee, entree, charges, invalidee>>
      /\ \A q \in Processus : ecrite'[q] = IF q = p THEN version + 1 ELSE ecrite[q]
      /\ DOMAIN ecrite' = Processus
  BY DEF Ecrire, InvCaches, TypeCaches, HypothesesCaches
<1>2. TypeCaches'
  <2>1. \A v \in version' .. EcrituresMax : remplacee'[v] = 0
    BY <1>1 DEF InvCaches, TypeCaches, HypothesesCaches
  <2>2. \A q \in Processus :
           /\ ecrite'[q] # SansEntree => ecrite'[q] \in 0 .. version'
           /\ invalidee'[q] \in 0 .. version'
    BY <1>1 DEF InvCaches, TypeCaches
  <2>3. QED
    BY <1>1, <2>1, <2>2 DEF InvCaches, TypeCaches
<1>3. ChargesTenues'
  BY <1>1 DEF InvCaches, ChargesTenues, ChargeTenue
<1>4. EntreesTenues'
  BY <1>1 DEF InvCaches, EntreesTenues, EntreeTenue
<1>5. QED
  BY <1>2, <1>3, <1>4 DEF InvCaches

\* The loads in flight are marked, the entry is dropped.
LEMMA InvaliderInv ==
    ASSUME HypothesesCaches, InvCaches, NEW p \in Processus, Invalider(p)
    PROVE  InvCaches'
<1> DEFINE marque(c) == IF c = SansEntree THEN SansEntree ELSE [c EXCEPT !.croise = TRUE]
<1>1. /\ UNCHANGED <<version, remplacee>>
      /\ charges' = [charges EXCEPT ![p] = [l \in Lectures |-> marque(charges[p][l])]]
      /\ ecrite' = [ecrite EXCEPT ![p] = SansEntree]
      /\ invalidee' = [invalidee EXCEPT ![p] = ecrite[p]]
      /\ entree' = [entree EXCEPT ![p] = SansEntree]
      /\ ecrite[p] \in 0 .. version
  BY DEF Invalider, EntreeInvalidee, InvCaches, TypeCaches
<1>2. \A c \in Chargements \cup {SansEntree} :
         /\ marque(c) \in Chargements \cup {SansEntree}
         /\ marque(c) # SansEntree =>
               /\ c # SansEntree /\ marque(c).lu = c.lu /\ marque(c).duree = c.duree
               /\ marque(c).croise
  BY DEF Chargements
<1> HIDE DEF marque
<1>3. \A l \in Lectures : charges[p][l] \in Chargements \cup {SansEntree}
  BY DEF InvCaches, TypeCaches
<1>4. \A q \in Processus, l \in Lectures :
         charges'[q][l] = IF q = p THEN marque(charges[q][l]) ELSE charges[q][l]
  BY <1>1 DEF InvCaches, TypeCaches
<1>5. /\ \A q \in Processus : entree'[q] = IF q = p THEN SansEntree ELSE entree[q]
      /\ \A q \in Processus : invalidee'[q] = IF q = p THEN ecrite[p] ELSE invalidee[q]
      /\ \A q \in Processus : ecrite'[q] = IF q = p THEN SansEntree ELSE ecrite[q]
  BY <1>1 DEF InvCaches, TypeCaches
<1>6. TypeCaches'
  <2>1. charges' \in [Processus -> [Lectures -> Chargements \cup {SansEntree}]]
    <3>1. [l \in Lectures |-> marque(charges[p][l])] \in [Lectures -> Chargements \cup {SansEntree}]
      BY <1>2, <1>3
    <3>2. charges \in [Processus -> [Lectures -> Chargements \cup {SansEntree}]]
      BY DEF InvCaches, TypeCaches
    <3>3. QED
      BY <1>1, <3>1, <3>2
  <2>2. QED
    BY <1>1, <1>5, <2>1 DEF InvCaches, TypeCaches
<1>7. ChargesTenues'
  <2>1. ASSUME NEW q \in Processus, NEW l \in Lectures, charges'[q][l] # SansEntree
        PROVE  ChargeTenue(q, charges[q][l])' 
    <3>1. CASE q = p
      BY <3>1, <2>1, <1>1, <1>2, <1>3, <1>4 DEF InvCaches, ChargesTenues, ChargeTenue
    <3>2. CASE q # p
      BY <3>2, <2>1, <1>1, <1>4, <1>5 DEF InvCaches, ChargesTenues, ChargeTenue
    <3>3. QED
      BY <3>1, <3>2
  <2>2. QED
    BY <2>1 DEF ChargesTenues
<1>8. EntreesTenues'
  BY <1>1, <1>5 DEF InvCaches, EntreesTenues, EntreeTenue
<1>9. QED
  BY <1>6, <1>7, <1>8 DEF InvCaches

\* What was read has aged by one at most, as the load and the entry have.
LEMMA AvancerHorlogeInv ==
    ASSUME HypothesesCaches, InvCaches, AvancerHorloge
    PROVE  InvCaches'
<1> DEFINE vieilli(c) == IF c = SansEntree THEN SansEntree ELSE [c EXCEPT !.duree = c.duree + 1]
<1>1. /\ UNCHANGED <<version, ecrite, invalidee>>
      /\ entree' = [p \in Processus |-> Vieillir(entree[p])]
      /\ charges' = [p \in Processus |-> [l \in Lectures |-> vieilli(charges[p][l])]]
      /\ \A p \in Processus, l \in Lectures : charges[p][l] # SansEntree => charges[p][l].duree < DureeMax
  BY DEF AvancerHorloge, ChargesEnVol
<1>2. \A c \in Chargements \cup {SansEntree} :
         /\ vieilli(c) \in Chargements \cup {SansEntree}
         /\ vieilli(c) # SansEntree =>
               /\ c # SansEntree /\ vieilli(c).lu = c.lu /\ vieilli(c).duree = c.duree + 1
               /\ vieilli(c).croise = c.croise
  BY DEF Chargements
<1>3. \A e \in Valeurs \cup {SansEntree} :
         /\ Vieillir(e) \in Valeurs \cup {SansEntree}
         /\ Vieillir(e) # SansEntree =>
               /\ e # SansEntree /\ e.reste > 0
               /\ Vieillir(e).valeur = e.valeur /\ Vieillir(e).reste = e.reste - 1
               /\ Vieillir(e).croise = e.croise
  BY DEF Valeurs, Vieillir, Vivante
<1> HIDE DEF vieilli
<1>4. /\ remplacee' \in [0 .. EcrituresMax -> Nat]
      /\ \A v \in 0 .. EcrituresMax : remplacee'[v] <= remplacee[v] + 1
      /\ \A v \in version .. EcrituresMax : remplacee'[v] = 0
      /\ \A v \in 0 .. EcrituresMax : remplacee[v] \in Nat /\ remplacee'[v] \in Nat
  BY DEF AvancerHorloge, InvCaches, TypeCaches
<1>5. /\ \A p \in Processus, l \in Lectures : charges[p][l] \in Chargements \cup {SansEntree}
      /\ \A p \in Processus : entree[p] \in Valeurs \cup {SansEntree}
      /\ version \in 0 .. EcrituresMax
  BY DEF InvCaches, TypeCaches
<1>6. TypeCaches'
  <2>1. entree' \in [Processus -> Valeurs \cup {SansEntree}]
    BY <1>1, <1>3, <1>5
  <2>2. charges' \in [Processus -> [Lectures -> Chargements \cup {SansEntree}]]
    BY <1>1, <1>2, <1>5
  <2>3. QED
    BY <1>1, <1>4, <2>1, <2>2 DEF InvCaches, TypeCaches
<1>7. ChargesTenues'
  <2>1. ASSUME NEW p \in Processus, NEW l \in Lectures, charges'[p][l] # SansEntree
        PROVE  ChargeTenue(p, charges[p][l])'
    <3>1. PICK c : c = charges[p][l]
      OBVIOUS
    <3>2. PICK d : d = charges'[p][l]
      OBVIOUS
    <3>3. d = vieilli(c)
      BY <1>1, <3>1, <3>2
    <3>4. /\ c \in Chargements /\ c # SansEntree /\ ChargeTenue(p, c) /\ c.duree < DureeMax
          /\ d.lu = c.lu /\ d.duree = c.duree + 1 /\ d.croise = c.croise
      BY <1>1, <1>2, <1>5, <2>1, <3>1, <3>2, <3>3 DEF InvCaches, ChargesTenues
    <3>5. d.duree \in 0 .. DureeMax /\ d.lu \in 0 .. version'
      BY <1>1, <3>4 DEF ChargeTenue, HypothesesCaches
    <3>6. remplacee'[d.lu] <= d.duree
      <4>1. c.lu \in 0 .. EcrituresMax
        BY <1>5, <3>4 DEF ChargeTenue, HypothesesCaches
      <4>2. PICK n \in Nat, m \in Nat :
               n = remplacee[c.lu] /\ m = remplacee'[c.lu] /\ m <= n + 1
        BY <1>4, <4>1
      <4>3. n <= c.duree /\ c.duree \in Int
        BY <3>4, <4>2 DEF ChargeTenue, HypothesesCaches
      <4>4. QED
        BY <3>4, <4>2, <4>3
    <3>7. d.croise \/ d.lu >= invalidee'[p]
      BY <1>1, <3>4 DEF ChargeTenue
    <3>8. QED
      BY <3>2, <3>5, <3>6, <3>7 DEF ChargeTenue
  <2>2. QED
    BY <2>1 DEF ChargesTenues
<1>8. EntreesTenues'
  <2>1. ASSUME NEW p \in Processus, entree'[p] # SansEntree
        PROVE  EntreeTenue(p, entree[p])'
    <3>1. PICK e : e = entree[p]
      OBVIOUS
    <3>2. PICK f : f = entree'[p]
      OBVIOUS
    <3>3. f = Vieillir(e)
      BY <1>1, <3>1, <3>2
    <3>4. /\ e # SansEntree /\ EntreeTenue(p, e) /\ e.reste > 0
          /\ f.valeur = e.valeur /\ f.reste = e.reste - 1 /\ f.croise = e.croise
      BY <1>3, <1>5, <2>1, <3>1, <3>2, <3>3 DEF InvCaches, EntreesTenues
    <3>5. f.reste \in 0 .. TTL
      BY <3>4 DEF EntreeTenue, HypothesesCaches
    <3>6. ASSUME f.valeur # Repli
          PROVE  /\ f.valeur \in 0 .. version'
                 /\ remplacee'[f.valeur] <= DureeMax + (TTL - f.reste)
                 /\ f.croise \/ f.valeur >= invalidee'[p]
      <4>1. /\ f.valeur \in 0 .. version /\ f.valeur \in 0 .. EcrituresMax
            /\ remplacee[f.valeur] <= DureeMax + (TTL - e.reste)
            /\ f.croise \/ f.valeur >= invalidee[p]
        BY <1>5, <3>4, <3>6 DEF EntreeTenue, HypothesesCaches
      <4>2. e.reste \in Int
        BY <3>4 DEF EntreeTenue
      <4>3. PICK n \in Nat, m \in Nat : n = remplacee[f.valeur] /\ m = remplacee'[f.valeur] /\ m <= n + 1
        BY <1>4, <4>1
      <4>4. m <= DureeMax + (TTL - f.reste)
        BY <3>4, <4>1, <4>2, <4>3 DEF HypothesesCaches
      <4>5. QED
        BY <1>1, <4>1, <4>3, <4>4
    <3>7. QED
      BY <3>2, <3>5, <3>6 DEF EntreeTenue
  <2>2. QED
    BY <2>1 DEF EntreesTenues
<1>9. QED
  BY <1>6, <1>7, <1>8 DEF InvCaches

LEMMA RedemarrerInv ==
    ASSUME HypothesesCaches, InvCaches, NEW p \in Processus, RedemarrerProcessus(p)
    PROVE  InvCaches'
<1>1. /\ UNCHANGED <<version, remplacee, invalidee>>
      /\ entree' = [entree EXCEPT ![p] = SansEntree]
      /\ charges' = [charges EXCEPT ![p] = [l \in Lectures |-> SansEntree]]
      /\ ecrite' = [ecrite EXCEPT ![p] = SansEntree]
  BY DEF RedemarrerProcessus
<1>2. /\ \A q \in Processus, l \in Lectures :
            charges'[q][l] = IF q = p THEN SansEntree ELSE charges[q][l]
      /\ \A q \in Processus : entree'[q] = IF q = p THEN SansEntree ELSE entree[q]
      /\ \A q \in Processus : ecrite'[q] = IF q = p THEN SansEntree ELSE ecrite[q]
  BY <1>1 DEF InvCaches, TypeCaches
<1>3. TypeCaches'
  <2>1. charges' \in [Processus -> [Lectures -> Chargements \cup {SansEntree}]]
    BY <1>1 DEF InvCaches, TypeCaches
  <2>2. QED
    BY <1>1, <1>2, <2>1 DEF InvCaches, TypeCaches
<1>4. ChargesTenues'
  BY <1>1, <1>2 DEF InvCaches, ChargesTenues, ChargeTenue
<1>5. EntreesTenues'
  BY <1>1, <1>2 DEF InvCaches, EntreesTenues, EntreeTenue
<1>6. QED
  BY <1>3, <1>4, <1>5 DEF InvCaches

\* Whatever writes, loads and restarts cross, in any number of processes and for any TTL: nothing
\* older than a TTL and a load is served, and a process serves its own writes (createTtlCache).
THEOREM CachesFideles == HypothesesCaches /\ SpecCaches => []CacheFidele
<1> SUFFICES ASSUME HypothesesCaches
             PROVE  SpecCaches => []CacheFidele
  OBVIOUS
<1>1. InitCaches => InvCaches
  <2> SUFFICES ASSUME InitCaches
               PROVE  InvCaches
    OBVIOUS
  <2>1. TypeCaches
    BY DEF InitCaches, TypeCaches, HypothesesCaches
  <2>2. ChargesTenues /\ EntreesTenues
    BY DEF InitCaches, ChargesTenues, EntreesTenues
  <2>3. QED
    BY <2>1, <2>2 DEF InvCaches
<1>2. InvCaches /\ [NextCaches]_varsCaches => InvCaches'
  <2> SUFFICES ASSUME InvCaches, [NextCaches]_varsCaches
               PROVE  InvCaches'
    OBVIOUS
  <2>1. CASE AvancerHorloge
    BY <2>1, AvancerHorlogeInv
  <2>2. ASSUME NEW p \in Processus, Ecrire(p) \/ Invalider(p) \/ RedemarrerProcessus(p)
        PROVE  InvCaches'
    BY <2>2, EcrireInv, InvaliderInv, RedemarrerInv
  <2>3. ASSUME NEW p \in Processus, NEW l \in Lectures,
               Charger(p, l) \/ Memoriser(p, l) \/ EchouerChargement(p, l)
        PROVE  InvCaches'
    BY <2>3, ChargerInv, MemoriserInv, EchouerChargementInv
  <2>4. CASE UNCHANGED varsCaches
    BY <2>4 DEF varsCaches, InvCaches, TypeCaches, ChargesTenues, EntreesTenues, ChargeTenue,
                EntreeTenue
  <2>5. QED
    BY <2>1, <2>2, <2>3, <2>4 DEF NextCaches
<1>3. InvCaches => CacheFidele
  <2> SUFFICES ASSUME InvCaches, NEW p \in Processus, Vivante(entree[p]),
                      entree[p].valeur # Repli
               PROVE  /\ remplacee[entree[p].valeur] <= EcartMax
                      /\ entree[p].croise \/ entree[p].valeur >= invalidee[p]
    BY DEF CacheFidele
  <2>1. PICK e : e = entree[p]
    OBVIOUS
  <2>2. EntreeTenue(p, e) /\ e.valeur # Repli
    BY <2>1 DEF InvCaches, EntreesTenues, Vivante
  <2>3. remplacee[e.valeur] \in Nat
    BY <2>2 DEF EntreeTenue, InvCaches, TypeCaches, HypothesesCaches
  <2>4. remplacee[e.valeur] <= EcartMax
    BY <2>2, <2>3 DEF EntreeTenue, EcartMax, HypothesesCaches
  <2>5. QED
    BY <2>1, <2>2, <2>4 DEF EntreeTenue
<1>4. QED
  BY <1>1, <1>2, <1>3, PTL DEF SpecCaches

-----------------------------------------------------------------------------
(***************************************************************************)
(* Files.                                                                  *)
(*                                                                         *)
(* The invariant is about every name that a row, a request, the list of    *)
(* photos or the script holds: a file that was not written yet is known to *)
(* its writer alone, and a file that was written belongs to one row.       *)
(* Hence a deletion reaches no file that another row points at.            *)
(***************************************************************************)

Sentinelles == {Aucun, Ancien, Detruite}
AdressesFichiers == Sentinelles \cup Guichets \cup Cles
EtapesFichiers ==
    {"repos", "televerser", "ecrire", "effacer", "fini", "detruire", "photos", "liste"}
DemandeFichier ==
    [etape : EtapesFichiers, ligne : Lignes \cup {Aucun}, lu : AdressesFichiers,
     liste : SUBSET Guichets, de : Guichets \cup {Aucun}]
EtatScript ==
    [passage : Nat, lu : [Lignes -> AdressesFichiers], reste : SUBSET Lignes,
     envoi : Cles \cup {Aucun}, pour : Lignes \cup {Aucun}, connus : SUBSET Cles]

\* A request that handles a row names it.
Nommee(d) == d.etape \in {"televerser", "ecrire", "effacer", "detruire"} => d.ligne \in Lignes

TypeFichiers ==
    /\ champ \in [Lignes -> AdressesFichiers]
    /\ demande \in [Guichets -> DemandeFichier]
    /\ script \in EtatScript
    /\ photos \in SUBSET Guichets
    /\ \A r \in Guichets : Nommee(demande[r])

\* The file of a request that has not written its row, and a key the script has not.
EcritureAttendue(d) ==
    d.etape \in {"repos", "televerser", "ecrire"} \/ (d.etape = "effacer" /\ Genre[d.ligne] = "avant")
AVenir(c) ==
    c = script.envoi \/ c[2] > script.passage \/ (c[2] = script.passage /\ c[1] \in script.reste)
Nouveau(f) == (f \in Guichets /\ EcritureAttendue(demande[f])) \/ (f \in Cles /\ AVenir(f))

\* A file that was written, and for this row.
FichierDe(l, f) ==
    /\ ~Nouveau(f)
    /\ f \in Guichets => demande[f].ligne = l
    /\ f \in Cles => f[1] = l

DemandeTenue(r, d) ==
    /\ d.etape \in {"televerser", "ecrire", "effacer"} => FichierDe(d.ligne, d.lu)
    /\ d.etape \in {"ecrire", "effacer"} /\ EcritureAttendue(d) => r \in entrepot
    /\ d.etape = "effacer" /\ Genre[d.ligne] = "apres" =>
          d.lu \in Sentinelles \/ champ[d.ligne] # d.lu

DemandesTenues == \A r \in Guichets : DemandeTenue(r, demande[r])

ScriptTenu ==
    /\ script.pour # Aucun =>
          /\ script.envoi = <<script.pour, script.passage>>
          /\ script.envoi \in entrepot /\ script.pour \notin script.reste
    /\ script.pour = Aucun => script.envoi = Aucun
    /\ \A l \in script.reste : <<l, script.passage>> \notin script.connus

LigneTenue(l) ==
    /\ FichierDe(l, champ[l])
    /\ champ[l] \in Sentinelles \/ champ[l] \in entrepot \/ l \in exposees \/ EntreDeux(l)

LignesTenues == \A l \in Lignes : LigneTenue(l)

\* A photo of the list is the file of a request about the list.
Photo(f) == demande[f].ligne = Aucun /\ demande[f].etape # "repos"

ListeTenue(d) ==
    d.etape \in {"photos", "liste"} =>
        /\ d.ligne = Aucun
        /\ \A f \in d.liste : Photo(f)
        /\ IsFiniteSet(d.liste) /\ Cardinality(d.liste) <= MAX_PHOTOS
        /\ d.etape = "photos" => Cardinality(d.liste) < MAX_PHOTOS

PhotosTenues ==
    /\ \A f \in photos : Photo(f)
    /\ IsFiniteSet(photos) /\ Cardinality(photos) <= MAX_PHOTOS
    /\ \A r \in Guichets : ListeTenue(demande[r])

FichiersTenusLignes == DemandesTenues /\ ScriptTenu /\ LignesTenues

InvFichiers == TypeFichiers /\ PhotosTenues /\ (~partage => FichiersTenusLignes)

\* What every step does: only the requests of R move, what was written is not about to be
\* written again, and only what was written is deleted.
Pas(R) ==
    /\ TypeFichiers' /\ partage' = partage
    /\ \A q \in Guichets \ R : demande'[q] = demande[q]
    /\ \A q \in Guichets :
          /\ EcritureAttendue(demande'[q]) => EcritureAttendue(demande[q])
          /\ demande[q].etape # "repos" =>
                demande'[q].etape # "repos" /\ demande'[q].ligne = demande[q].ligne
    /\ exposees \subseteq exposees'
    /\ ~partage =>
          /\ \A c \in Cles : AVenir(c)' => AVenir(c)
          /\ \A l \in Lignes :
                champ'[l] = champ[l] \/ champ'[l] = Detruite \/ Nouveau(champ'[l])

Epargne == \A f \in entrepot : f \in entrepot' \/ ~Nouveau(f)

-----------------------------------------------------------------------------

LEMMA DemandeTypee ==
    ASSUME TypeFichiers, NEW r \in Guichets
    PROVE  /\ demande[r] \in DemandeFichier
           /\ demande[r].etape \in EtapesFichiers /\ demande[r].ligne \in Lignes \cup {Aucun}
           /\ demande[r].lu \in AdressesFichiers /\ demande[r].liste \in SUBSET Guichets
BY DEF TypeFichiers, DemandeFichier

LEMMA FichierDeStable ==
    ASSUME ~partage, NEW R, Pas(R), NEW l, NEW f, FichierDe(l, f)
    PROVE  FichierDe(l, f)'
<1>1. ~Nouveau(f)'
  BY DEF Pas, FichierDe, Nouveau
<1>2. f \in Guichets => demande'[f].ligne = l
  BY DEF Pas, FichierDe, Nouveau, EcritureAttendue
<1>3. QED
  BY <1>1, <1>2 DEF FichierDe

LEMMA AutresDemandes ==
    ASSUME ~partage, TypeFichiers, NEW R, Pas(R), Epargne, DemandesTenues,
           NEW q \in Guichets \ R
    PROVE  DemandeTenue(q, demande[q])'
<1>1. PICK d : d = demande[q]
  OBVIOUS
<1>2. d = demande'[q]
  BY <1>1 DEF Pas
<1>3. DemandeTenue(q, d)
  BY <1>1 DEF DemandesTenues
<1>4. d.etape \in {"televerser", "ecrire", "effacer"} => FichierDe(d.ligne, d.lu)'
  BY <1>3, FichierDeStable DEF DemandeTenue
<1>5. d.etape \in {"ecrire", "effacer"} /\ EcritureAttendue(d) => q \in entrepot'
  BY <1>1, <1>3 DEF DemandeTenue, Epargne, Nouveau
<1>6. d.etape = "effacer" /\ Genre[d.ligne] = "apres" =>
         d.lu \in Sentinelles \/ champ'[d.ligne] # d.lu
  BY <1>1, <1>3 DEF DemandeTenue, Pas, FichierDe, Sentinelles, TypeFichiers, Nommee
<1>7. QED
  BY <1>2, <1>4, <1>5, <1>6 DEF DemandeTenue, EcritureAttendue

LEMMA ScriptStable ==
    ASSUME HypothesesFichiers, TypeFichiers, Epargne, ScriptTenu, UNCHANGED script
    PROVE  ScriptTenu'
<1>1. script.pour \in Lignes \cup {Aucun} /\ script.passage \in Nat
  BY DEF TypeFichiers, EtatScript
<1>2. script.pour # Aucun => script.envoi \in Cles /\ script.envoi \in entrepot
  BY <1>1 DEF ScriptTenu, Cles
<1>3. script.pour # Aucun => Nouveau(script.envoi)
  BY <1>2 DEF Nouveau, AVenir
<1>4. script.pour # Aucun => script.envoi \in entrepot'
  BY <1>2, <1>3 DEF Epargne
<1>5. QED
  BY <1>4 DEF ScriptTenu

LEMMA LigneStable ==
    ASSUME ~partage, NEW R, Pas(R), LignesTenues, NEW l \in Lignes, champ'[l] = champ[l],
           champ[l] \in entrepot => champ[l] \in entrepot' \/ l \in exposees' \/ EntreDeux(l)',
           EntreDeux(l) => l \in exposees' \/ EntreDeux(l)'
    PROVE  LigneTenue(l)'
<1>1. FichierDe(l, champ[l])'
  BY FichierDeStable DEF LignesTenues, LigneTenue
<1>2. champ'[l] \in Sentinelles \/ champ'[l] \in entrepot' \/ l \in exposees' \/ EntreDeux(l)'
  BY DEF LignesTenues, LigneTenue, Pas
<1>3. QED
  BY <1>1, <1>2 DEF LigneTenue

LEMMA PhotosStables ==
    ASSUME PhotosTenues, TypeFichiers, NEW R \in SUBSET Guichets, Pas(R), UNCHANGED photos,
           \A r \in R : demande'[r].etape \notin {"photos", "liste"}
    PROVE  PhotosTenues'
<1>1. \A f \in Guichets : Photo(f) => Photo(f)'
  BY DEF Photo, Pas
<1>2. \A r \in Guichets : ListeTenue(demande[r])'
  <2>1. ASSUME NEW r \in Guichets \ R
        PROVE  ListeTenue(demande[r])'
    <3>1. PICK d : d = demande[r]
      OBVIOUS
    <3>2. d = demande'[r] /\ ListeTenue(d) /\ d.liste \in SUBSET Guichets
      BY <3>1, DemandeTypee DEF Pas, PhotosTenues
    <3>3. QED
      BY <1>1, <3>2 DEF ListeTenue
  <2>2. ASSUME NEW r \in R
        PROVE  ListeTenue(demande[r])'
    BY DEF ListeTenue
  <2>3. QED
    BY <2>1, <2>2
<1>3. \A f \in photos' : Photo(f)'
  BY <1>1 DEF PhotosTenues, TypeFichiers
<1>4. QED
  BY <1>2, <1>3 DEF PhotosTenues

\* A request passes to a stage, keeping what it has read.
LEMMA Suivi ==
    ASSUME TypeFichiers, NEW r \in Guichets, NEW e \in EtapesFichiers, Suivre(r, e)
    PROVE  /\ demande' \in [Guichets -> DemandeFichier]
           /\ \A q \in Guichets \ {r} : demande'[q] = demande[q]
           /\ demande'[r].etape = e /\ demande'[r].ligne = demande[r].ligne
           /\ demande'[r].lu = demande[r].lu /\ demande'[r].liste = demande[r].liste
<1>1. PICK d \in DemandeFichier : d = demande[r]
  BY DEF TypeFichiers
<1>2. PICK f : f = [d EXCEPT !.etape = e]
  OBVIOUS
<1>3. f \in DemandeFichier /\ f.etape = e /\ f.ligne = d.ligne /\ f.lu = d.lu /\ f.liste = d.liste
  BY <1>1, <1>2 DEF DemandeFichier
<1>4. demande' = [demande EXCEPT ![r] = f]
  BY <1>1, <1>2 DEF Suivre
<1>5. QED
  BY <1>1, <1>3, <1>4 DEF TypeFichiers

\* A request that was free takes a row or the list.
LEMMA Prise ==
    ASSUME TypeFichiers, NEW r \in Guichets, demande[r].etape = "repos",
           NEW d \in DemandeFichier, demande' = [demande EXCEPT ![r] = d]
    PROVE  /\ demande' \in [Guichets -> DemandeFichier]
           /\ \A q \in Guichets \ {r} : demande'[q] = demande[q]
           /\ demande'[r] = d
BY DEF TypeFichiers

-----------------------------------------------------------------------------

\* A step of one request, which leaves the script alone.
PasSeul(r) == TypeFichiers /\ TypeFichiers' /\ Pas({r}) /\ UNCHANGED script

\* It leaves the list of photos alone too.
PasDe(r) == PasSeul(r) /\ UNCHANGED photos /\ demande'[r].etape \notin {"photos", "liste"}

\* What is left to show of it.
LEMMA PasSeulInv ==
    ASSUME HypothesesFichiers, InvFichiers, NEW r \in Guichets, PasSeul(r), PhotosTenues',
           ~partage => /\ Epargne
                       /\ DemandeTenue(r, demande[r])'
                       /\ \A l \in Lignes : LigneTenue(l)'
    PROVE  InvFichiers'
<1>1. ASSUME ~partage'
      PROVE  FichiersTenusLignes'
  <2>1. ~partage
    BY <1>1 DEF PasSeul, Pas
  <2>2. DemandesTenues'
    <3>1. \A q \in Guichets \ {r} : DemandeTenue(q, demande[q])'
      BY <2>1, AutresDemandes DEF PasSeul, InvFichiers, FichiersTenusLignes
    <3>2. QED
      BY <2>1, <3>1 DEF DemandesTenues
  <2>3. ScriptTenu'
    BY <2>1, ScriptStable DEF PasSeul, InvFichiers, FichiersTenusLignes
  <2>4. LignesTenues'
    BY <2>1 DEF LignesTenues
  <2>5. QED
    BY <2>2, <2>3, <2>4 DEF FichiersTenusLignes
<1>2. QED
  BY <1>1 DEF InvFichiers, PasSeul

LEMMA PasInv ==
    ASSUME HypothesesFichiers, InvFichiers, NEW r \in Guichets, PasDe(r),
           ~partage => /\ Epargne
                       /\ DemandeTenue(r, demande[r])'
                       /\ \A l \in Lignes : LigneTenue(l)'
    PROVE  InvFichiers'
<1>1. PhotosTenues'
  BY PhotosStables DEF PasDe, PasSeul, InvFichiers
<1>2. QED
  BY <1>1, PasSeulInv DEF PasDe

LEMMA RemplacerInv ==
    ASSUME HypothesesFichiers, InvFichiers, NEW r \in Guichets, NEW l \in Lignes, Remplacer(r, l)
    PROVE  InvFichiers'
<1>1. PICK d : d = [Oisive EXCEPT !.etape = "televerser", !.ligne = l, !.lu = champ[l]]
  OBVIOUS
<1>2. TypeFichiers /\ champ[l] \in AdressesFichiers
  BY DEF InvFichiers, TypeFichiers
<1>3. d \in DemandeFichier /\ d.etape = "televerser" /\ d.ligne = l /\ d.lu = champ[l]
  BY <1>1, <1>2 DEF Oisive, DemandeFichier, EtapesFichiers
<1>4. demande[r].etape = "repos" /\ demande' = [demande EXCEPT ![r] = d]
  BY <1>1 DEF Remplacer
<1>5. /\ demande' \in [Guichets -> DemandeFichier]
      /\ \A q \in Guichets \ {r} : demande'[q] = demande[q]
      /\ demande'[r] = d
  BY <1>2, <1>3, <1>4, Prise
<1>6. UNCHANGED <<partage, champ, photos, entrepot, script, exposees>>
  BY DEF Remplacer
<1>7. Pas({r}) /\ PasDe(r)
  BY <1>2, <1>3, <1>4, <1>5, <1>6 DEF Pas, PasDe, PasSeul, TypeFichiers, Nommee, EcritureAttendue,
                                      AVenir
<1>8. ASSUME ~partage
      PROVE  /\ Epargne /\ DemandeTenue(r, demande[r])'
             /\ \A k \in Lignes : LigneTenue(k)'
  <2>1. LignesTenues /\ Epargne
    BY <1>6, <1>8 DEF InvFichiers, FichiersTenusLignes, Epargne
  <2>2. FichierDe(l, champ[l])'
    BY <1>6, <1>7, <2>1, <1>8, FichierDeStable DEF LignesTenues, LigneTenue
  <2>3. DemandeTenue(r, demande[r])'
    BY <1>3, <1>5, <1>6, <2>2 DEF DemandeTenue
  <2>4. \A k \in Lignes : EntreDeux(k) => EntreDeux(k)'
    BY <1>4, <1>5 DEF EntreDeux
  <2>5. \A k \in Lignes : LigneTenue(k)'
    BY <1>6, <1>7, <2>1, <2>4, <1>8, LigneStable
  <2>6. QED
    BY <2>1, <2>3, <2>5
<1>9. QED
  BY <1>7, <1>8, PasInv

LEMMA EnvoyerInv ==
    ASSUME HypothesesFichiers, InvFichiers, NEW r \in Guichets, Envoyer(r)
    PROVE  InvFichiers'
<1>1. PICK e : e = IF Genre[demande[r].ligne] = "apres" THEN "ecrire" ELSE "effacer"
  OBVIOUS
<1>2. PICK d : d = demande[r]
  OBVIOUS
<1>3. e \in EtapesFichiers /\ Suivre(r, e) /\ d.etape = "televerser"
  BY <1>1, <1>2 DEF Envoyer, EtapesFichiers
<1>4. /\ demande' \in [Guichets -> DemandeFichier]
      /\ \A q \in Guichets \ {r} : demande'[q] = demande[q]
      /\ demande'[r].etape = e /\ demande'[r].ligne = d.ligne /\ demande'[r].lu = d.lu
  BY <1>2, <1>3, Suivi DEF InvFichiers
<1>5. UNCHANGED <<partage, champ, photos, script, exposees>> /\ entrepot' = entrepot \cup {r}
  BY DEF Envoyer, Stocker
<1>6. Pas({r}) /\ PasDe(r)
  BY <1>1, <1>2, <1>3, <1>4, <1>5 DEF InvFichiers, Pas, PasDe, PasSeul, TypeFichiers, Nommee,
                                      EcritureAttendue, AVenir
<1>7. ASSUME ~partage
      PROVE  /\ Epargne /\ DemandeTenue(r, demande[r])'
             /\ \A k \in Lignes : LigneTenue(k)'
  <2>1. LignesTenues /\ DemandeTenue(r, d) /\ Epargne
    BY <1>2, <1>5, <1>7 DEF InvFichiers, FichiersTenusLignes, DemandesTenues, Epargne
  <2>2. d.ligne \in Lignes /\ FichierDe(d.ligne, d.lu)
    BY <1>2, <1>3, <2>1 DEF DemandeTenue, InvFichiers, TypeFichiers, Nommee
  <2>3. FichierDe(d.ligne, d.lu)'
    BY <1>6, <2>2, <1>7, FichierDeStable
  <2>4. DemandeTenue(r, demande[r])'
    BY <1>1, <1>2, <1>4, <1>5, <2>2, <2>3 DEF DemandeTenue
  <2>5. \A k \in Lignes : EntreDeux(k) => EntreDeux(k)'
    BY <1>2, <1>3, <1>4 DEF EntreDeux
  <2>6. \A k \in Lignes : LigneTenue(k)'
    BY <1>5, <1>6, <2>1, <2>5, <1>7, LigneStable
  <2>7. QED
    BY <2>1, <2>4, <2>6
<1>8. QED
  BY <1>6, <1>7, PasInv

LEMMA EffacerAncienInv ==
    ASSUME HypothesesFichiers, InvFichiers, NEW r \in Guichets, EffacerAncien(r)
    PROVE  InvFichiers'
<1>1. PICK e : e = IF Genre[demande[r].ligne] = "apres" THEN "fini" ELSE "ecrire"
  OBVIOUS
<1>2. PICK d : d = demande[r]
  OBVIOUS
<1>3. e \in EtapesFichiers /\ Suivre(r, e) /\ d.etape = "effacer"
  BY <1>1, <1>2 DEF EffacerAncien, EtapesFichiers
<1>4. /\ demande' \in [Guichets -> DemandeFichier]
      /\ \A q \in Guichets \ {r} : demande'[q] = demande[q]
      /\ demande'[r].etape = e /\ demande'[r].ligne = d.ligne /\ demande'[r].lu = d.lu
  BY <1>2, <1>3, Suivi DEF InvFichiers
<1>5. /\ UNCHANGED <<partage, champ, photos, script, exposees>>
      /\ entrepot' \subseteq entrepot /\ entrepot \ {d.lu} \subseteq entrepot'
  BY <1>2 DEF EffacerAncien, Effacer, AEffacer
<1>6. Pas({r}) /\ PasDe(r)
  <2>1. EcritureAttendue(demande'[r]) => EcritureAttendue(d)
    BY <1>1, <1>2, <1>3, <1>4 DEF EcritureAttendue, HypothesesFichiers, InvFichiers, TypeFichiers,
                                  Nommee
  <2>2. TypeFichiers'
    BY <1>2, <1>3, <1>4, <1>5 DEF InvFichiers, TypeFichiers, Nommee
  <2>3. QED
    BY <1>1, <1>2, <1>3, <1>4, <1>5, <2>1, <2>2 DEF InvFichiers, Pas, PasDe, PasSeul, AVenir
<1>7. ASSUME ~partage
      PROVE  /\ Epargne /\ DemandeTenue(r, demande[r])'
             /\ \A k \in Lignes : LigneTenue(k)'
  <2>1. LignesTenues /\ DemandeTenue(r, d)
    BY <1>2, <1>7 DEF InvFichiers, FichiersTenusLignes, DemandesTenues
  <2>2. d.ligne \in Lignes /\ FichierDe(d.ligne, d.lu)
    BY <1>2, <1>3, <2>1 DEF DemandeTenue, InvFichiers, TypeFichiers, Nommee
  <2>3. Epargne
    BY <1>5, <2>2 DEF Epargne, FichierDe
  <2>4. FichierDe(d.ligne, d.lu)'
    BY <1>6, <2>2, <1>7, FichierDeStable
  <2>5. Genre[d.ligne] = "apres" \/ Genre[d.ligne] = "avant"
    BY <2>2 DEF HypothesesFichiers
  <2>6. DemandeTenue(r, demande[r])'
    <3>1. CASE e = "fini"
      BY <3>1, <1>4 DEF DemandeTenue, EcritureAttendue
    <3>2. CASE e = "ecrire"
      <4>1. EcritureAttendue(d) /\ r \in entrepot
        BY <1>1, <1>2, <1>3, <2>1, <2>5, <3>2 DEF EcritureAttendue, DemandeTenue
      <4>2. r \in entrepot'
        BY <1>2, <2>3, <4>1 DEF Epargne, Nouveau
      <4>3. QED
        BY <3>2, <1>4, <2>2, <2>4, <4>2 DEF DemandeTenue
    <3>3. QED
      BY <1>1, <3>1, <3>2
  <2>7. ASSUME NEW k \in Lignes
        PROVE  LigneTenue(k)'
    <3>1. EntreDeux(k) => EntreDeux(k)'
      BY <1>2, <1>3, <1>4 DEF EntreDeux
    <3>2. ASSUME champ[k] \in entrepot, champ[k] \notin entrepot'
          PROVE  EntreDeux(k)' \/ champ[k] \in Sentinelles
      <4>1. champ[k] = d.lu /\ FichierDe(k, champ[k])
        BY <1>5, <3>2, <2>1 DEF LignesTenues, LigneTenue
      <4>2. champ[k] \in AdressesFichiers
        BY DEF InvFichiers, TypeFichiers
      <4>3. champ[k] \in Sentinelles \/ k = d.ligne
        BY <2>2, <4>1, <4>2 DEF FichierDe, AdressesFichiers
      <4>4. champ[k] \in Sentinelles \/ Genre[k] = "avant"
        BY <1>3, <2>1, <2>5, <4>1, <4>3 DEF DemandeTenue
      <4>5. k = d.ligne /\ Genre[k] = "avant" => EntreDeux(k)'
        BY <1>1, <1>2, <1>4 DEF EntreDeux
      <4>6. QED
        BY <4>3, <4>4, <4>5
    <3>3. CASE champ[k] \in Sentinelles
      <4>1. FichierDe(k, champ[k])'
        BY <1>5, <1>6, <2>1, <1>7, FichierDeStable DEF LignesTenues, LigneTenue
      <4>2. QED
        BY <1>5, <3>3, <4>1 DEF LigneTenue
    <3>4. CASE champ[k] \notin Sentinelles
      BY <1>5, <1>6, <2>1, <3>1, <3>2, <3>4, <1>7, LigneStable
    <3>5. QED
      BY <3>3, <3>4
  <2>8. QED
    BY <2>3, <2>6, <2>7
<1>8. QED
  BY <1>6, <1>7, PasInv

LEMMA EcrireLigneInv ==
    ASSUME HypothesesFichiers, InvFichiers, NEW r \in Guichets, EcrireLigne(r)
    PROVE  InvFichiers'
<1>1. PICK e : e = IF Genre[demande[r].ligne] = "apres" THEN "effacer" ELSE "fini"
  OBVIOUS
<1>2. PICK d : d = demande[r]
  OBVIOUS
<1>3. e \in EtapesFichiers /\ Suivre(r, e) /\ d.etape = "ecrire"
  BY <1>1, <1>2 DEF EcrireLigne, EtapesFichiers
<1>4. /\ demande' \in [Guichets -> DemandeFichier]
      /\ \A q \in Guichets \ {r} : demande'[q] = demande[q]
      /\ demande'[r].etape = e /\ demande'[r].ligne = d.ligne /\ demande'[r].lu = d.lu
  BY <1>2, <1>3, Suivi DEF InvFichiers
<1>5. d.ligne \in Lignes /\ Genre[d.ligne] \in {"apres", "avant"} /\ EcritureAttendue(d) /\ Nouveau(r)
  BY <1>2, <1>3 DEF InvFichiers, TypeFichiers, Nommee, HypothesesFichiers, EcritureAttendue, Nouveau
<1>6. /\ UNCHANGED <<partage, photos, script, exposees, entrepot>>
      /\ champ' \in [Lignes -> AdressesFichiers]
      /\ \A k \in Lignes \ {d.ligne} : champ'[k] = champ[k]
      /\ \/ champ'[d.ligne] = r
         \/ champ'[d.ligne] = champ[d.ligne] /\ champ[d.ligne] = Detruite
  BY <1>2, <1>5 DEF EcrireLigne, InvFichiers, TypeFichiers, AdressesFichiers
<1>7. Pas({r}) /\ PasDe(r) /\ ~EcritureAttendue(demande'[r])
  <2>1. ~EcritureAttendue(demande'[r])
    BY <1>1, <1>2, <1>4 DEF EcritureAttendue
  <2>2. TypeFichiers'
    BY <1>1, <1>2, <1>4, <1>5, <1>6 DEF InvFichiers, TypeFichiers, Nommee
  <2>3. QED
    BY <1>1, <1>2, <1>3, <1>4, <1>5, <1>6, <2>1, <2>2 DEF InvFichiers, Pas, PasDe, PasSeul, AVenir
<1>8. ASSUME ~partage
      PROVE  /\ Epargne /\ DemandeTenue(r, demande[r])'
             /\ \A k \in Lignes : LigneTenue(k)'
  <2>1. LignesTenues /\ DemandeTenue(r, d) /\ Epargne
    BY <1>2, <1>6, <1>8 DEF InvFichiers, FichiersTenusLignes, DemandesTenues, Epargne
  <2>2. FichierDe(d.ligne, d.lu) /\ r \in entrepot
    BY <1>3, <1>5, <2>1 DEF DemandeTenue
  <2>3. FichierDe(d.ligne, d.lu)'
    BY <1>7, <1>8, <2>2, FichierDeStable
  <2>4. d.lu # r
    BY <1>5, <2>2 DEF FichierDe
  <2>5. DemandeTenue(r, demande[r])'
    BY <1>1, <1>4, <1>6, <1>7, <2>3, <2>4 DEF DemandeTenue, Sentinelles
  <2>6. ASSUME NEW k \in Lignes \ {d.ligne}
        PROVE  LigneTenue(k)'
    <3>1. EntreDeux(k) => EntreDeux(k)'
      BY <1>2, <1>4 DEF EntreDeux
    <3>2. QED
      BY <1>6, <1>7, <1>8, <2>1, <3>1, LigneStable
  <2>7. LigneTenue(d.ligne)'
    <3>1. FichierDe(d.ligne, r)'
      BY <1>4, <1>7 DEF FichierDe, Nouveau, HypothesesFichiers
    <3>2. FichierDe(d.ligne, Detruite)'
      BY DEF FichierDe, Nouveau, HypothesesFichiers
    <3>3. QED
      BY <1>6, <2>2, <3>1, <3>2 DEF LigneTenue, Sentinelles
  <2>8. QED
    BY <2>1, <2>5, <2>6, <2>7
<1>9. QED
  BY <1>7, <1>8, PasInv

LEMMA RetirerInv ==
    ASSUME HypothesesFichiers, InvFichiers, NEW r \in Guichets, NEW l \in Lignes, Retirer(r, l)
    PROVE  InvFichiers'
<1>1. PICK d : d = [Oisive EXCEPT !.etape = "detruire", !.ligne = l]
  OBVIOUS
<1>2. d \in DemandeFichier /\ d.etape = "detruire" /\ d.ligne = l
  BY <1>1 DEF Oisive, DemandeFichier, EtapesFichiers, AdressesFichiers, Sentinelles
<1>3. demande[r].etape = "repos" /\ demande' = [demande EXCEPT ![r] = d]
  BY <1>1 DEF Retirer
<1>4. /\ demande' \in [Guichets -> DemandeFichier]
      /\ \A q \in Guichets \ {r} : demande'[q] = demande[q]
      /\ demande'[r] = d
  BY <1>2, <1>3, Prise DEF InvFichiers
<1>5. /\ UNCHANGED <<partage, champ, photos, script>>
      /\ exposees' = exposees \cup {l} /\ entrepot \ {champ[l]} \subseteq entrepot'
  BY DEF Retirer, Effacer
<1>6. Pas({r}) /\ PasDe(r)
  BY <1>2, <1>3, <1>4, <1>5 DEF InvFichiers, Pas, PasDe, PasSeul, TypeFichiers, Nommee,
                                EcritureAttendue, AVenir
<1>7. ASSUME ~partage
      PROVE  /\ Epargne /\ DemandeTenue(r, demande[r])'
             /\ \A k \in Lignes : LigneTenue(k)'
  <2>1. LignesTenues
    BY <1>7 DEF InvFichiers, FichiersTenusLignes
  <2>2. FichierDe(l, champ[l])
    BY <2>1 DEF LignesTenues, LigneTenue
  <2>3. Epargne
    BY <1>5, <2>2 DEF Epargne, FichierDe
  <2>4. DemandeTenue(r, demande[r])'
    BY <1>2, <1>4 DEF DemandeTenue
  <2>5. ASSUME NEW k \in Lignes
        PROVE  LigneTenue(k)'
    <3>1. FichierDe(k, champ[k])' /\ FichierDe(k, champ[k])
      BY <1>5, <1>6, <1>7, <2>1, FichierDeStable DEF LignesTenues, LigneTenue
    <3>2. EntreDeux(k) => EntreDeux(k)'
      BY <1>3, <1>4 DEF EntreDeux
    <3>3. champ[k] \in Sentinelles \/ k = l \/ champ[k] # champ[l]
      BY <2>2, <3>1 DEF FichierDe, InvFichiers, TypeFichiers, AdressesFichiers
    <3>4. QED
      BY <1>5, <2>1, <3>1, <3>2, <3>3 DEF LignesTenues, LigneTenue
  <2>6. QED
    BY <2>3, <2>4, <2>5
<1>8. QED
  BY <1>6, <1>7, PasInv

LEMMA DetruireInv ==
    ASSUME HypothesesFichiers, InvFichiers, NEW r \in Guichets, Detruire(r)
    PROVE  InvFichiers'
<1>1. PICK d : d = demande[r]
  OBVIOUS
<1>2. Suivre(r, "fini") /\ d.etape = "detruire" /\ "fini" \in EtapesFichiers
  BY <1>1 DEF Detruire, EtapesFichiers
<1>3. /\ demande' \in [Guichets -> DemandeFichier]
      /\ \A q \in Guichets \ {r} : demande'[q] = demande[q]
      /\ demande'[r].etape = "fini" /\ demande'[r].ligne = d.ligne
  BY <1>1, <1>2, Suivi DEF InvFichiers
<1>4. /\ UNCHANGED <<partage, photos, script, exposees, entrepot>>
      /\ champ' \in [Lignes -> AdressesFichiers]
      /\ \A k \in Lignes : champ'[k] = champ[k] \/ champ'[k] = Detruite
  BY <1>1 DEF Detruire, InvFichiers, TypeFichiers, AdressesFichiers, Sentinelles
<1>5. Pas({r}) /\ PasDe(r)
  BY <1>1, <1>2, <1>3, <1>4 DEF InvFichiers, Pas, PasDe, PasSeul, TypeFichiers, Nommee,
                                EcritureAttendue, AVenir
<1>6. ASSUME ~partage
      PROVE  /\ Epargne /\ DemandeTenue(r, demande[r])'
             /\ \A k \in Lignes : LigneTenue(k)'
  <2>1. LignesTenues /\ Epargne
    BY <1>4, <1>6 DEF InvFichiers, FichiersTenusLignes, Epargne
  <2>2. DemandeTenue(r, demande[r])'
    BY <1>3 DEF DemandeTenue
  <2>3. ASSUME NEW k \in Lignes
        PROVE  LigneTenue(k)'
    <3>1. FichierDe(k, Detruite)'
      BY DEF FichierDe, Nouveau, HypothesesFichiers
    <3>2. EntreDeux(k) => EntreDeux(k)'
      BY <1>1, <1>2, <1>3 DEF EntreDeux
    <3>3. CASE champ'[k] = Detruite
      BY <3>1, <3>3 DEF LigneTenue, Sentinelles
    <3>4. CASE champ'[k] = champ[k]
      BY <1>4, <1>5, <1>6, <2>1, <3>2, <3>4, LigneStable
    <3>5. QED
      BY <1>4, <3>3, <3>4
  <2>4. QED
    BY <2>1, <2>2, <2>3
<1>7. QED
  BY <1>5, <1>6, PasInv

LEMMA InterrompreInv ==
    ASSUME HypothesesFichiers, InvFichiers, NEW r \in Guichets, InterrompreFichier(r)
    PROVE  InvFichiers'
<1>1. PICK d : d = demande[r]
  OBVIOUS
<1>2. Suivre(r, "fini") /\ d.etape # "repos" /\ "fini" \in EtapesFichiers
  BY <1>1 DEF InterrompreFichier, EtapesFichiers
<1>3. /\ demande' \in [Guichets -> DemandeFichier]
      /\ \A q \in Guichets \ {r} : demande'[q] = demande[q]
      /\ demande'[r].etape = "fini" /\ demande'[r].ligne = d.ligne
  BY <1>1, <1>2, Suivi DEF InvFichiers
<1>4. /\ UNCHANGED <<partage, photos, script, champ, entrepot>>
      /\ exposees \subseteq exposees' /\ (d.etape = "ecrire" => d.ligne \in exposees')
  BY <1>1 DEF InterrompreFichier
<1>5. Pas({r}) /\ PasDe(r)
  BY <1>1, <1>2, <1>3, <1>4 DEF InvFichiers, Pas, PasDe, PasSeul, TypeFichiers, Nommee,
                                EcritureAttendue, AVenir
<1>6. ASSUME ~partage
      PROVE  /\ Epargne /\ DemandeTenue(r, demande[r])'
             /\ \A k \in Lignes : LigneTenue(k)'
  <2>1. LignesTenues /\ Epargne
    BY <1>4, <1>6 DEF InvFichiers, FichiersTenusLignes, Epargne
  <2>2. DemandeTenue(r, demande[r])'
    BY <1>3 DEF DemandeTenue
  <2>3. \A k \in Lignes : EntreDeux(k) => EntreDeux(k)' \/ k \in exposees'
    BY <1>1, <1>3, <1>4 DEF EntreDeux
  <2>4. \A k \in Lignes : LigneTenue(k)'
    BY <1>4, <1>5, <1>6, <2>1, <2>3, LigneStable
  <2>5. QED
    BY <2>1, <2>2, <2>4
<1>7. QED
  BY <1>5, <1>6, PasInv

-----------------------------------------------------------------------------

\* A step about the list of photos: it deletes nothing but photos.
LEMMA PhotosInv ==
    ASSUME HypothesesFichiers, InvFichiers, NEW r \in Guichets, PasSeul(r), PhotosTenues',
           UNCHANGED <<champ, exposees>>,
           demande[r].etape \in {"repos", "photos", "liste"},
           demande'[r].etape \in {"photos", "liste", "fini"},
           \A f \in entrepot : f \in entrepot' \/ (f \in Guichets /\ Photo(f))
    PROVE  InvFichiers'
<1>1. ASSUME NEW f \in Guichets, Photo(f)
      PROVE  ~Nouveau(f)
  <2>1. demande[f].etape \notin {"repos", "televerser", "ecrire", "effacer"}
    BY <1>1 DEF Photo, InvFichiers, TypeFichiers, Nommee, HypothesesFichiers
  <2>2. QED
    BY <2>1 DEF Nouveau, EcritureAttendue, HypothesesFichiers
<1>2. ASSUME ~partage
      PROVE  /\ Epargne /\ DemandeTenue(r, demande[r])'
             /\ \A k \in Lignes : LigneTenue(k)'
  <2>1. LignesTenues
    BY <1>2 DEF InvFichiers, FichiersTenusLignes
  <2>2. Epargne
    BY <1>1 DEF Epargne
  <2>3. DemandeTenue(r, demande[r])'
    BY DEF DemandeTenue
  <2>4. ASSUME NEW k \in Lignes
        PROVE  LigneTenue(k)'
    <3>1. champ[k] \in Guichets => ~Photo(champ[k])
      BY <2>1 DEF LignesTenues, LigneTenue, FichierDe, Photo, HypothesesFichiers
    <3>2. champ[k] \in entrepot => champ[k] \in entrepot'
      BY <3>1
    <3>3. EntreDeux(k) => EntreDeux(k)'
      BY DEF EntreDeux, PasSeul, Pas
    <3>4. QED
      BY <1>2, <2>1, <3>2, <3>3, LigneStable DEF PasSeul
  <2>5. QED
    BY <2>2, <2>3, <2>4
<1>3. QED
  BY <1>2, PasSeulInv

\* What such a step owes to the lists.
LEMMA ListesTenues ==
    ASSUME InvFichiers, NEW r \in Guichets, PasSeul(r), ListeTenue(demande[r])',
           IsFiniteSet(photos'), Cardinality(photos') <= MAX_PHOTOS,
           \A f \in photos' : Photo(f) \/ Photo(f)'
    PROVE  PhotosTenues'
<1>1. \A f \in Guichets : Photo(f) => Photo(f)'
  BY DEF Photo, PasSeul, Pas
<1>2. ASSUME NEW q \in Guichets \ {r}
      PROVE  ListeTenue(demande[q])'
  <2>1. PICK d : d = demande[q]
    OBVIOUS
  <2>2. d = demande'[q] /\ ListeTenue(d) /\ d.liste \in SUBSET Guichets
    BY <2>1, DemandeTypee DEF PasSeul, Pas, InvFichiers, PhotosTenues
  <2>3. QED
    BY <1>1, <2>2 DEF ListeTenue
<1>3. photos' \in SUBSET Guichets
  BY DEF PasSeul, TypeFichiers
<1>4. QED
  BY <1>1, <1>2, <1>3 DEF PhotosTenues

LEMMA AjouterPhotosInv ==
    ASSUME HypothesesFichiers, InvFichiers, NEW r \in Guichets, AjouterPhotos(r)
    PROVE  InvFichiers'
<1>1. PICK d : d = [Oisive EXCEPT !.etape = "photos", !.liste = photos]
  OBVIOUS
<1>2. d \in DemandeFichier /\ d.etape = "photos" /\ d.ligne = Aucun /\ d.liste = photos
  BY <1>1 DEF Oisive, DemandeFichier, EtapesFichiers, AdressesFichiers, Sentinelles, InvFichiers,
              TypeFichiers
<1>3. demande[r].etape = "repos" /\ demande' = [demande EXCEPT ![r] = d]
  BY <1>1 DEF AjouterPhotos
<1>4. /\ demande' \in [Guichets -> DemandeFichier]
      /\ \A q \in Guichets \ {r} : demande'[q] = demande[q]
      /\ demande'[r] = d
  BY <1>2, <1>3, Prise DEF InvFichiers
<1>5. UNCHANGED <<partage, champ, photos, entrepot, script, exposees>>
  BY DEF AjouterPhotos
<1>6. Pas({r}) /\ PasSeul(r)
  BY <1>2, <1>3, <1>4, <1>5 DEF InvFichiers, Pas, PasSeul, TypeFichiers, Nommee, EcritureAttendue,
                                AVenir
<1>7. \A f \in photos : Photo(f) /\ Photo(f)'
  BY <1>6 DEF InvFichiers, TypeFichiers, PhotosTenues, Photo, Pas
<1>8. ListeTenue(demande[r])'
  BY <1>2, <1>4, <1>7 DEF ListeTenue, InvFichiers, PhotosTenues, AjouterPhotos
<1>9. PhotosTenues'
  BY <1>5, <1>6, <1>7, <1>8, ListesTenues DEF InvFichiers, PhotosTenues
<1>10. QED
  BY <1>2, <1>3, <1>4, <1>5, <1>6, <1>9, PhotosInv

LEMMA EcrirePhotosInv ==
    ASSUME HypothesesFichiers, InvFichiers, NEW r \in Guichets, EcrirePhotos(r)
    PROVE  InvFichiers'
<1>1. PICK d : d = demande[r]
  OBVIOUS
<1>2. Suivre(r, "fini") /\ d.etape = "photos" /\ "fini" \in EtapesFichiers
  BY <1>1 DEF EcrirePhotos, EtapesFichiers
<1>3. /\ demande' \in [Guichets -> DemandeFichier]
      /\ \A q \in Guichets \ {r} : demande'[q] = demande[q]
      /\ demande'[r].etape = "fini" /\ demande'[r].ligne = d.ligne
  BY <1>1, <1>2, Suivi DEF InvFichiers
<1>4. /\ ListeTenue(d) /\ d.liste \in SUBSET Guichets
  BY <1>1, DemandeTypee DEF InvFichiers, PhotosTenues
<1>5. /\ UNCHANGED <<partage, champ, script, exposees>>
      /\ entrepot' = entrepot \cup {r} /\ photos' = d.liste \cup {r}
  BY <1>1 DEF EcrirePhotos, Stocker, ListeAjoutee
<1>6. Pas({r}) /\ PasSeul(r)
  BY <1>1, <1>2, <1>3, <1>4, <1>5 DEF InvFichiers, Pas, PasSeul, TypeFichiers, Nommee,
                                      EcritureAttendue, AVenir
<1>7. IsFiniteSet(photos') /\ Cardinality(photos') <= MAX_PHOTOS
  <2>1. IsFiniteSet(d.liste) /\ Cardinality(d.liste) < MAX_PHOTOS /\ Cardinality(d.liste) \in Nat
    BY <1>2, <1>4, FS_CardinalityType DEF ListeTenue
  <2>2. /\ IsFiniteSet(photos')
        /\ Cardinality(photos') = IF r \in d.liste THEN Cardinality(d.liste)
                                  ELSE Cardinality(d.liste) + 1
    BY <1>5, <2>1, FS_AddElement
  <2>3. QED
    BY <2>1, <2>2 DEF HypothesesFichiers
<1>8. \A f \in photos' : Photo(f) \/ Photo(f)'
  BY <1>2, <1>3, <1>4, <1>5 DEF ListeTenue, Photo
<1>9. ListeTenue(demande[r])'
  BY <1>3 DEF ListeTenue
<1>10. PhotosTenues'
  BY <1>6, <1>7, <1>8, <1>9, ListesTenues
<1>11. QED
  BY <1>1, <1>2, <1>3, <1>5, <1>6, <1>10, PhotosInv

LEMMA RetirerPhotoInv ==
    ASSUME HypothesesFichiers, InvFichiers, NEW r \in Guichets, NEW f \in Guichets,
           RetirerPhoto(r, f)
    PROVE  InvFichiers'
<1>1. PICK d : d = [Oisive EXCEPT !.etape = "liste", !.de = f, !.liste = photos \ {f}]
  OBVIOUS
<1>2. d \in DemandeFichier /\ d.etape = "liste" /\ d.ligne = Aucun /\ d.liste = photos \ {f}
  BY <1>1 DEF Oisive, DemandeFichier, EtapesFichiers, AdressesFichiers, Sentinelles, InvFichiers,
              TypeFichiers
<1>3. demande[r].etape = "repos" /\ demande' = [demande EXCEPT ![r] = d] /\ f \in photos
  BY <1>1 DEF RetirerPhoto
<1>4. /\ demande' \in [Guichets -> DemandeFichier]
      /\ \A q \in Guichets \ {r} : demande'[q] = demande[q]
      /\ demande'[r] = d
  BY <1>2, <1>3, Prise DEF InvFichiers
<1>5. UNCHANGED <<partage, champ, photos, script, exposees>> /\ entrepot \ {f} \subseteq entrepot'
  BY DEF RetirerPhoto, Effacer
<1>6. Pas({r}) /\ PasSeul(r)
  BY <1>2, <1>3, <1>4, <1>5 DEF InvFichiers, Pas, PasSeul, TypeFichiers, Nommee, EcritureAttendue,
                                AVenir
<1>7. \A g \in photos : Photo(g) /\ Photo(g)'
  BY <1>6 DEF InvFichiers, TypeFichiers, PhotosTenues, Photo, Pas
<1>8. IsFiniteSet(d.liste) /\ Cardinality(d.liste) <= MAX_PHOTOS
  <2>1. IsFiniteSet(photos) /\ Cardinality(photos) <= MAX_PHOTOS /\ Cardinality(photos) \in Nat
    BY FS_CardinalityType DEF InvFichiers, PhotosTenues
  <2>2. IsFiniteSet(d.liste) /\ Cardinality(d.liste) = Cardinality(photos) - 1
    BY <1>2, <1>3, <2>1, FS_RemoveElement
  <2>3. QED
    BY <2>1, <2>2 DEF HypothesesFichiers
<1>9. ListeTenue(demande[r])'
  BY <1>2, <1>4, <1>7, <1>8 DEF ListeTenue
<1>10. PhotosTenues'
  BY <1>5, <1>6, <1>7, <1>9, ListesTenues DEF InvFichiers, PhotosTenues
<1>11. QED
  BY <1>2, <1>3, <1>4, <1>5, <1>6, <1>7, <1>10, PhotosInv

LEMMA EcrireListeInv ==
    ASSUME HypothesesFichiers, InvFichiers, NEW r \in Guichets, EcrireListe(r)
    PROVE  InvFichiers'
<1>1. PICK d : d = demande[r]
  OBVIOUS
<1>2. Suivre(r, "fini") /\ d.etape = "liste" /\ "fini" \in EtapesFichiers
  BY <1>1 DEF EcrireListe, EtapesFichiers
<1>3. /\ demande' \in [Guichets -> DemandeFichier]
      /\ \A q \in Guichets \ {r} : demande'[q] = demande[q]
      /\ demande'[r].etape = "fini" /\ demande'[r].ligne = d.ligne
  BY <1>1, <1>2, Suivi DEF InvFichiers
<1>4. /\ ListeTenue(d) /\ d.liste \in SUBSET Guichets
  BY <1>1, DemandeTypee DEF InvFichiers, PhotosTenues
<1>5. UNCHANGED <<partage, champ, script, exposees, entrepot>> /\ photos' = d.liste
  BY <1>1 DEF EcrireListe
<1>6. Pas({r}) /\ PasSeul(r)
  BY <1>1, <1>2, <1>3, <1>4, <1>5 DEF InvFichiers, Pas, PasSeul, TypeFichiers, Nommee,
                                      EcritureAttendue, AVenir
<1>7. /\ IsFiniteSet(photos') /\ Cardinality(photos') <= MAX_PHOTOS
      /\ \A f \in photos' : Photo(f)
  BY <1>2, <1>4, <1>5 DEF ListeTenue
<1>8. ListeTenue(demande[r])'
  BY <1>3 DEF ListeTenue
<1>9. PhotosTenues'
  BY <1>6, <1>7, <1>8, ListesTenues
<1>10. QED
  BY <1>1, <1>2, <1>3, <1>5, <1>6, <1>9, PhotosInv

-----------------------------------------------------------------------------

\* A step of the script, and what is left to show of it.
LEMMA ScriptInv ==
    ASSUME HypothesesFichiers, InvFichiers, TypeFichiers', Pas({}),
           UNCHANGED <<demande, photos, exposees>>, entrepot \subseteq entrepot',
           ~partage => ScriptTenu' /\ \A k \in Lignes : champ'[k] = champ[k] \/ LigneTenue(k)'
    PROVE  InvFichiers'
<1>1. PhotosTenues'
  BY PhotosStables DEF InvFichiers
<1>2. ASSUME ~partage'
      PROVE  FichiersTenusLignes'
  <2>1. ~partage /\ Epargne
    BY <1>2 DEF Pas, Epargne
  <2>2. DemandesTenues'
    <3>1. \A q \in Guichets \ {} : DemandeTenue(q, demande[q])'
      BY <2>1, AutresDemandes DEF InvFichiers, FichiersTenusLignes
    <3>2. QED
      BY <3>1 DEF DemandesTenues
  <2>3. LignesTenues'
    <3>1. \A k \in Lignes : EntreDeux(k) => EntreDeux(k)'
      BY DEF EntreDeux
    <3>2. \A k \in Lignes : champ'[k] = champ[k] => LigneTenue(k)'
      BY <2>1, <3>1, LigneStable DEF InvFichiers, FichiersTenusLignes
    <3>3. QED
      BY <2>1, <3>2 DEF LignesTenues
  <2>4. QED
    BY <2>1, <2>2, <2>3 DEF FichiersTenusLignes
<1>3. QED
  BY <1>1, <1>2 DEF InvFichiers

LEMMA MigrerInv ==
    ASSUME HypothesesFichiers, InvFichiers, Migrer
    PROVE  InvFichiers'
<1>1. UNCHANGED <<partage, champ, photos, entrepot, demande, exposees>>
  BY DEF Migrer
<1>2. PICK q : q = script
  OBVIOUS
<1>3. PICK t : t = [ScriptArrete EXCEPT !.passage = script.passage + 1, !.lu = champ,
                                        !.reste = {l \in Lignes : champ[l] = Ancien}]
  OBVIOUS
<1>4. script' = t
  BY <1>3 DEF Migrer
<1>5. /\ t.passage = q.passage + 1 /\ t.envoi = Aucun /\ t.pour = Aucun /\ t.connus = {}
      /\ t \in EtatScript /\ q.passage \in Nat
  <2>1. q.passage \in Nat /\ champ \in [Lignes -> AdressesFichiers]
    BY <1>2 DEF EtatScript, InvFichiers, TypeFichiers
  <2>2. t = [passage |-> q.passage + 1, lu |-> champ, reste |-> {l \in Lignes : champ[l] = Ancien},
             envoi |-> Aucun, pour |-> Aucun, connus |-> {}]
    BY <1>2, <1>3 DEF ScriptArrete
  <2>3. QED
    BY <2>1, <2>2 DEF EtatScript
<1>6. TypeFichiers'
  BY <1>1, <1>4, <1>5 DEF InvFichiers, TypeFichiers
<1>7. \A c \in Cles : AVenir(c)' => AVenir(c)
  <2>1. \A c \in Cles : c # Aucun /\ c[2] \in Nat
    BY DEF Cles, HypothesesFichiers
  <2>2. \A c \in Cles : AVenir(c)' => c[2] > q.passage
    BY <1>4, <1>5, <2>1 DEF AVenir
  <2>3. QED
    BY <1>2, <2>2 DEF AVenir
<1>8. Pas({})
  BY <1>1, <1>6, <1>7 DEF Pas
<1>9. ScriptTenu'
  BY <1>4, <1>5 DEF ScriptTenu
<1>10. QED
  BY <1>1, <1>6, <1>8, <1>9, ScriptInv

LEMMA TransfererInv ==
    ASSUME HypothesesFichiers, InvFichiers, NEW l \in Lignes, Transferer(l)
    PROVE  InvFichiers'
<1>1. UNCHANGED <<partage, champ, photos, demande, exposees>>
  BY DEF Transferer
<1>2. PICK q \in EtatScript : q = script
  BY DEF InvFichiers, TypeFichiers
<1>3. PICK cle : cle = <<IF partage THEN Aucun ELSE l, q.passage>>
  OBVIOUS
<1>4. cle \in Cles /\ q.pour = Aucun /\ l \in q.reste /\ q.passage \in Nat
  BY <1>2, <1>3 DEF Transferer, Cles, EtatScript
<1>5. \/ /\ script' = [q EXCEPT !.reste = q.reste \ {l}, !.pour = l, !.envoi = cle,
                                !.connus = q.connus \cup {cle}]
         /\ IF cle \in q.connus THEN entrepot' = entrepot ELSE entrepot' = entrepot \cup {cle}
      \/ script' = [q EXCEPT !.reste = q.reste \ {l}] /\ entrepot' = entrepot
  BY <1>2, <1>3 DEF Transferer, Stocker
<1>6. PICK t : t = script'
  OBVIOUS
<1>7. /\ t \in EtatScript /\ t.passage = q.passage /\ t.reste = q.reste \ {l}
      /\ entrepot \subseteq entrepot'
      /\ \/ /\ t.pour = l /\ t.envoi = cle /\ t.connus = q.connus \cup {cle}
            /\ cle \in q.connus \/ cle \in entrepot'
         \/ t.pour = Aucun /\ t.envoi = q.envoi /\ t.connus = q.connus
  <2>1. CASE /\ t = [q EXCEPT !.reste = q.reste \ {l}, !.pour = l, !.envoi = cle,
                              !.connus = q.connus \cup {cle}]
             /\ IF cle \in q.connus THEN entrepot' = entrepot ELSE entrepot' = entrepot \cup {cle}
    <3>1. /\ t.passage = q.passage /\ t.reste = q.reste \ {l}
          /\ t.pour = l /\ t.envoi = cle /\ t.connus = q.connus \cup {cle}
      BY <1>2, <2>1 DEF EtatScript
    <3>2. t \in EtatScript
      BY <1>2, <1>4, <2>1 DEF EtatScript
    <3>3. entrepot \subseteq entrepot' /\ (cle \in q.connus \/ cle \in entrepot')
      BY <2>1
    <3>4. QED
      BY <3>1, <3>2, <3>3
  <2>2. CASE t = [q EXCEPT !.reste = q.reste \ {l}] /\ entrepot' = entrepot
    BY <1>4, <2>2 DEF EtatScript
  <2>3. QED
    BY <1>5, <1>6, <2>1, <2>2
<1>8. TypeFichiers'
  BY <1>1, <1>6, <1>7 DEF InvFichiers, TypeFichiers
<1>9. Pas({})
  <2>1. ASSUME ~partage, NEW c \in Cles, AVenir(c)'
        PROVE  AVenir(c)
    <3>1. cle[1] = l /\ cle[2] = q.passage
      BY <1>3, <2>1
    <3>2. c = t.envoi \/ c[2] > t.passage \/ (c[2] = t.passage /\ c[1] \in t.reste)
      BY <1>6, <2>1 DEF AVenir
    <3>3. QED
      BY <1>2, <1>4, <1>7, <3>1, <3>2 DEF AVenir
  <2>2. QED
    BY <1>1, <1>8, <2>1 DEF Pas
<1>10. ASSUME ~partage
       PROVE  ScriptTenu'
  <2>1. cle = <<l, q.passage>> /\ cle \notin q.connus
    BY <1>2, <1>3, <1>4, <1>10 DEF InvFichiers, FichiersTenusLignes, ScriptTenu
  <2>2. q.envoi = Aucun /\ \A k \in q.reste : <<k, q.passage>> \notin q.connus
    BY <1>2, <1>4, <1>10 DEF InvFichiers, FichiersTenusLignes, ScriptTenu
  <2>3. \A k \in t.reste : <<k, t.passage>> \notin t.connus
    BY <1>7, <2>1, <2>2
  <2>4. t.pour # Aucun => t.envoi = <<t.pour, t.passage>> /\ t.envoi \in entrepot' /\ t.pour \notin t.reste
    BY <1>7, <2>1
  <2>5. t.pour = Aucun => t.envoi = Aucun
    BY <1>7, <2>2 DEF HypothesesFichiers
  <2>6. QED
    BY <1>6, <2>3, <2>4, <2>5 DEF ScriptTenu
<1>11. QED
  BY <1>1, <1>7, <1>8, <1>9, <1>10, ScriptInv

LEMMA RemplirInv ==
    ASSUME HypothesesFichiers, InvFichiers, Remplir
    PROVE  InvFichiers'
<1>1. UNCHANGED <<partage, photos, entrepot, demande, exposees>>
  BY DEF Remplir
<1>2. PICK q \in EtatScript : q = script
  BY DEF InvFichiers, TypeFichiers
<1>3. PICK t : t = script'
  OBVIOUS
<1>4. /\ q.pour \in Lignes /\ q.passage \in Nat /\ q.envoi \in Cles \cup {Aucun}
      /\ t \in EtatScript /\ t.passage = q.passage /\ t.reste = q.reste
      /\ t.pour = Aucun /\ t.envoi = Aucun /\ t.connus = q.connus
  BY <1>2, <1>3 DEF Remplir, EtatScript
<1>5. /\ champ' \in [Lignes -> AdressesFichiers]
      /\ \A k \in Lignes : champ'[k] = champ[k] \/ (k = q.pour /\ champ'[k] = q.envoi)
  BY <1>2, <1>4 DEF Remplir, InvFichiers, TypeFichiers, AdressesFichiers, Sentinelles
<1>6. TypeFichiers'
  BY <1>1, <1>3, <1>4, <1>5 DEF InvFichiers, TypeFichiers
<1>7. ASSUME ~partage
      PROVE  /\ q.envoi = <<q.pour, q.passage>> /\ q.envoi \in entrepot /\ q.pour \notin q.reste
             /\ q.envoi \in Cles /\ Nouveau(q.envoi)
  <2>1. q.pour # Aucun
    BY <1>4 DEF HypothesesFichiers
  <2>2. q.envoi = <<q.pour, q.passage>> /\ q.envoi \in entrepot /\ q.pour \notin q.reste
    BY <1>2, <1>7, <2>1 DEF InvFichiers, FichiersTenusLignes, ScriptTenu
  <2>3. q.envoi \in Cles
    BY <1>4, <2>2 DEF Cles
  <2>4. QED
    BY <1>2, <2>2, <2>3 DEF Nouveau, AVenir
<1>8. Pas({})
  <2>1. \A c \in Cles : AVenir(c)' => AVenir(c)
    BY <1>2, <1>3, <1>4 DEF AVenir, HypothesesFichiers
  <2>2. QED
    BY <1>1, <1>5, <1>6, <1>7, <2>1 DEF Pas
<1>9. ASSUME ~partage
      PROVE  ScriptTenu' /\ \A k \in Lignes : champ'[k] = champ[k] \/ LigneTenue(k)'
  <2>1. ScriptTenu'
    BY <1>2, <1>3, <1>4, <1>9 DEF ScriptTenu, InvFichiers, FichiersTenusLignes
  <2>2. FichierDe(q.pour, q.envoi)'
    <3>1. q.envoi[1] = q.pour /\ q.envoi[2] = q.passage /\ q.envoi \notin Guichets
          /\ q.envoi # Aucun
      BY <1>7, <1>9 DEF HypothesesFichiers
    <3>2. ~AVenir(q.envoi)'
      BY <1>3, <1>4, <1>7, <1>9, <3>1 DEF AVenir
    <3>3. QED
      BY <3>1, <3>2 DEF FichierDe, Nouveau
  <2>3. \A k \in Lignes : champ'[k] = champ[k] \/ LigneTenue(k)'
    BY <1>1, <1>5, <1>7, <1>9, <2>2 DEF LigneTenue
  <2>4. QED
    BY <2>1, <2>3
<1>10. QED
  BY <1>1, <1>6, <1>8, <1>9, ScriptInv

LEMMA ArreterScriptInv ==
    ASSUME HypothesesFichiers, InvFichiers, ArreterScript
    PROVE  InvFichiers'
<1>1. UNCHANGED <<partage, champ, photos, entrepot, demande, exposees>>
  BY DEF ArreterScript
<1>2. PICK q \in EtatScript : q = script
  BY DEF InvFichiers, TypeFichiers
<1>3. PICK t : t = [ScriptArrete EXCEPT !.passage = q.passage]
  OBVIOUS
<1>4. script' = t
  BY <1>2, <1>3 DEF ArreterScript
<1>5. /\ t.passage = q.passage /\ t.envoi = Aucun /\ t.pour = Aucun /\ t.reste = {}
      /\ t.connus = {} /\ q.passage \in Nat /\ t.lu = [l \in Lignes |-> Aucun]
  BY <1>2, <1>3 DEF ScriptArrete, EtatScript
<1>6. t \in EtatScript
  BY <1>3, <1>5 DEF ScriptArrete, EtatScript, AdressesFichiers, Sentinelles
<1>7. TypeFichiers'
  BY <1>1, <1>4, <1>6 DEF InvFichiers, TypeFichiers
<1>8. \A c \in Cles : AVenir(c)' => AVenir(c)
  BY <1>2, <1>4, <1>5 DEF AVenir, HypothesesFichiers
<1>9. Pas({})
  BY <1>1, <1>7, <1>8 DEF Pas
<1>10. ScriptTenu'
  BY <1>4, <1>5 DEF ScriptTenu
<1>11. QED
  BY <1>1, <1>7, <1>9, <1>10, ScriptInv

\* However replacements, removals and the script cross, fail and stop, for any number of rows and
\* requests: a row points at a file of the storage, but where EntreDeux and exposees say.
THEOREM FichiersGardes == HypothesesFichiers /\ SpecFichiers => []FichiersVivants
<1> SUFFICES ASSUME HypothesesFichiers
             PROVE  SpecFichiers => []FichiersVivants
  OBVIOUS
<1>1. InitFichiers => InvFichiers
  <2> SUFFICES ASSUME InitFichiers
               PROVE  InvFichiers
    OBVIOUS
  <2>1. TypeFichiers
    BY DEF InitFichiers, TypeFichiers, Nommee, AdressesFichiers, Sentinelles, DemandeFichier,
           EtapesFichiers, EtatScript, Oisive, ScriptArrete
  <2>2. PhotosTenues
    BY FS_EmptySet DEF InitFichiers, PhotosTenues, ListeTenue, Oisive, HypothesesFichiers
  <2>3. DemandesTenues
    BY DEF InitFichiers, DemandesTenues, DemandeTenue, Oisive
  <2>4. ScriptTenu
    BY DEF InitFichiers, ScriptTenu, ScriptArrete
  <2>5. LignesTenues
    BY DEF InitFichiers, LignesTenues, LigneTenue, FichierDe, Nouveau, Sentinelles, HypothesesFichiers
  <2>6. QED
    BY <2>1, <2>2, <2>3, <2>4, <2>5 DEF InvFichiers, FichiersTenusLignes
<1>2. InvFichiers /\ [NextFichiers]_varsFichiers => InvFichiers'
  <2> SUFFICES ASSUME InvFichiers, [NextFichiers]_varsFichiers
               PROVE  InvFichiers'
    OBVIOUS
  <2>1. CASE Migrer \/ Remplir \/ ArreterScript
    BY <2>1, MigrerInv, RemplirInv, ArreterScriptInv
  <2>2. ASSUME NEW l \in Lignes, Transferer(l)
        PROVE  InvFichiers'
    BY <2>2, TransfererInv
  <2>3. ASSUME NEW r \in Guichets, NEW l \in Lignes, Remplacer(r, l) \/ Retirer(r, l)
        PROVE  InvFichiers'
    BY <2>3, RemplacerInv, RetirerInv
  <2>4. ASSUME NEW r \in Guichets,
               \/ Envoyer(r) \/ EffacerAncien(r) \/ EcrireLigne(r) \/ Detruire(r)
               \/ AjouterPhotos(r) \/ EcrirePhotos(r) \/ EcrireListe(r) \/ InterrompreFichier(r)
        PROVE  InvFichiers'
    BY <2>4, EnvoyerInv, EffacerAncienInv, EcrireLigneInv, DetruireInv, AjouterPhotosInv,
       EcrirePhotosInv, EcrireListeInv, InterrompreInv
  <2>5. ASSUME NEW r \in Guichets, NEW f \in Guichets, RetirerPhoto(r, f)
        PROVE  InvFichiers'
    BY <2>5, RetirerPhotoInv
  <2>6. CASE UNCHANGED varsFichiers
    BY <2>6 DEF varsFichiers, InvFichiers, TypeFichiers, PhotosTenues, FichiersTenusLignes,
                DemandesTenues, DemandeTenue, ScriptTenu, LignesTenues, LigneTenue, FichierDe,
                Nouveau, AVenir, ListeTenue, Photo, EntreDeux
  <2>7. QED
    BY <2>1, <2>2, <2>3, <2>4, <2>5, <2>6 DEF NextFichiers
<1>3. InvFichiers => FichiersVivants
  BY DEF InvFichiers, PhotosTenues, FichiersTenusLignes, LignesTenues, LigneTenue, FichiersVivants,
         Sentinelles, TypeFichiers
<1>4. QED
  BY <1>1, <1>2, <1>3, PTL DEF SpecFichiers

-----------------------------------------------------------------------------
(***************************************************************************)
(* Reviews.                                                                *)
(*                                                                         *)
(* A deposit or a moderation in flight was let in by a delivery, which is  *)
(* never undone, and the summary was true when its query read it: the time *)
(* the query takes, then what it has left to live, bound the time since.   *)
(***************************************************************************)

TypeEvaluations ==
    /\ DOMAIN avis = Evaluateurs /\ DOMAIN envoi = Envois /\ DOMAIN moderation = Moderateurs
    /\ edition \in 0 .. VersionsMax
    /\ desuete \in [0 .. VersionsMax -> Nat]
    /\ \A v \in edition .. VersionsMax : desuete[v] = 0

AvisTenu(c, a) ==
    /\ a.statut # "en_attente" => a.modere
    /\ c \in disputes \/ a.motif = (a.statut = "rejete")

\* A deposit or a moderation in flight was let in by a delivery; a moderation decides.
DepotsTenus ==
    /\ \A e \in Envois : envoi[e] # "aucun" => envoi[e] \in Evaluateurs /\ livre
    /\ \A c \in Evaluateurs : avis[c] # SansAvis => livre /\ AvisTenu(c, avis[c])
    /\ \A m \in Moderateurs : moderation[m] # Aucune =>
          /\ livre /\ moderation[m].client \in Evaluateurs
          /\ moderation[m].statut \in {"publie", "rejete"}

\* What the query in flight read was replaced since it was read at most, and so was what the
\* summary shows.
LectureTenue ==
    lecture # SansAvis =>
        /\ lecture \in [edition : Nat, duree : Nat]
        /\ lecture.edition \in 0 .. edition
        /\ lecture.duree <= DureeLecture
        /\ desuete[lecture.edition] <= lecture.duree

SyntheseTenue ==
    synthese # SansAvis =>
        /\ synthese \in [edition : Nat, reste : Nat]
        /\ synthese.edition \in 0 .. edition
        /\ synthese.reste \in 1 .. TTL_PUBLIC
        /\ desuete[synthese.edition] <= RetardMax - synthese.reste

InvEvaluations == TypeEvaluations /\ DepotsTenus /\ LectureTenue /\ SyntheseTenue

-----------------------------------------------------------------------------

\* A change of what is published leaves the summary as far from the truth as it was.
LEMMA PublicationInv ==
    ASSUME HypothesesEvaluations, TypeEvaluations, LectureTenue, SyntheseTenue, NEW a, NEW b,
           Publication(a, b), UNCHANGED <<livre, public>>, DOMAIN avis' = Evaluateurs,
           DOMAIN envoi' = Envois, DOMAIN moderation' = Moderateurs
    PROVE  TypeEvaluations' /\ LectureTenue' /\ SyntheseTenue'
<1> USE DEF public
<1>1. edition' = edition \/ (edition < VersionsMax /\ edition' = edition + 1)
  BY DEF Publication
<1>2. edition \in 0 .. VersionsMax /\ VersionsMax \in Nat
  BY DEF TypeEvaluations, HypothesesEvaluations
<1>3. edition' \in 0 .. VersionsMax /\ edition <= edition'
  BY <1>1, <1>2
<1>4. \A v \in edition' .. VersionsMax : desuete'[v] = 0
  BY <1>2, <1>3 DEF TypeEvaluations
<1>5. TypeEvaluations'
  BY <1>3, <1>4 DEF TypeEvaluations
<1>6. LectureTenue' /\ SyntheseTenue'
  BY <1>2, <1>3 DEF LectureTenue, SyntheseTenue
<1>7. QED
  BY <1>5, <1>6

LEMMA DeposerInv ==
    ASSUME InvEvaluations, NEW e \in Envois, Deposer(e)
    PROVE  InvEvaluations'
<1>1. PICK c : c = envoi[e]
  OBVIOUS
<1>2. PICK a : a = [statut |-> "en_attente", motif |-> FALSE, modere |-> FALSE]
  OBVIOUS
<1>3. a.statut = "en_attente" /\ a.motif = FALSE
  BY <1>2
<1>4. /\ c \in Evaluateurs /\ livre
      /\ UNCHANGED <<livre, moderation, disputes, edition, public>>
      /\ envoi' = [envoi EXCEPT ![e] = "aucun"]
      /\ avis' = avis \/ avis' = [avis EXCEPT ![c] = a]
  BY <1>1, <1>2 DEF Deposer, InvEvaluations, DepotsTenus
<1>5. TypeEvaluations' /\ LectureTenue' /\ SyntheseTenue'
  BY <1>4 DEF InvEvaluations, TypeEvaluations, LectureTenue, SyntheseTenue, public
<1>6. \A f \in Envois : envoi'[f] # "aucun" => envoi'[f] \in Evaluateurs /\ livre'
  BY <1>4 DEF InvEvaluations, TypeEvaluations, DepotsTenus
<1>7. ASSUME NEW d \in Evaluateurs, avis'[d] # SansAvis
      PROVE  livre' /\ AvisTenu(d, avis[d])'
  <2>1. avis'[d] = avis[d] \/ avis'[d] = a
    BY <1>4 DEF InvEvaluations, TypeEvaluations
  <2>2. CASE avis'[d] = avis[d]
    BY <1>4, <1>7, <2>2 DEF InvEvaluations, DepotsTenus, AvisTenu
  <2>3. CASE avis'[d] = a
    <3>1. "en_attente" # "rejete" /\ a.motif = (a.statut = "rejete")
      BY <1>3
    <3>2. QED
      BY <1>3, <1>4, <2>3, <3>1 DEF AvisTenu
  <2>4. QED
    BY <2>1, <2>2, <2>3
<1>8. DepotsTenus'
  BY <1>4, <1>6, <1>7 DEF InvEvaluations, DepotsTenus
<1>9. QED
  BY <1>5, <1>8 DEF InvEvaluations

\* Removed, and forgotten by the moderations in flight.
LEMMA SupprimerAvisInv ==
    ASSUME HypothesesEvaluations, InvEvaluations, NEW c \in Evaluateurs, SupprimerAvis(c)
    PROVE  InvEvaluations'
<1>1. /\ UNCHANGED <<livre, envoi, public>>
      /\ avis' = [avis EXCEPT ![c] = SansAvis] /\ disputes' = disputes \ {c}
      /\ Publication(avis[c], SansAvis)
      /\ moderation' = [m \in Moderateurs |->
            IF moderation[m].client = c THEN Aucune ELSE moderation[m]]
  BY DEF SupprimerAvis
<1>2. DOMAIN avis' = Evaluateurs /\ DOMAIN envoi' = Envois /\ DOMAIN moderation' = Moderateurs
  BY <1>1 DEF InvEvaluations, TypeEvaluations
<1>3. TypeEvaluations' /\ LectureTenue' /\ SyntheseTenue'
  BY <1>1, <1>2, PublicationInv DEF InvEvaluations
<1>4. DepotsTenus'
  <2>1. \A d \in Evaluateurs : avis'[d] # SansAvis => d # c /\ avis'[d] = avis[d]
    BY <1>1 DEF InvEvaluations, TypeEvaluations
  <2>2. \A d \in Evaluateurs : avis'[d] # SansAvis => livre' /\ AvisTenu(d, avis[d])'
    BY <1>1, <2>1 DEF InvEvaluations, DepotsTenus, AvisTenu
  <2>3. \A m \in Moderateurs : moderation'[m] # Aucune => moderation'[m] = moderation[m]
    BY <1>1
  <2>4. QED
    BY <1>1, <2>2, <2>3 DEF InvEvaluations, DepotsTenus
<1>5. QED
  BY <1>3, <1>4 DEF InvEvaluations

\* The columns that differ from what was loaded: when nothing changed meanwhile, the decision.
LEMMA ModererInv ==
    ASSUME HypothesesEvaluations, InvEvaluations, NEW m \in Moderateurs, Moderer(m)
    PROVE  InvEvaluations'
<1>1. PICK d : d = moderation[m]
  OBVIOUS
<1>2. PICK a : a = avis[d.client]
  OBVIOUS
<1>3. PICK s : s = Ecrit(d.lu.statut, d.statut, a.statut)
  OBVIOUS
<1>4. PICK f : f = Ecrit(d.lu.motif, d.statut = "rejete", a.motif)
  OBVIOUS
<1>5. PICK n : n = [statut |-> s, motif |-> f, modere |-> TRUE]
  OBVIOUS
<1>6. n.statut = s /\ n.motif = f /\ n.modere
  BY <1>5
<1>7. /\ d # Aucune /\ UNCHANGED <<livre, envoi, public>>
      /\ avis' = [avis EXCEPT ![d.client] = n] /\ Publication(a, n)
      /\ disputes' = IF d.lu = a THEN disputes \ {d.client} ELSE disputes \cup {d.client}
      /\ moderation' = [moderation EXCEPT ![m] = Aucune]
  BY <1>1, <1>2, <1>3, <1>4, <1>5 DEF Moderer, MotifApres
<1>8. livre /\ d.client \in Evaluateurs
  BY <1>1, <1>7 DEF InvEvaluations, DepotsTenus
<1>9. TypeEvaluations' /\ LectureTenue' /\ SyntheseTenue'
  <2>1. DOMAIN avis' = Evaluateurs /\ DOMAIN envoi' = Envois /\ DOMAIN moderation' = Moderateurs
    BY <1>7 DEF InvEvaluations, TypeEvaluations
  <2>2. QED
    BY <1>7, <2>1, PublicationInv DEF InvEvaluations
<1>10. d.lu = a => n.motif = (n.statut = "rejete")
  <2>1. ASSUME d.lu = a
        PROVE  s = d.statut
    BY <1>3, <2>1 DEF Ecrit
  <2>2. ASSUME d.lu = a
        PROVE  f = (d.statut = "rejete")
    BY <1>4, <2>2 DEF Ecrit
  <2>3. QED
    BY <1>6, <2>1, <2>2
<1>11. AvisTenu(d.client, n)'
  <2>1. d.client \in disputes' \/ d.lu = a
    BY <1>7
  <2>2. QED
    BY <1>6, <1>10, <2>1 DEF AvisTenu
<1>12. ASSUME NEW c \in Evaluateurs, avis'[c] # SansAvis
       PROVE  livre' /\ AvisTenu(c, avis[c])'
  <2>1. CASE c = d.client
    <3>1. avis'[c] = n
      BY <1>7, <1>8, <2>1 DEF InvEvaluations, TypeEvaluations
    <3>2. QED
      BY <1>7, <1>8, <1>11, <2>1, <3>1 DEF AvisTenu
  <2>2. CASE c # d.client
    <3>1. avis'[c] = avis[c] /\ (c \in disputes => c \in disputes')
      BY <1>7, <2>2 DEF InvEvaluations, TypeEvaluations
    <3>2. QED
      BY <1>7, <1>8, <1>12, <3>1 DEF InvEvaluations, DepotsTenus, AvisTenu
  <2>3. QED
    BY <2>1, <2>2
<1>13. \A l \in Moderateurs : moderation'[l] # Aucune => moderation'[l] = moderation[l]
  BY <1>7 DEF InvEvaluations, TypeEvaluations
<1>14. DepotsTenus'
  BY <1>7, <1>12, <1>13 DEF InvEvaluations, DepotsTenus
<1>15. QED
  BY <1>9, <1>14 DEF InvEvaluations

LEMMA LireModerationInv ==
    ASSUME InvEvaluations, NEW m \in Moderateurs, NEW c \in Evaluateurs,
           NEW statut \in {"publie", "rejete"}, LireModeration(m, c, statut)
    PROVE  InvEvaluations'
<1>1. PICK d : d = [client |-> c, lu |-> avis[c], statut |-> statut]
  OBVIOUS
<1>2. d.client = c /\ d.statut = statut
  BY <1>1
<1>3. /\ UNCHANGED <<livre, envoi, avis, disputes, edition, public>>
      /\ avis[c] # SansAvis /\ moderation' = [moderation EXCEPT ![m] = d]
  BY <1>1 DEF LireModeration
<1>4. \A l \in Moderateurs : moderation'[l] = IF l = m THEN d ELSE moderation[l]
  BY <1>3 DEF InvEvaluations, TypeEvaluations
<1>5. TypeEvaluations' /\ LectureTenue' /\ SyntheseTenue'
  BY <1>3 DEF InvEvaluations, TypeEvaluations, LectureTenue, SyntheseTenue, public
<1>6. \A k \in Evaluateurs : AvisTenu(k, avis[k])' <=> AvisTenu(k, avis[k])
  BY <1>3 DEF AvisTenu
<1>7. DepotsTenus'
  BY <1>2, <1>3, <1>4, <1>6 DEF InvEvaluations, DepotsTenus
<1>8. QED
  BY <1>5, <1>7 DEF InvEvaluations

\* The steps that leave the reviews and their moderations alone.
LEMMA AutresEvaluations ==
    ASSUME HypothesesEvaluations, InvEvaluations,
           \/ Livrer \/ VerifierNumero \/ ServirSynthese
           \/ \E c \in Evaluateurs, e \in Envois : LireDepot(e, c)
    PROVE  InvEvaluations'
<1>1. UNCHANGED <<avis, moderation, disputes, edition>> /\ (livre => livre')
  BY DEF Livrer, VerifierNumero, ServirSynthese, LireDepot
<1>2. /\ DOMAIN envoi' = Envois
      /\ \A e \in Envois : envoi'[e] # "aucun" => envoi'[e] \in Evaluateurs /\ livre'
  BY DEF Livrer, VerifierNumero, ServirSynthese, LireDepot, InvEvaluations, TypeEvaluations,
         DepotsTenus
<1>3. DepotsTenus'
  BY <1>1, <1>2 DEF InvEvaluations, DepotsTenus, AvisTenu
<1>4. CASE ServirSynthese /\ PasserLeTemps
  <2>1. /\ desuete' \in [0 .. VersionsMax -> Nat]
        /\ \A v \in edition .. VersionsMax : desuete'[v] = 0
        /\ \A v \in 0 .. VersionsMax : desuete'[v] \in Nat /\ desuete'[v] <= desuete[v] + 1
    BY <1>4 DEF PasserLeTemps, InvEvaluations, TypeEvaluations
  <2>2. TypeEvaluations'
    BY <1>1, <1>2, <2>1 DEF InvEvaluations, TypeEvaluations
  <2>3. ASSUME synthese' # SansAvis
        PROVE  /\ synthese' \in [edition : Nat, reste : Nat]
               /\ synthese'.edition \in 0 .. edition'
               /\ synthese'.reste \in 1 .. TTL_PUBLIC
               /\ desuete'[synthese'.edition] <= RetardMax - synthese'.reste
    <3>1. PICK s : s = synthese
      OBVIOUS
    <3>2. s # SansAvis /\ s.reste # 1 /\ synthese' = [s EXCEPT !.reste = s.reste - 1]
      BY <1>4, <2>3, <3>1 DEF PasserLeTemps
    <3>3. PICK t : t = synthese'
      OBVIOUS
    <3>4. /\ s \in [edition : Nat, reste : Nat]
          /\ s.edition \in 0 .. edition /\ s.reste \in 1 .. TTL_PUBLIC
          /\ desuete[s.edition] <= RetardMax - s.reste
      BY <3>1, <3>2 DEF InvEvaluations, SyntheseTenue
    <3>5. t \in [edition : Nat, reste : Nat] /\ t.edition = s.edition /\ t.reste = s.reste - 1
      BY <3>2, <3>3, <3>4 DEF HypothesesEvaluations
    <3>6. t.edition \in 0 .. VersionsMax
      BY <3>4, <3>5 DEF InvEvaluations, TypeEvaluations, HypothesesEvaluations
    <3>7. PICK m \in Nat, n \in Nat : m = desuete[t.edition] /\ n = desuete'[t.edition] /\ n <= m + 1
      BY <2>1, <3>6 DEF InvEvaluations, TypeEvaluations
    <3>8. t.reste \in 1 .. TTL_PUBLIC /\ n <= RetardMax - t.reste
      BY <3>2, <3>4, <3>5, <3>7 DEF RetardMax, HypothesesEvaluations
    <3>9. QED
      BY <1>1, <3>3, <3>4, <3>5, <3>7, <3>8
  <2>4. ASSUME lecture' # SansAvis
        PROVE  /\ lecture' \in [edition : Nat, duree : Nat]
               /\ lecture'.edition \in 0 .. edition'
               /\ lecture'.duree <= DureeLecture
               /\ desuete'[lecture'.edition] <= lecture'.duree
    <3>1. PICK s : s = lecture
      OBVIOUS
    <3>2. /\ s # SansAvis /\ s.duree < DureeLecture
          /\ lecture' = [s EXCEPT !.duree = s.duree + 1]
      BY <1>4, <2>4, <3>1 DEF PasserLeTemps
    <3>3. PICK t : t = lecture'
      OBVIOUS
    <3>4. /\ s \in [edition : Nat, duree : Nat]
          /\ s.edition \in 0 .. edition /\ desuete[s.edition] <= s.duree
      BY <3>1, <3>2 DEF InvEvaluations, LectureTenue
    <3>5. t \in [edition : Nat, duree : Nat] /\ t.edition = s.edition /\ t.duree = s.duree + 1
      BY <3>2, <3>3, <3>4
    <3>6. t.edition \in 0 .. VersionsMax
      BY <3>4, <3>5 DEF InvEvaluations, TypeEvaluations, HypothesesEvaluations
    <3>7. PICK m \in Nat, n \in Nat : m = desuete[t.edition] /\ n = desuete'[t.edition] /\ n <= m + 1
      BY <2>1, <3>6 DEF InvEvaluations, TypeEvaluations
    <3>8. t.duree <= DureeLecture /\ n <= t.duree
      BY <3>2, <3>4, <3>5, <3>7 DEF HypothesesEvaluations
    <3>9. QED
      BY <1>1, <3>3, <3>4, <3>5, <3>7, <3>8
  <2>5. QED
    BY <1>3, <2>2, <2>3, <2>4 DEF InvEvaluations, SyntheseTenue, LectureTenue
<1>5. CASE ServirSynthese /\ Consulter
  <2>1. TypeEvaluations' /\ SyntheseTenue'
    BY <1>1, <1>2, <1>5 DEF Consulter, InvEvaluations, TypeEvaluations, SyntheseTenue
  <2>2. edition \in 0 .. VersionsMax /\ desuete[edition] = 0
    BY DEF InvEvaluations, TypeEvaluations, HypothesesEvaluations
  <2>3. PICK l : l = [edition |-> edition, duree |-> 0]
    OBVIOUS
  <2>4. l \in [edition : Nat, duree : Nat] /\ l.edition = edition /\ l.duree = 0
    BY <2>2, <2>3 DEF HypothesesEvaluations
  <2>5. lecture' = l /\ UNCHANGED desuete
    BY <1>5, <2>3 DEF Consulter
  <2>6. LectureTenue'
    BY <1>1, <2>2, <2>4, <2>5 DEF LectureTenue, HypothesesEvaluations
  <2>7. QED
    BY <1>3, <2>1, <2>6 DEF InvEvaluations
<1>6. CASE ServirSynthese /\ Retenir
  <2>1. TypeEvaluations' /\ LectureTenue'
    BY <1>1, <1>2, <1>6 DEF Retenir, InvEvaluations, TypeEvaluations, LectureTenue
  <2>2. PICK l : l = lecture
    OBVIOUS
  <2>3. /\ l \in [edition : Nat, duree : Nat] /\ l.edition \in 0 .. edition
        /\ l.duree <= DureeLecture /\ desuete[l.edition] <= l.duree
        /\ UNCHANGED <<edition, desuete>>
    BY <1>1, <1>6, <2>2 DEF Retenir, InvEvaluations, LectureTenue
  <2>4. PICK s : s = [edition |-> l.edition, reste |-> TTL_PUBLIC]
    OBVIOUS
  <2>5. /\ s \in [edition : Nat, reste : Nat] /\ s.edition = l.edition
        /\ s.reste = TTL_PUBLIC
    BY <2>3, <2>4 DEF HypothesesEvaluations
  <2>6. synthese' = SansAvis \/ synthese' = s
    BY <1>6, <2>2, <2>4 DEF Retenir
  <2>7. desuete[l.edition] \in Nat
    BY <2>3 DEF InvEvaluations, TypeEvaluations, HypothesesEvaluations
  <2>8. /\ s.edition \in 0 .. edition /\ s.reste \in 1 .. TTL_PUBLIC
        /\ desuete[s.edition] <= RetardMax - s.reste
    BY <2>3, <2>5, <2>7 DEF RetardMax, HypothesesEvaluations
  <2>9. SyntheseTenue'
    BY <2>3, <2>5, <2>6, <2>8 DEF SyntheseTenue
  <2>10. QED
    BY <1>3, <2>1, <2>9 DEF InvEvaluations
<1>7. CASE Livrer \/ VerifierNumero \/ \E c \in Evaluateurs, e \in Envois : LireDepot(e, c)
  <2>1. UNCHANGED public
    BY <1>7 DEF Livrer, VerifierNumero, LireDepot
  <2>2. QED
    BY <1>1, <1>2, <1>3, <2>1 DEF InvEvaluations, TypeEvaluations, LectureTenue, SyntheseTenue,
                                 public
<1>8. QED
  BY <1>4, <1>5, <1>6, <1>7 DEF ServirSynthese

\* "Un avis n'est publié qu'après modération": whoever deposits, moderates and removes, in any
\* order and number, and however old the summary.
THEOREM AvisJustifies == HypothesesEvaluations /\ SpecEvaluations => []AvisFondes
<1> SUFFICES ASSUME HypothesesEvaluations
             PROVE  SpecEvaluations => []AvisFondes
  OBVIOUS
<1>1. InitEvaluations => InvEvaluations
  <2> SUFFICES ASSUME InitEvaluations
               PROVE  InvEvaluations
    OBVIOUS
  <2>1. TypeEvaluations
    <3>1. DOMAIN avis = Evaluateurs /\ DOMAIN envoi = Envois /\ DOMAIN moderation = Moderateurs
      BY DEF InitEvaluations
    <3>2. edition = 0 /\ VersionsMax \in Nat /\ desuete = [v \in 0 .. VersionsMax |-> 0]
      BY DEF InitEvaluations, HypothesesEvaluations
    <3>3. QED
      BY <3>1, <3>2 DEF TypeEvaluations
  <2>2. DepotsTenus /\ LectureTenue /\ SyntheseTenue
    BY DEF InitEvaluations, DepotsTenus, LectureTenue, SyntheseTenue
  <2>3. QED
    BY <2>1, <2>2 DEF InvEvaluations
<1>2. InvEvaluations /\ [NextEvaluations]_varsEvaluations => InvEvaluations'
  <2> SUFFICES ASSUME InvEvaluations, [NextEvaluations]_varsEvaluations
               PROVE  InvEvaluations'
    OBVIOUS
  <2>1. ASSUME NEW c \in Evaluateurs, SupprimerAvis(c)
        PROVE  InvEvaluations'
    BY <2>1, SupprimerAvisInv
  <2>2. ASSUME NEW e \in Envois, Deposer(e)
        PROVE  InvEvaluations'
    BY <2>2, DeposerInv
  <2>3. ASSUME NEW m \in Moderateurs, Moderer(m)
        PROVE  InvEvaluations'
    BY <2>3, ModererInv
  <2>4. ASSUME NEW m \in Moderateurs, NEW c \in Evaluateurs, NEW statut \in {"publie", "rejete"},
               LireModeration(m, c, statut)
        PROVE  InvEvaluations'
    BY <2>4, LireModerationInv
  <2>5. CASE \/ Livrer \/ VerifierNumero \/ ServirSynthese
             \/ \E c \in Evaluateurs, e \in Envois : LireDepot(e, c)
    BY <2>5, AutresEvaluations
  <2>6. CASE UNCHANGED varsEvaluations
    BY <2>6 DEF varsEvaluations, InvEvaluations, TypeEvaluations, DepotsTenus, LectureTenue,
                SyntheseTenue, AvisTenu, public
  <2>7. QED
    BY <2>1, <2>2, <2>3, <2>4, <2>5, <2>6 DEF NextEvaluations
<1>3. InvEvaluations => AvisFondes
  <2> SUFFICES ASSUME InvEvaluations
               PROVE  AvisFondes
    OBVIOUS
  <2>1. \A c \in Evaluateurs : avis[c] # SansAvis =>
           /\ livre
           /\ avis[c].statut # "en_attente" => avis[c].modere
           /\ c \in disputes \/ avis[c].motif = (avis[c].statut = "rejete")
    BY DEF InvEvaluations, DepotsTenus, AvisTenu
  <2>2. synthese # SansAvis => desuete[synthese.edition] <= RetardMax
    <3>1. ASSUME synthese # SansAvis
          PROVE  desuete[synthese.edition] <= RetardMax
      <4>1. PICK n : n = desuete[synthese.edition]
        OBVIOUS
      <4>2. n \in Nat /\ n <= RetardMax - synthese.reste /\ synthese.reste \in 1 .. TTL_PUBLIC
        BY <3>1, <4>1 DEF InvEvaluations, TypeEvaluations, SyntheseTenue,
                        HypothesesEvaluations
      <4>3. QED
        BY <4>1, <4>2 DEF RetardMax, HypothesesEvaluations
    <3>2. QED
      BY <3>1
  <2>3. QED
    BY <2>1, <2>2 DEF AvisFondes
<1>4. QED
  BY <1>1, <1>2, <1>3, PTL DEF SpecEvaluations

-----------------------------------------------------------------------------
(***************************************************************************)
(* Territory.                                                              *)
(*                                                                         *)
(* What the control of a request established still holds when it writes,   *)
(* as long as no other write came in between.                              *)
(***************************************************************************)

\* A row of a city, and of a point.
LigneVille(x) == x = SansLigne \/ x = Ville(x.pays, x.zone)
LignePoint(x) == x = SansLigne \/ x = PointDe(x.pays, x.ville)

TypeTerritoire ==
    /\ DOMAIN villes = Villes /\ \A v \in Villes : LigneVille(villes[v])
    /\ DOMAIN points = Points /\ \A p \in Points : LignePoint(points[p])
    /\ DOMAIN requetes = Administrateurs

PointsTenus == \A p \in Existantes(points) : VilleValide(points[p].ville, points[p].pays)

\* What the control of a request established, of the write or the deletion it asks for.
Controlee(e) ==
    /\ e.genre = "ville" /\ "pays" \in e.colonnes =>
          \A p \in PointsDe(e.id) : points[p].pays = e.ligne.pays
    /\ e.genre = "point" => VilleValide(PointEcrit(e).ville, PointEcrit(e).pays)
    /\ e.genre = "suppression" =>
          /\ e.table = "zone" => TarifsDeZone(e.id) = {}
          /\ e.table = "ville" => PointsDe(e.id) = {} /\ ColisDeVille(e.id) = {}
          /\ e.table = "point" => ColisDePoint(e.id) = {}
          /\ e.table = "service" => ColisDeService(e.id) = {}

\* A control that no write has outdated still holds.
ControlesTenus ==
    \A r \in Administrateurs :
        requetes[r] # SansRequete /\ r \notin depassees => Controlee(requetes[r])

InvTerritoire ==
    TypeTerritoire /\ (~croisees => PointsTenus /\ pertes = {} /\ ControlesTenus)

-----------------------------------------------------------------------------

LEMMA LignesDuTerritoire ==
    /\ \A pays, zone : LET x == Ville(pays, zone)
                       IN x.existe /\ x.pays = pays /\ x.zone = zone /\ LigneVille(x)
    /\ \A pays, ville : LET x == PointDe(pays, ville)
                        IN x.existe /\ x.pays = pays /\ x.ville = ville /\ LignePoint(x)
    /\ ~SansLigne.existe /\ LigneVille(SansLigne) /\ LignePoint(SansLigne)
    /\ \A x, zone : LigneVille(x) /\ x.existe => [x EXCEPT !.zone = zone] = Ville(x.pays, zone)
<1>1. \A pays, zone : Ville(pays, zone).existe
  BY DEF Ville
<1>2. \A pays, zone : Ville(pays, zone).pays = pays /\ Ville(pays, zone).zone = zone
  BY DEF Ville
<1>3. \A pays, zone : LigneVille(Ville(pays, zone))
  BY <1>2 DEF LigneVille
<1>4. \A pays, ville : PointDe(pays, ville).existe
  BY DEF PointDe
<1>5. \A pays, ville : PointDe(pays, ville).pays = pays /\ PointDe(pays, ville).ville = ville
  BY DEF PointDe
<1>6. \A pays, ville : LignePoint(PointDe(pays, ville))
  BY <1>5 DEF LignePoint
<1>7. ~SansLigne.existe
  BY DEF SansLigne
<1>8. LigneVille(SansLigne) /\ LignePoint(SansLigne)
  BY DEF LigneVille, LignePoint
<1>9. ASSUME NEW x, NEW zone, LigneVille(x), x.existe
      PROVE  [x EXCEPT !.zone = zone] = Ville(x.pays, zone)
  <2>1. x = Ville(x.pays, x.zone)
    BY <1>7, <1>9 DEF LigneVille
  <2>2. \A b, p, z : [[existe |-> b, pays |-> p, zone |-> z] EXCEPT !.zone = zone]
                       = [existe |-> b, pays |-> p, zone |-> zone]
    OBVIOUS
  <2>3. \A p, z : [Ville(p, z) EXCEPT !.zone = zone] = Ville(p, zone)
    BY <2>2, Zenon DEF Ville
  <2>4. QED
    BY <2>1, <2>3
<1>10. QED
  BY <1>1, <1>2, <1>3, <1>4, <1>5, <1>6, <1>7, <1>8, <1>9

LEMMA TerritoireInchange ==
    ASSUME InvTerritoire,
           UNCHANGED <<zones, villes, points, services, tarifs, envois, requetes, depassees,
                       croisees, pertes>>
    PROVE  InvTerritoire'
<1>1. (TypeTerritoire <=> TypeTerritoire') /\ (PointsTenus <=> PointsTenus')
  BY DEF TypeTerritoire, PointsTenus, VilleValide, Existantes
<1>2. \A f : Controlee(f) <=> Controlee(f)'
  BY DEF Controlee, VilleValide, Existantes, PointEcrit, PointsDe, TarifsDeZone, ColisDeVille,
         ColisDePoint, ColisDeService
<1>3. ControlesTenus <=> ControlesTenus'
  BY <1>2 DEF ControlesTenus
<1>4. QED
  BY <1>1, <1>3 DEF InvTerritoire

\* A control: its request waits, and what it controlled is what it read.
LEMMA ControlerInv ==
    ASSUME InvTerritoire, NEW r \in Administrateurs, NEW e, Controler(r, e),
           ~croisees => Controlee(e)
    PROVE  InvTerritoire'
<1>1. UNCHANGED <<zones, villes, points, services, tarifs, envois, depassees, croisees, pertes>>
  BY DEF Controler, donnees
<1>2. requetes' = [requetes EXCEPT ![r] = e]
  BY DEF Controler
<1>3. TypeTerritoire'
  BY <1>1, <1>2 DEF InvTerritoire, TypeTerritoire
<1>4. PointsTenus <=> PointsTenus'
  BY <1>1 DEF PointsTenus, Existantes, VilleValide
<1>5. \A f : Controlee(f) <=> Controlee(f)'
  BY <1>1 DEF Controlee, VilleValide, Existantes, PointEcrit, PointsDe, TarifsDeZone, ColisDeVille,
              ColisDePoint, ColisDeService
<1>6. ASSUME ~croisees'
      PROVE  ControlesTenus'
  <2>1. \A q \in Administrateurs : requetes'[q] = IF q = r THEN e ELSE requetes[q]
    BY <1>2 DEF InvTerritoire, TypeTerritoire
  <2>2. QED
    BY <1>1, <1>5, <1>6, <2>1 DEF InvTerritoire, ControlesTenus
<1>7. QED
  BY <1>1, <1>3, <1>4, <1>6 DEF InvTerritoire

\* A write: every other request in flight is outdated, its own was not if nothing crossed.
LEMMA DepasserInv ==
    ASSUME InvTerritoire, NEW r, Depasser(r), TypeTerritoire',
           ~croisees /\ r \notin depassees => PointsTenus' /\ pertes' = {}
    PROVE  InvTerritoire'
<1>1. ControlesTenus'
  <2>1. ASSUME NEW q \in Administrateurs, requetes'[q] # SansRequete
        PROVE  q \in depassees'
    BY <2>1 DEF Depasser
  <2>2. QED
    BY <2>1 DEF ControlesTenus
<1>2. ~croisees' => ~croisees /\ r \notin depassees
  BY DEF Depasser
<1>3. QED
  BY <1>1, <1>2 DEF InvTerritoire

LEMMA Controles ==
    ASSUME InvTerritoire, NEW r \in Administrateurs, requetes[r].genre # "libre",
           ~croisees, r \notin depassees
    PROVE  Controlee(requetes[r]) /\ PointsTenus /\ pertes = {}
BY DEF InvTerritoire, ControlesTenus, SansRequete

-----------------------------------------------------------------------------
(* Controls *)

LEMMA VillesInv ==
    ASSUME InvTerritoire, NEW r \in Administrateurs, NEW v \in Villes, NEW pays, NEW zone,
           CreerVille(r, v, pays, zone) \/ ModifierVille(r, v, pays, zone)
    PROVE  InvTerritoire'
<1>1. ASSUME NEW e, NEW z, NEW cols, e = Ecriture("ville", v, Ville(pays, z), cols), ~croisees,
             v \notin Existantes(villes) \/ PaysModifiable(v, pays)
      PROVE  Controlee(e)
  <2>1. e.genre = "ville" /\ e.id = v /\ e.ligne = Ville(pays, z)
    BY <1>1 DEF Ecriture
  <2>2. e.ligne.pays = pays
    BY <2>1, LignesDuTerritoire
  <2>3. ASSUME NEW p \in PointsDe(v)
        PROVE  points[p].pays = pays
    <3>1. points[p].ville = v /\ VilleValide(v, points[p].pays)
      BY <1>1, <2>3 DEF InvTerritoire, PointsTenus, PointsDe
    <3>2. v \in Existantes(villes) /\ villes[v].pays = points[p].pays
      BY <3>1 DEF VilleValide
    <3>3. QED
      BY <1>1, <2>3, <3>2 DEF PaysModifiable
  <2>4. QED
    BY <2>1, <2>2, <2>3 DEF Controlee
<1>2. CASE CreerVille(r, v, pays, zone)
  <2>1. PICK e : e = Ecriture("ville", v, Ville(pays, zone), {"existe", "pays", "zone"})
    OBVIOUS
  <2>2. Controler(r, e) /\ v \notin Existantes(villes)
    BY <1>2, <2>1 DEF CreerVille
  <2>3. QED
    BY <1>1, <2>1, <2>2, ControlerInv
<1>3. CASE ModifierVille(r, v, pays, zone)
  <2>1. PICK e : e = Ecriture("ville", v, Ville(pays, zone), {"pays", "zone"})
    OBVIOUS
  <2>2. PICK f : f = Ecriture("ville", v, Ville(pays, NonDefini), {"pays"})
    OBVIOUS
  <2>3. (Controler(r, e) \/ Controler(r, f)) /\ PaysModifiable(v, pays)
    BY <1>3, <2>1, <2>2 DEF ModifierVille
  <2>4. ~croisees => Controlee(e) /\ Controlee(f)
    BY <1>1, <2>1, <2>2, <2>3
  <2>5. QED
    BY <2>3, <2>4, ControlerInv
<1>4. QED
  BY <1>2, <1>3

LEMMA ZonesInv ==
    ASSUME InvTerritoire, NEW r \in Administrateurs, NEW z, NEW v,
           AffecterVille(r, z, v) \/ RetirerVille(r, z, v)
    PROVE  InvTerritoire'
<1>1. PICK e : e = Ecriture("ville", v, Ville(NonDefini, z), {"zone"})
  OBVIOUS
<1>2. PICK f : f = [genre |-> "retrait", id |-> v, zone |-> z]
  OBVIOUS
<1>3. e.genre = "ville" /\ e.colonnes = {"zone"} /\ f.genre = "retrait"
  BY <1>1, <1>2 DEF Ecriture
<1>4. Controlee(e) /\ Controlee(f)
  BY <1>3 DEF Controlee
<1>5. Controler(r, e) \/ Controler(r, f)
  BY <1>1, <1>2 DEF AffecterVille, RetirerVille
<1>6. QED
  BY <1>4, <1>5, ControlerInv

LEMMA PointsInv ==
    ASSUME InvTerritoire, NEW r \in Administrateurs, NEW p \in Points, NEW pays, NEW v,
           CreerPoint(r, p, pays, v) \/ ModifierPoint(r, p, pays, v)
    PROVE  InvTerritoire'
<1>1. VilleValide(v, pays)
  BY DEF CreerPoint, ModifierPoint
<1>2. ASSUME NEW e, NEW l, NEW cols, e = Ecriture("point", p, l, cols),
             "pays" \in cols => l.pays = pays, "pays" \notin cols => points[p].pays = pays,
             "ville" \in cols => l.ville = v, "ville" \notin cols => points[p].ville = v
      PROVE  Controlee(e)
  <2>1. e.genre = "point" /\ e.id = p /\ e.ligne = l /\ e.colonnes = cols
    BY <1>2 DEF Ecriture
  <2>2. PointEcrit(e) = PointDe(pays, v)
    BY <1>2, <2>1 DEF PointEcrit
  <2>3. QED
    BY <1>1, <2>1, <2>2, LignesDuTerritoire DEF Controlee
<1>3. PointDe(pays, v).pays = pays /\ PointDe(pays, v).ville = v
      /\ PointDe(NonDefini, v).ville = v /\ PointDe(pays, NonDefini).pays = pays
  BY LignesDuTerritoire
<1>4. PICK a : a = Ecriture("point", p, PointDe(pays, v), {"existe", "pays", "ville"})
  OBVIOUS
<1>5. PICK b : b = Ecriture("point", p, PointDe(pays, v), {"pays", "ville"})
  OBVIOUS
<1>6. PICK c : c = Ecriture("point", p, PointDe(NonDefini, v), {"ville"})
  OBVIOUS
<1>7. PICK d : d = Ecriture("point", p, PointDe(pays, NonDefini), {"pays"})
  OBVIOUS
<1>8. Controlee(a) /\ Controlee(b)
  BY <1>2, <1>3, <1>4, <1>5
<1>9. points[p].pays = pays => Controlee(c)
  BY <1>2, <1>3, <1>6
<1>10. points[p].ville = v => Controlee(d)
  BY <1>2, <1>3, <1>7
<1>11. \/ Controler(r, a) \/ Controler(r, b)
       \/ Controler(r, c) /\ points[p].pays = pays
       \/ Controler(r, d) /\ points[p].ville = v
  BY <1>4, <1>5, <1>6, <1>7 DEF CreerPoint, ModifierPoint
<1>12. QED
  BY <1>8, <1>9, <1>10, <1>11, ControlerInv

\* Each count before a deletion covers what the deletion would take along.
LEMMA SuppressionsInv ==
    ASSUME InvTerritoire, NEW r \in Administrateurs, NEW x,
           SupprimerZone(r, x) \/ SupprimerVille(r, x) \/ SupprimerPoint(r, x) \/ SupprimerService(r, x)
    PROVE  InvTerritoire'
<1>1. ASSUME NEW t, NEW e, e = [genre |-> "suppression", table |-> t, id |-> x],
             t = "zone" => TarifsDeZone(x) = {},
             t = "ville" => PointsDe(x) = {} /\ ColisDeVille(x) = {},
             t = "point" => ColisDePoint(x) = {},
             t = "service" => ColisDeService(x) = {}
      PROVE  Controlee(e)
  <2>1. e.genre = "suppression" /\ e.table = t /\ e.id = x
    BY <1>1
  <2>2. QED
    BY <1>1, <2>1 DEF Controlee
<1>2. ASSUME NEW t, DemanderSuppression(r, t, x),
             \A e : e = [genre |-> "suppression", table |-> t, id |-> x] => Controlee(e)
      PROVE  InvTerritoire'
  BY <1>2, ControlerInv DEF DemanderSuppression
<1>3. CASE SupprimerZone(r, x)
  BY <1>1, <1>2, <1>3 DEF SupprimerZone
<1>4. CASE SupprimerVille(r, x)
  BY <1>1, <1>2, <1>4 DEF SupprimerVille
<1>5. CASE SupprimerPoint(r, x)
  BY <1>1, <1>2, <1>5 DEF SupprimerPoint
<1>6. CASE SupprimerService(r, x)
  BY <1>1, <1>2, <1>6 DEF SupprimerService
<1>7. QED
  BY <1>3, <1>4, <1>5, <1>6

-----------------------------------------------------------------------------
(* Writes *)

LEMMA EcrireVilleInv ==
    ASSUME InvTerritoire, NEW r \in Administrateurs, EcrireVille(r)
    PROVE  InvTerritoire'
<1>1. PICK e : e = requetes[r]
  OBVIOUS
<1>2. PICK n : n = VilleEcrite(e)
  OBVIOUS
<1>3. /\ e.genre = "ville" /\ Depasser(r) /\ UNCHANGED <<points, pertes>>
      /\ villes' = villes \/ villes' = [villes EXCEPT ![e.id] = n]
  BY <1>1, <1>2 DEF EcrireVille
<1>4. /\ n.existe /\ LigneVille(n)
      /\ n.pays = IF "pays" \in e.colonnes THEN e.ligne.pays ELSE villes[e.id].pays
  BY <1>2, LignesDuTerritoire DEF VilleEcrite
<1>5. \A v \in Villes : villes'[v] = villes[v] \/ (v = e.id /\ villes'[v] = n)
  BY <1>3 DEF InvTerritoire, TypeTerritoire
<1>6. DOMAIN villes' = Villes
  BY <1>3 DEF InvTerritoire, TypeTerritoire
<1>7. TypeTerritoire'
  <2>1. \A v \in Villes : LigneVille(villes'[v])
    BY <1>4, <1>5 DEF InvTerritoire, TypeTerritoire
  <2>2. DOMAIN requetes' = Administrateurs
    BY <1>3 DEF Depasser
  <2>3. QED
    BY <1>3, <1>6, <2>1, <2>2 DEF InvTerritoire, TypeTerritoire
<1>8. ASSUME ~croisees, r \notin depassees
      PROVE  PointsTenus' /\ pertes' = {}
  <2>1. Controlee(e) /\ PointsTenus /\ pertes = {}
    BY <1>1, <1>3, <1>8, Controles
  <2>2. ASSUME NEW p \in Existantes(points)
        PROVE  VilleValide(points[p].ville, points[p].pays)'
    <3>1. PICK v : v = points[p].ville
      OBVIOUS
    <3>2. v \in Villes /\ villes[v].existe /\ villes[v].pays = points[p].pays
      BY <2>1, <3>1 DEF PointsTenus, VilleValide, Existantes, InvTerritoire, TypeTerritoire
    <3>3. v = e.id /\ "pays" \in e.colonnes => points[p].pays = e.ligne.pays
      BY <1>3, <2>1, <2>2, <3>1 DEF Controlee, PointsDe
    <3>4. villes'[v].existe /\ villes'[v].pays = points[p].pays
      BY <1>4, <1>5, <3>2, <3>3
    <3>5. QED
      BY <1>3, <1>6, <3>1, <3>2, <3>4 DEF VilleValide, Existantes
  <2>3. QED
    BY <1>3, <2>1, <2>2 DEF PointsTenus, Existantes
<1>9. QED
  BY <1>3, <1>7, <1>8, DepasserInv

\* A city keeps its country and goes on existing.
LEMMA VillesGardees ==
    ASSUME InvTerritoire, NEW r, Depasser(r), UNCHANGED points, DOMAIN villes' = Villes,
           \A v \in Villes : /\ LigneVille(villes'[v])
                             /\ villes[v].existe => villes'[v].existe /\ villes'[v].pays = villes[v].pays,
           ~croisees /\ r \notin depassees => pertes' = {}
    PROVE  InvTerritoire'
<1>1. TypeTerritoire'
  BY DEF InvTerritoire, TypeTerritoire, Depasser
<1>2. PointsTenus => PointsTenus'
  BY DEF PointsTenus, VilleValide, Existantes, InvTerritoire, TypeTerritoire
<1>3. QED
  BY <1>1, <1>2, DepasserInv DEF InvTerritoire

LEMMA EcrireRetraitInv ==
    ASSUME InvTerritoire, NEW r \in Administrateurs, EcrireRetrait(r)
    PROVE  InvTerritoire'
<1>1. PICK e : e = requetes[r]
  OBVIOUS
<1>2. PICK n : n = [villes[e.id] EXCEPT !.zone = NonDefini]
  OBVIOUS
<1>3. /\ Depasser(r) /\ UNCHANGED <<points, pertes>>
      /\ \/ villes' = villes
         \/ villes' = [villes EXCEPT ![e.id] = n] /\ villes[e.id].existe
  BY <1>1, <1>2 DEF EcrireRetrait
<1>4. DOMAIN villes' = Villes
  BY <1>3 DEF InvTerritoire, TypeTerritoire
<1>5. e.id \in Villes /\ villes[e.id].existe =>
         n.existe /\ n.pays = villes[e.id].pays /\ LigneVille(n)
  <2>1. ASSUME e.id \in Villes, villes[e.id].existe
        PROVE  n = Ville(villes[e.id].pays, NonDefini)
    BY <1>2, <2>1, LignesDuTerritoire DEF InvTerritoire, TypeTerritoire
  <2>2. QED
    BY <2>1, LignesDuTerritoire
<1>6. \A v \in Villes :
         /\ LigneVille(villes'[v])
         /\ villes[v].existe => villes'[v].existe /\ villes'[v].pays = villes[v].pays
  BY <1>3, <1>5 DEF InvTerritoire, TypeTerritoire
<1>7. ~croisees => pertes' = {}
  BY <1>3 DEF InvTerritoire
<1>8. QED
  BY <1>3, <1>4, <1>6, <1>7, VillesGardees

LEMMA EcrirePointInv ==
    ASSUME InvTerritoire, NEW r \in Administrateurs, EcrirePoint(r)
    PROVE  InvTerritoire'
<1>1. PICK e : e = requetes[r]
  OBVIOUS
<1>2. PICK n : n = PointEcrit(e)
  OBVIOUS
<1>3. /\ e.genre = "point" /\ Depasser(r) /\ UNCHANGED <<villes, pertes>>
      /\ points' = points \/ points' = [points EXCEPT ![e.id] = n]
  BY <1>1, <1>2 DEF EcrirePoint
<1>4. LignePoint(n)
  BY <1>2, LignesDuTerritoire DEF PointEcrit
<1>5. /\ DOMAIN points' = Points
      /\ \A p \in Points : points'[p] = points[p] \/ points'[p] = n
  BY <1>3 DEF InvTerritoire, TypeTerritoire
<1>6. TypeTerritoire'
  <2>1. \A p \in Points : LignePoint(points'[p])
    BY <1>4, <1>5 DEF InvTerritoire, TypeTerritoire
  <2>2. QED
    BY <1>3, <1>5, <2>1 DEF InvTerritoire, TypeTerritoire, Depasser
<1>7. ASSUME ~croisees, r \notin depassees
      PROVE  PointsTenus' /\ pertes' = {}
  <2>1. VilleValide(n.ville, n.pays) /\ PointsTenus /\ pertes = {}
    BY <1>1, <1>2, <1>3, <1>7, Controles DEF Controlee
  <2>2. \A v, pays : VilleValide(v, pays) => VilleValide(v, pays)'
    BY <1>3 DEF VilleValide, Existantes
  <2>3. ASSUME NEW p \in Points, points'[p].existe
        PROVE  VilleValide(points[p].ville, points[p].pays)'
    BY <1>5, <2>1, <2>2, <2>3 DEF PointsTenus, Existantes, InvTerritoire, TypeTerritoire
  <2>4. QED
    BY <1>3, <1>5, <2>1, <2>3 DEF PointsTenus, Existantes
<1>8. QED
  BY <1>3, <1>6, <1>7, DepasserInv

LEMMA EffacerZoneInv ==
    ASSUME InvTerritoire, NEW r \in Administrateurs, EffacerZone(r)
    PROVE  InvTerritoire'
<1>1. PICK z : z = requetes[r].id
  OBVIOUS
<1>2. /\ requetes[r].genre = "suppression" /\ requetes[r].table = "zone" /\ Depasser(r)
      /\ villes' = Detacher(villes, "zone", {z}) /\ UNCHANGED points
      /\ pertes' = pertes \cup TarifsDeZone(z)
  BY <1>1 DEF EffacerZone, Efface
<1>3. /\ DOMAIN villes' = Villes
      /\ \A v \in Villes :
            \/ villes'[v] = villes[v]
            \/ villes[v].existe /\ villes'[v] = [villes[v] EXCEPT !.zone = NonDefini]
  BY <1>2 DEF Detacher, InvTerritoire, TypeTerritoire
<1>4. ASSUME NEW v \in Villes
      PROVE  /\ LigneVille(villes'[v])
             /\ villes[v].existe => villes'[v].existe /\ villes'[v].pays = villes[v].pays
  <2>1. PICK x : x = villes[v]
    OBVIOUS
  <2>2. LigneVille(x) /\ (x.existe => [x EXCEPT !.zone = NonDefini] = Ville(x.pays, NonDefini))
    BY <2>1, LignesDuTerritoire DEF InvTerritoire, TypeTerritoire
  <2>3. villes'[v] = x \/ (x.existe /\ villes'[v] = Ville(x.pays, NonDefini))
    BY <1>3, <2>1, <2>2
  <2>4. QED
    BY <2>1, <2>2, <2>3, LignesDuTerritoire
<1>5. ~croisees /\ r \notin depassees => pertes' = {}
  BY <1>1, <1>2, Controles DEF Controlee
<1>6. QED
  BY <1>2, <1>3, <1>4, <1>5, VillesGardees

LEMMA EffacerVilleInv ==
    ASSUME InvTerritoire, NEW r \in Administrateurs, EffacerVille(r)
    PROVE  InvTerritoire'
<1>1. PICK v : v = requetes[r].id
  OBVIOUS
<1>2. requetes[r].genre = "suppression" /\ requetes[r].table = "ville" /\ Depasser(r)
  BY DEF EffacerVille, Efface
<1>3. CASE AdressesDe(v) # {}
  <2>1. UNCHANGED <<villes, points, pertes>>
    BY <1>1, <1>3 DEF EffacerVille
  <2>2. ~croisees => pertes' = {}
    BY <2>1 DEF InvTerritoire
  <2>3. QED
    BY <1>2, <2>1, <2>2, VillesGardees DEF InvTerritoire, TypeTerritoire
<1>4. CASE AdressesDe(v) = {}
  <2>1. /\ villes' = Vider(villes, {v}) /\ points' = Vider(points, PointsDe(v))
        /\ pertes' = pertes \cup PointsDe(v) \cup ColisDeVille(v)
    BY <1>1, <1>4 DEF EffacerVille
  <2>2. /\ DOMAIN villes' = Villes /\ DOMAIN points' = Points
        /\ \A w \in Villes : villes'[w] = IF w = v THEN SansLigne ELSE villes[w]
        /\ \A p \in Points : points'[p] = IF p \in PointsDe(v) THEN SansLigne ELSE points[p]
    BY <2>1 DEF Vider, InvTerritoire, TypeTerritoire
  <2>3. TypeTerritoire'
    <3>1. (\A w \in Villes : LigneVille(villes'[w])) /\ \A p \in Points : LignePoint(points'[p])
      BY <2>2, LignesDuTerritoire DEF InvTerritoire, TypeTerritoire
    <3>2. QED
      BY <1>2, <2>2, <3>1 DEF TypeTerritoire, Depasser
  <2>4. ASSUME ~croisees, r \notin depassees
        PROVE  PointsTenus' /\ pertes' = {}
    <3>1. PointsDe(v) = {} /\ ColisDeVille(v) = {} /\ PointsTenus /\ pertes = {}
      BY <1>1, <1>2, <2>4, Controles DEF Controlee
    <3>2. ASSUME NEW p \in Existantes(points')
          PROVE  VilleValide(points[p].ville, points[p].pays)'
      <4>1. p \in Existantes(points) /\ points'[p] = points[p] /\ points[p].ville # v
        BY <2>2, <3>1, <3>2 DEF Existantes, PointsDe, InvTerritoire, TypeTerritoire
      <4>2. QED
        BY <2>2, <3>1, <4>1 DEF PointsTenus, VilleValide, Existantes, InvTerritoire, TypeTerritoire
    <3>3. QED
      BY <2>1, <3>1, <3>2 DEF PointsTenus
  <2>5. QED
    BY <1>2, <2>3, <2>4, DepasserInv
<1>5. QED
  BY <1>3, <1>4

LEMMA EffacerPointInv ==
    ASSUME InvTerritoire, NEW r \in Administrateurs, EffacerPoint(r)
    PROVE  InvTerritoire'
<1>1. PICK p : p = requetes[r].id
  OBVIOUS
<1>2. /\ requetes[r].genre = "suppression" /\ requetes[r].table = "point" /\ Depasser(r)
      /\ points' = Vider(points, {p}) /\ UNCHANGED villes
      /\ pertes' = pertes \cup ColisDePoint(p)
  BY <1>1 DEF EffacerPoint, Efface
<1>3. /\ DOMAIN points' = Points
      /\ \A q \in Points : points'[q] = IF q = p THEN SansLigne ELSE points[q]
  BY <1>2 DEF Vider, InvTerritoire, TypeTerritoire
<1>4. TypeTerritoire'
  <2>1. \A q \in Points : LignePoint(points'[q])
    BY <1>3, LignesDuTerritoire DEF InvTerritoire, TypeTerritoire
  <2>2. QED
    BY <1>2, <1>3, <2>1 DEF InvTerritoire, TypeTerritoire, Depasser
<1>5. ASSUME ~croisees, r \notin depassees
      PROVE  PointsTenus' /\ pertes' = {}
  <2>1. ColisDePoint(p) = {} /\ PointsTenus /\ pertes = {}
    BY <1>1, <1>2, <1>5, Controles DEF Controlee
  <2>2. ASSUME NEW q \in Existantes(points')
        PROVE  VilleValide(points[q].ville, points[q].pays)'
    <3>1. q \in Existantes(points) /\ points'[q] = points[q]
      BY <1>3, <2>2, LignesDuTerritoire DEF Existantes, InvTerritoire, TypeTerritoire
    <3>2. QED
      BY <1>2, <2>1, <3>1 DEF PointsTenus, VilleValide, Existantes
  <2>3. QED
    BY <1>2, <2>1, <2>2 DEF PointsTenus
<1>6. QED
  BY <1>2, <1>4, <1>5, DepasserInv

\* The writes that touch neither the cities nor the points.
LEMMA AutresEcrituresInv ==
    ASSUME InvTerritoire, NEW r, Depasser(r), UNCHANGED <<villes, points>>,
           ~croisees /\ r \notin depassees => pertes' = {}
    PROVE  InvTerritoire'
BY VillesGardees DEF InvTerritoire, TypeTerritoire

LEMMA EffacerServiceInv ==
    ASSUME InvTerritoire, NEW r \in Administrateurs, EffacerService(r)
    PROVE  InvTerritoire'
<1>1. PICK s : s = requetes[r].id
  OBVIOUS
<1>2. /\ requetes[r].genre = "suppression" /\ requetes[r].table = "service" /\ Depasser(r)
      /\ UNCHANGED <<villes, points>>
      /\ pertes' = IF ColisDeService(s) = {} THEN pertes ELSE pertes \cup TarifsDeService(s)
  BY <1>1 DEF EffacerService, Efface
<1>3. ~croisees /\ r \notin depassees => pertes' = {}
  BY <1>1, <1>2, Controles DEF Controlee
<1>4. QED
  BY <1>2, <1>3, AutresEcrituresInv

\* The rows that no count looks at.
LEMMA CreerAnnexeInv ==
    ASSUME InvTerritoire, NEW x, NEW table, NEW cible, CreerAnnexe(x, table, cible)
    PROVE  InvTerritoire'
<1>1. UNCHANGED <<zones, villes, points, services, tarifs, envois, requetes, depassees,
                  croisees, pertes>>
  BY DEF CreerAnnexe
<1>2. QED
  BY <1>1, TerritoireInchange

LEMMA CreationsInv ==
    ASSUME InvTerritoire,
           \/ \E z \in Zones : CreerZone(z)
           \/ \E s \in Services : CreerService(s)
           \/ \E t \in Tarifs, s \in Services, z \in Zones \cup {NonDefini} : CreerTarif(t, s, z)
           \/ \E c \in Colis, v \in Villes, p \in Points, s \in Services : Declarer(c, v, p, s)
    PROVE  InvTerritoire'
<1>1. Depasser(NonDefini) /\ UNCHANGED <<villes, points, pertes>>
  BY DEF CreerZone, CreerService, CreerTarif, Declarer
<1>2. ~croisees => pertes' = {}
  BY <1>1 DEF InvTerritoire
<1>3. QED
  BY <1>1, <1>2, AutresEcrituresInv

\* As long as no write crosses the control of another: for any number of requests, cities, points,
\* prices and parcels, a point is in the country of its city, and a deletion takes nothing along
\* of what its count is there for.
THEOREM TerritoiresCoherents == SpecTerritoire => []TerritoireCoherent
<1>1. InitTerritoire => InvTerritoire
  <2> SUFFICES ASSUME InitTerritoire
               PROVE  InvTerritoire
    OBVIOUS
  <2>1. TypeTerritoire
    BY LignesDuTerritoire DEF InitTerritoire, TypeTerritoire
  <2>2. PointsTenus
    BY LignesDuTerritoire DEF InitTerritoire, PointsTenus, Existantes
  <2>3. ControlesTenus /\ pertes = {}
    BY DEF InitTerritoire, ControlesTenus
  <2>4. QED
    BY <2>1, <2>2, <2>3 DEF InvTerritoire
<1>2. InvTerritoire /\ [NextTerritoire]_varsTerritoire => InvTerritoire'
  <2> SUFFICES ASSUME InvTerritoire, [NextTerritoire]_varsTerritoire
               PROVE  InvTerritoire'
    OBVIOUS
  <2>1. ASSUME NEW r \in Administrateurs, NEW v \in Villes, NEW pays, NEW z,
               CreerVille(r, v, pays, z) \/ ModifierVille(r, v, pays, z)
        PROVE  InvTerritoire'
    BY <2>1, VillesInv
  <2>2. ASSUME NEW r \in Administrateurs, NEW p \in Points, NEW pays, NEW v,
               CreerPoint(r, p, pays, v) \/ ModifierPoint(r, p, pays, v)
        PROVE  InvTerritoire'
    BY <2>2, PointsInv
  <2>3. ASSUME NEW r \in Administrateurs, NEW z, NEW v,
               AffecterVille(r, z, v) \/ RetirerVille(r, z, v)
        PROVE  InvTerritoire'
    BY <2>3, ZonesInv
  <2>4. ASSUME NEW r \in Administrateurs, NEW x,
               \/ SupprimerZone(r, x) \/ SupprimerVille(r, x) \/ SupprimerPoint(r, x)
               \/ SupprimerService(r, x)
        PROVE  InvTerritoire'
    BY <2>4, SuppressionsInv
  <2>5. ASSUME NEW r \in Administrateurs,
               \/ EcrireVille(r) \/ EcrireRetrait(r) \/ EcrirePoint(r)
               \/ EffacerZone(r) \/ EffacerVille(r) \/ EffacerPoint(r) \/ EffacerService(r)
        PROVE  InvTerritoire'
    BY <2>5, EcrireVilleInv, EcrireRetraitInv, EcrirePointInv, EffacerZoneInv, EffacerVilleInv,
       EffacerPointInv, EffacerServiceInv
  <2>6. CASE UNCHANGED varsTerritoire
    BY <2>6, TerritoireInchange DEF varsTerritoire, donnees
  <2>7. QED
    BY <2>1, <2>2, <2>3, <2>4, <2>5, <2>6, CreationsInv, CreerAnnexeInv DEF NextTerritoire
<1>3. InvTerritoire => TerritoireCoherent
  BY DEF InvTerritoire, PointsTenus, VilleValide, TerritoireCoherent
<1>4. QED
  BY <1>1, <1>2, <1>3, PTL DEF SpecTerritoire

-----------------------------------------------------------------------------
(***************************************************************************)
(* The file of a parcel.                                                   *)
(*                                                                         *)
(* The lines are ranked as they were written, dated as their calls started *)
(* and no two of the same date; the event written last left its status.    *)
(***************************************************************************)

CodesFrise == DOMAIN StatutInduit \cup {"INFO"}
LignesFrise == [code : CodesFrise, date : Nat, statut : Statuts, rang : Nat]
Operations == {"libre", "fait", "point", "ligne", "coursier", "note", "decrire", "client"}
AppelDossier ==
    [op : Operations, code : CodesFrise, date : Nat, statut : Statuts, tentatives : Nat,
     point : PointsRetrait \cup {Domicile}]

TypeDossier ==
    /\ fiche.statut \in Statuts /\ fiche.tentatives \in Nat /\ fiche.pris \in Nat
    /\ DOMAIN fiche = {"statut", "point", "coursier", "pris", "tentatives"}
    /\ frise \in SUBSET LignesFrise /\ IsFiniteSet(frise)
    /\ appel \in [Intervenants -> AppelDossier]
    /\ horloge \in Nat

Echecs == {l \in frise : l.code = "LIV_ECHEC"}

\* The lines are ranked as they were written, and the dates of the calls are all different.
FriseTenue ==
    /\ \A l \in frise : l.rang \in 1 .. Cardinality(frise) /\ l.date <= horloge
    /\ \A l, m \in frise : l.rang = m.rang => l = m
    /\ \A a \in Intervenants : appel[a].op = "fait" =>
          appel[a].date \in 1 .. horloge /\ \A l \in frise : l.date # appel[a].date
    /\ \A a, b \in Intervenants :
          appel[a].op = "fait" /\ appel[b].op = "fait" /\ appel[a].date = appel[b].date => a = b
    /\ \A l, m \in LignesDEvenement : l.date = m.date => l = m

JalonsTenus ==
    /\ fiche.tentatives = Cardinality(Echecs)
    /\ fiche.pris = Jamais => \A l \in frise : l.code \notin PriseEnCharge
    /\ fiche.pris # Jamais =>
          /\ \E l \in frise : l.code \in PriseEnCharge /\ l.rang = fiche.pris
          /\ \A l \in frise : l.code \in PriseEnCharge => fiche.pris <= l.rang

\* The last event recorded left its status.
StatutTenu ==
    LignesDEvenement # {} =>
        \E e \in LignesDEvenement :
            e.statut = fiche.statut /\ \A l \in LignesDEvenement : l.rang <= e.rang

InvDossier == TypeDossier /\ FriseTenue /\ JalonsTenus /\ StatutTenu

-----------------------------------------------------------------------------

LEMMA TableDuDossier ==
    /\ \A c \in DOMAIN StatutInduit : StatutInduit[c] \in Statuts \cup {"aucun"}
    /\ StatutInduit["INFO"] = "aucun"
    /\ "INFO" \in DOMAIN StatutInduit /\ "INFO" \notin PriseEnCharge /\ "annule" \in Statuts
BY DEF StatutInduit, Statuts, Transitions, PriseEnCharge

AInscrire(l, code, date, statut) ==
    /\ code \in CodesFrise /\ date \in Nat /\ statut \in Statuts
    /\ l = LigneDeFrise(code, date, statut) /\ frise' = frise \cup {l}

\* A new line comes after all the others.
LEMMA LigneAjoutee ==
    ASSUME InvDossier, NEW l, NEW code, NEW date, NEW statut, AInscrire(l, code, date, statut)
    PROVE  /\ l \in LignesFrise /\ l.code = code /\ l.date = date /\ l.statut = statut
           /\ l.rang = Cardinality(frise) + 1 /\ Cardinality(frise) \in Nat /\ l \notin frise
           /\ \A m \in frise : m.rang \in Nat /\ m.rang < l.rang
           /\ frise' \in SUBSET LignesFrise /\ IsFiniteSet(frise')
           /\ Cardinality(frise') = Cardinality(frise) + 1
           /\ \A m \in frise' : m.rang \in 1 .. Cardinality(frise')
           /\ \A m, n \in frise' : m.rang = n.rang => m = n
<1>1. IsFiniteSet(frise) /\ Cardinality(frise) \in Nat /\ frise \in SUBSET LignesFrise
  BY FS_CardinalityType DEF InvDossier, TypeDossier
<1>2. /\ l.code = code /\ l.date = date /\ l.statut = statut /\ l.rang = Cardinality(frise) + 1
      /\ l \in LignesFrise
  BY <1>1 DEF AInscrire, LigneDeFrise, LignesFrise
<1>3. \A m \in frise : m.rang \in 1 .. Cardinality(frise)
  BY DEF InvDossier, FriseTenue
<1>4. \A m \in frise : m.rang \in Nat /\ m.rang < l.rang
  BY <1>1, <1>2, <1>3
<1>5. l \notin frise
  BY <1>4
<1>6. IsFiniteSet(frise') /\ Cardinality(frise') = Cardinality(frise) + 1
  BY <1>1, <1>5, FS_AddElement DEF AInscrire
<1>7. \A m \in frise' : m.rang \in 1 .. Cardinality(frise')
  BY <1>1, <1>2, <1>3, <1>6 DEF AInscrire
<1>8. \A m, n \in frise' : m.rang = n.rang => m = n
  BY <1>4 DEF AInscrire, InvDossier, FriseTenue
<1>9. frise' \in SUBSET LignesFrise
  BY <1>1, <1>2 DEF AInscrire
<1>10. QED
  BY <1>1, <1>2, <1>4, <1>5, <1>6, <1>7, <1>8, <1>9

\* A step that leaves the timeline and what events set of the row.
LEMMA FriseGardee ==
    ASSUME InvDossier, UNCHANGED frise, TypeDossier', horloge <= horloge',
           fiche'.statut = fiche.statut, fiche'.pris = fiche.pris,
           fiche'.tentatives = fiche.tentatives,
           \A a \in Intervenants : appel'[a].op = "fait" =>
              \/ appel[a].op = "fait" /\ appel'[a].date = appel[a].date
              \/ /\ appel'[a].date = horloge + 1 /\ horloge' = horloge + 1
                 /\ \A b \in Intervenants : appel'[b].op = "fait" /\ b # a => appel'[b] = appel[b]
    PROVE  InvDossier'
<1>1. horloge \in Nat /\ horloge' \in Nat /\ \A l \in frise : l.date \in Nat
  BY DEF InvDossier, TypeDossier, LignesFrise
<1>2. LignesDEvenement' = LignesDEvenement /\ Echecs' = Echecs
  BY DEF LignesDEvenement, Echecs
<1>3. FriseTenue'
  <2>1. \A l \in frise' : l.rang \in 1 .. Cardinality(frise') /\ l.date <= horloge'
    BY <1>1 DEF InvDossier, FriseTenue
  <2>2. \A a \in Intervenants : appel'[a].op = "fait" =>
           appel'[a].date \in 1 .. horloge' /\ \A l \in frise' : l.date # appel'[a].date
    BY <1>1 DEF InvDossier, FriseTenue
  <2>3. \A a, b \in Intervenants :
           appel'[a].op = "fait" /\ appel'[b].op = "fait" /\ appel'[a].date = appel'[b].date => a = b
    BY <1>1 DEF InvDossier, FriseTenue
  <2>4. QED
    BY <1>2, <2>1, <2>2, <2>3 DEF InvDossier, FriseTenue
<1>4. JalonsTenus' /\ StatutTenu'
  BY <1>2 DEF InvDossier, JalonsTenus, StatutTenu
<1>5. QED
  BY <1>3, <1>4 DEF InvDossier

LEMMA AppelerInv ==
    ASSUME InvDossier, NEW a \in Intervenants, NEW o \in AppelDossier, Appeler(a, o)
    PROVE  InvDossier'
<1>1. PICK n : n = [o EXCEPT !.date = horloge + 1, !.statut = fiche.statut,
                             !.tentatives = fiche.tentatives]
  OBVIOUS
<1>2. n \in AppelDossier /\ n.date = horloge + 1
  <2>1. PICK d \in Nat, s \in Statuts, t \in Nat :
           d = horloge + 1 /\ s = fiche.statut /\ t = fiche.tentatives
    <3>1. horloge + 1 \in Nat
      BY DEF InvDossier, TypeDossier
    <3>2. fiche.statut \in Statuts /\ fiche.tentatives \in Nat
      BY DEF InvDossier, TypeDossier
    <3>3. QED
      BY <3>1, <3>2
  <2>2. n = [o EXCEPT !.date = d, !.statut = s, !.tentatives = t]
    BY <1>1, <2>1
  <2>3. n = [op |-> o.op, code |-> o.code, date |-> d, statut |-> s, tentatives |-> t,
             point |-> o.point]
    BY <2>2 DEF AppelDossier
  <2>4. n \in AppelDossier /\ n.date = d
    BY <2>3 DEF AppelDossier
  <2>5. QED
    BY <2>1, <2>4
<1>3. /\ appel' = [appel EXCEPT ![a] = n] /\ horloge' = horloge + 1
      /\ UNCHANGED <<fiche, frise>>
  BY <1>1 DEF Appeler
<1>4. \A b \in Intervenants : appel'[b] = IF b = a THEN n ELSE appel[b]
  BY <1>3 DEF InvDossier, TypeDossier
<1>5. horloge \in Nat /\ TypeDossier'
  BY <1>2, <1>3 DEF InvDossier, TypeDossier
<1>6. horloge <= horloge'
  BY <1>3, <1>5
<1>7. \A b \in Intervenants : appel'[b].op = "fait" =>
         \/ appel[b].op = "fait" /\ appel'[b].date = appel[b].date
         \/ /\ appel'[b].date = horloge + 1 /\ horloge' = horloge + 1
            /\ \A c \in Intervenants : appel'[c].op = "fait" /\ c # b => appel'[c] = appel[c]
  BY <1>2, <1>3, <1>4
<1>8. QED
  BY <1>3, <1>5, <1>6, <1>7, FriseGardee

LEMMA AppelsTypes ==
    /\ SansAppel \in AppelDossier /\ SansAppel.op = "libre"
    /\ \A code \in CodesFrise : [SansAppel EXCEPT !.op = "fait", !.code = code] \in AppelDossier
    /\ \A op \in Operations, point \in PointsRetrait \cup {Domicile} :
          [SansAppel EXCEPT !.op = op, !.point = point] \in AppelDossier
    /\ \A c \in AppelDossier, op \in Operations :
          [c EXCEPT !.op = op] \in AppelDossier /\ [c EXCEPT !.op = op].op = op
<1>1. "annule" \in Statuts /\ "INFO" \in CodesFrise
  BY TableDuDossier DEF CodesFrise
<1>2. SansAppel \in AppelDossier /\ SansAppel.op = "libre"
  BY <1>1 DEF SansAppel, AppelDossier, Operations
<1>3. QED
  BY <1>2 DEF AppelDossier, Operations

\* The end of a correction, a description and an interruption.
LEMMA FinAppelInv ==
    ASSUME InvDossier, NEW a \in Intervenants, NEW c \in AppelDossier, c.op # "fait",
           appel' = [appel EXCEPT ![a] = c], UNCHANGED <<frise, horloge>>,
           \/ UNCHANGED fiche
           \/ \E p : fiche' = [fiche EXCEPT !.point = p]
           \/ fiche' = [fiche EXCEPT !.coursier = TRUE]
    PROVE  InvDossier'
<1>1. /\ fiche'.statut = fiche.statut /\ fiche'.pris = fiche.pris
      /\ fiche'.tentatives = fiche.tentatives /\ DOMAIN fiche' = DOMAIN fiche
  BY DEF InvDossier, TypeDossier
<1>2. TypeDossier'
  BY <1>1 DEF InvDossier, TypeDossier
<1>3. \A b \in Intervenants : appel'[b] = IF b = a THEN c ELSE appel[b]
  BY DEF InvDossier, TypeDossier
<1>4. horloge <= horloge'
  BY DEF InvDossier, TypeDossier
<1>5. QED
  BY <1>1, <1>2, <1>3, <1>4, FriseGardee

LEMMA CorrectionsInv ==
    ASSUME InvDossier, NEW a \in Intervenants,
           ChangerPointRetrait(a) \/ AffecterCoursier(a) \/ Decrire(a) \/ Abandonner(a)
    PROVE  InvDossier'
<1>1. PICK c \in AppelDossier : c = appel[a]
  BY DEF InvDossier, TypeDossier
<1>2. PICK d : d = [c EXCEPT !.op = "ligne"]
  OBVIOUS
<1>3. d \in AppelDossier /\ d.op = "ligne" /\ SansAppel \in AppelDossier /\ SansAppel.op = "libre"
  BY <1>2, AppelsTypes DEF Operations
<1>4. appel' = [appel EXCEPT ![a] = d] \/ appel' = [appel EXCEPT ![a] = SansAppel]
  BY <1>1, <1>2 DEF ChangerPointRetrait, AffecterCoursier, Decrire, Abandonner
<1>5. /\ UNCHANGED <<frise, horloge>>
      /\ \/ UNCHANGED fiche
         \/ \E p : fiche' = [fiche EXCEPT !.point = p]
         \/ fiche' = [fiche EXCEPT !.coursier = TRUE]
  BY DEF ChangerPointRetrait, AffecterCoursier, Decrire, Abandonner
<1>6. QED
  BY <1>3, <1>4, <1>5, FinAppelInv

\* A line about a correction moves no milestone.
LEMMA InscrireLigneInv ==
    ASSUME InvDossier, NEW a \in Intervenants, InscrireLigne(a)
    PROVE  InvDossier'
<1>0. PICK d, v : d = horloge + 1 /\ v = appel[a].statut
  OBVIOUS
<1>1. PICK l : l = LigneDeFrise("INFO", d, v)
  OBVIOUS
<1>2. /\ horloge' = horloge + 1 /\ frise' = frise \cup {l} /\ UNCHANGED fiche
      /\ appel' = [appel EXCEPT ![a] = SansAppel]
  BY <1>0, <1>1 DEF InscrireLigne
<1>3. /\ horloge + 1 \in Nat /\ horloge \in Nat /\ appel[a].statut \in Statuts
      /\ "INFO" \in CodesFrise
  BY DEF InvDossier, TypeDossier, AppelDossier, CodesFrise
<1>4. /\ l \in LignesFrise /\ l.code = "INFO" /\ l.date = horloge + 1
      /\ frise' \in SUBSET LignesFrise /\ IsFiniteSet(frise')
      /\ \A m \in frise' : m.rang \in 1 .. Cardinality(frise')
      /\ \A m, n \in frise' : m.rang = n.rang => m = n
  <2>2. d \in Nat /\ v \in Statuts /\ "INFO" \in CodesFrise /\ d = horloge + 1
    BY <1>0, <1>3
  <2>3. frise' = frise \cup {l}
    BY <1>2
  <2>4. AInscrire(l, "INFO", d, v)
    BY <1>1, <2>2, <2>3 DEF AInscrire
  <2>5. QED
    BY <2>2, <2>4, LigneAjoutee
<1>5. \A b \in Intervenants : appel'[b] = IF b = a THEN SansAppel ELSE appel[b]
  BY <1>2 DEF InvDossier, TypeDossier
<1>6. TypeDossier'
  BY <1>2, <1>3, <1>4, AppelsTypes DEF InvDossier, TypeDossier
<1>7. LignesDEvenement' = LignesDEvenement /\ Echecs' = Echecs
  BY <1>2, <1>4 DEF LignesDEvenement, Echecs
<1>8. FriseTenue'
  <2>1. \A m \in frise' : m.date <= horloge'
    BY <1>2, <1>3, <1>4 DEF InvDossier, FriseTenue, TypeDossier, LignesFrise
  <2>2. \A b \in Intervenants : appel'[b].op = "fait" => appel'[b] = appel[b]
    BY <1>5, AppelsTypes
  <2>3. \A b \in Intervenants : appel'[b].op = "fait" =>
           appel'[b].date \in 1 .. horloge' /\ \A m \in frise' : m.date # appel'[b].date
    BY <1>2, <1>3, <1>4, <2>2 DEF InvDossier, FriseTenue
  <2>4. QED
    BY <1>4, <1>7, <2>1, <2>2, <2>3 DEF InvDossier, FriseTenue
<1>9. JalonsTenus'
  BY <1>2, <1>4, <1>7, TableDuDossier DEF InvDossier, JalonsTenus
<1>10. StatutTenu'
  BY <1>2, <1>7 DEF InvDossier, StatutTenu
<1>11. QED
  BY <1>6, <1>8, <1>9, <1>10 DEF InvDossier

\* An event, dated when its call started and ranked where it is recorded.
LEMMA EnregistrerInv ==
    ASSUME InvDossier, NEW a \in Intervenants, EnregistrerFait(a)
    PROVE  InvDossier'
<1>1. PICK c \in AppelDossier : c = appel[a]
  BY DEF InvDossier, TypeDossier
<1>2. /\ c.op = "fait" /\ c.code \in CodesFrise /\ c.date \in Nat
      /\ appel' = [appel EXCEPT ![a] = SansAppel] /\ UNCHANGED horloge
  BY <1>1 DEF EnregistrerFait, AppelDossier
<1>3. CASE ~Permis(fiche.statut, c.code, "aucun")
  <2>1. UNCHANGED <<fiche, frise>>
    BY <1>1, <1>3 DEF EnregistrerFait
  <2>2. QED
    BY <1>2, <2>1, AppelsTypes, FinAppelInv
<1>4. CASE Permis(fiche.statut, c.code, "aucun")
  <2>1. PICK v : v = StatutVise(fiche.statut, c.code, "aucun")
    OBVIOUS
  <2>2. PICK l : l = LigneDeFrise(c.code, c.date, v)
    OBVIOUS
  <2>3. v \in Statuts /\ (c.code = "INFO" => v = fiche.statut)
    BY <1>2, <2>1, TableDuDossier DEF StatutVise, CodesFrise, InvDossier, TypeDossier
  <2>4. frise' = frise \cup {l} /\ fiche' = Jalons(a)
    BY <1>1, <1>4, <2>1, <2>2 DEF EnregistrerFait
  <2>5. /\ l \in LignesFrise /\ l.code = c.code /\ l.date = c.date /\ l.statut = v
        /\ l.rang = Cardinality(frise) + 1 /\ Cardinality(frise) \in Nat /\ l \notin frise
        /\ \A m \in frise : m.rang \in Nat /\ m.rang < l.rang
        /\ frise' \in SUBSET LignesFrise /\ IsFiniteSet(frise')
        /\ \A m \in frise' : m.rang \in 1 .. Cardinality(frise')
        /\ \A m, n \in frise' : m.rang = n.rang => m = n
    <3>2. PICK k \in CodesFrise, d \in Nat : k = c.code /\ d = c.date
      BY <1>2
    <3>3. l = LigneDeFrise(k, d, v) /\ frise' = frise \cup {l} /\ v \in Statuts
      BY <2>2, <2>3, <2>4, <3>2
    <3>4. AInscrire(l, k, d, v)
      BY <3>3 DEF AInscrire
    <3>5. QED
      BY <3>2, <3>4, LigneAjoutee
  <2>6. /\ DOMAIN fiche' = DOMAIN fiche /\ fiche'.statut = v
        /\ fiche'.pris = IF c.code \in PriseEnCharge /\ fiche.pris = Jamais THEN l.rang
                         ELSE fiche.pris
        /\ fiche'.tentatives = IF c.code = "LIV_ECHEC" THEN fiche.tentatives + 1
                               ELSE fiche.tentatives
    BY <1>1, <2>1, <2>4, <2>5 DEF Jalons, TentativesRelues, InvDossier, TypeDossier
  <2>7. TypeDossier'
    <3>1. appel' \in [Intervenants -> AppelDossier]
      BY <1>2, AppelsTypes DEF InvDossier, TypeDossier
    <3>2. fiche'.statut \in Statuts /\ fiche'.tentatives \in Nat /\ fiche'.pris \in Nat
      BY <2>3, <2>5, <2>6 DEF InvDossier, TypeDossier
    <3>3. QED
      BY <1>2, <2>5, <2>6, <3>1, <3>2 DEF InvDossier, TypeDossier
  <2>8. \A b \in Intervenants : appel'[b].op = "fait" => b # a /\ appel'[b] = appel[b]
    BY <1>2, AppelsTypes DEF InvDossier, TypeDossier
  <2>9. c.date \in 1 .. horloge /\ \A m \in frise : m.date # c.date
    BY <1>1, <1>2 DEF InvDossier, FriseTenue
  <2>10. FriseTenue'
    <3>1. \A m \in frise' : m.date <= horloge'
      BY <1>2, <2>4, <2>5, <2>9 DEF InvDossier, FriseTenue
    <3>2. \A b \in Intervenants : appel'[b].op = "fait" =>
             appel'[b].date \in 1 .. horloge' /\ \A m \in frise' : m.date # appel'[b].date
      BY <1>1, <1>2, <2>4, <2>5, <2>8 DEF InvDossier, FriseTenue
    <3>3. \A m, n \in LignesDEvenement' : m.date = n.date => m = n
      BY <2>4, <2>5, <2>9 DEF InvDossier, FriseTenue, LignesDEvenement
    <3>4. \A b, d \in Intervenants :
             appel'[b].op = "fait" /\ appel'[d].op = "fait" /\ appel'[b].date = appel'[d].date => b = d
      BY <2>8 DEF InvDossier, FriseTenue
    <3>5. QED
      BY <2>5, <3>1, <3>2, <3>3, <3>4 DEF FriseTenue
  <2>11. fiche'.tentatives = Cardinality(Echecs')
    <3>1. CASE c.code = "LIV_ECHEC"
      <4>1. Echecs' = Echecs \cup {l} /\ l \notin Echecs
        BY <2>4, <2>5, <3>1 DEF Echecs
      <4>2. IsFiniteSet(Echecs)
        BY FS_Subset DEF Echecs, InvDossier, TypeDossier
      <4>3. Cardinality(Echecs') = Cardinality(Echecs) + 1
        BY <4>1, <4>2, FS_AddElement
      <4>4. QED
        BY <2>6, <3>1, <4>3 DEF InvDossier, JalonsTenus
    <3>2. CASE c.code # "LIV_ECHEC"
      <4>1. Echecs' = Echecs
        BY <2>4, <2>5, <3>2 DEF Echecs
      <4>2. QED
        BY <2>6, <3>2, <4>1 DEF InvDossier, JalonsTenus
    <3>3. QED
      BY <3>1, <3>2
  <2>12. JalonsTenus'
    <3>1. CASE c.code \in PriseEnCharge /\ fiche.pris = Jamais
      <4>1. fiche'.pris = l.rang /\ fiche'.pris # Jamais
        BY <2>5, <2>6, <3>1 DEF Jamais
      <4>2. \A m \in frise' : m.code \in PriseEnCharge => m = l
        BY <2>4, <3>1 DEF InvDossier, JalonsTenus
      <4>3. l \in frise' /\ l.code \in PriseEnCharge /\ l.rang <= l.rang
        BY <2>4, <2>5, <3>1
      <4>4. QED
        BY <2>11, <4>1, <4>2, <4>3 DEF JalonsTenus
    <3>2. CASE c.code \notin PriseEnCharge
      <4>1. fiche'.pris = fiche.pris
        BY <2>6, <3>2
      <4>2. \A m \in frise' : m.code \in PriseEnCharge => m \in frise
        BY <2>4, <2>5, <3>2
      <4>3. QED
        BY <2>4, <2>11, <4>1, <4>2 DEF InvDossier, JalonsTenus
    <3>3. CASE fiche.pris # Jamais
      <4>1. fiche'.pris = fiche.pris /\ fiche.pris \in Nat
        BY <2>6, <3>3 DEF InvDossier, TypeDossier
      <4>2. /\ \E m \in frise : m.code \in PriseEnCharge /\ m.rang = fiche.pris
            /\ \A m \in frise : m.code \in PriseEnCharge => fiche.pris <= m.rang
        BY <3>3 DEF InvDossier, JalonsTenus
      <4>3. fiche.pris <= l.rang
        BY <2>5, <4>1, <4>2
      <4>4. QED
        BY <2>4, <2>11, <3>3, <4>1, <4>2, <4>3 DEF JalonsTenus
    <3>4. QED
      BY <3>1, <3>2, <3>3
  <2>13. StatutTenu'
    <3>1. CASE c.code = "INFO"
      <4>1. LignesDEvenement' = LignesDEvenement
        BY <2>4, <2>5, <3>1 DEF LignesDEvenement
      <4>2. QED
        BY <2>3, <2>6, <3>1, <4>1 DEF InvDossier, StatutTenu
    <3>2. CASE c.code # "INFO"
      <4>1. l \in LignesDEvenement' /\ l.statut = fiche'.statut
        BY <2>4, <2>5, <2>6, <3>2 DEF LignesDEvenement
      <4>2. \A m \in LignesDEvenement' : m.rang <= l.rang
        BY <2>4, <2>5 DEF LignesDEvenement
      <4>3. QED
        BY <4>1, <4>2 DEF StatutTenu
    <3>3. QED
      BY <3>1, <3>2
  <2>14. QED
    BY <2>7, <2>10, <2>12, <2>13 DEF InvDossier
<1>5. QED
  BY <1>3, <1>4

\* What the invariant says of the last line and of the first taking in charge.
LEMMA DossierDeLInvariant ==
    ASSUME InvDossier
    PROVE  DossierCoherent
<1>1. fiche.tentatives = Cardinality({l \in frise : l.code = "LIV_ECHEC"})
  BY DEF InvDossier, JalonsTenus, Echecs
<1>2. PICK P : P = {l.rang : l \in {m \in frise : m.code \in PriseEnCharge}}
  OBVIOUS
<1>3. fiche.pris = (IF P = {} THEN Jamais ELSE Min(P))
  <2>1. CASE fiche.pris = Jamais
    <3>1. P = {}
      BY <1>2, <2>1 DEF InvDossier, JalonsTenus
    <3>2. QED
      BY <2>1, <3>1
  <2>2. CASE fiche.pris # Jamais
    <3>1. fiche.pris \in P /\ \A y \in P : fiche.pris <= y /\ y \in Nat
      BY <1>2, <2>2 DEF InvDossier, JalonsTenus, TypeDossier, LignesFrise
    <3>2. Min(P) \in P /\ \A y \in P : Min(P) <= y
      BY <3>1 DEF Min
    <3>3. Min(P) = fiche.pris
      BY <3>1, <3>2
    <3>4. QED
      BY <3>1, <3>3
  <2>3. QED
    BY <2>1, <2>2
<1>4. ASSUME LignesDEvenement # {}, ~Croisement
      PROVE  DerniereLigne.statut = fiche.statut
  <2>1. PICK e \in LignesDEvenement :
           e.statut = fiche.statut /\ \A l \in LignesDEvenement : l.rang <= e.rang
    BY <1>4 DEF InvDossier, StatutTenu
  <2>2. \A l \in LignesDEvenement : l.rang \in Nat /\ l.date \in Nat /\ l \in frise
    BY DEF LignesDEvenement, InvDossier, TypeDossier, LignesFrise
  <2>3. ASSUME NEW l \in LignesDEvenement
        PROVE  l.date <= e.date
    <3>1. CASE l = e
      BY <2>2, <3>1
    <3>2. CASE l # e
      <4>1. l.rang < e.rang
        BY <2>1, <2>2, <3>2 DEF InvDossier, FriseTenue
      <4>2. ~(e.date < l.date)
        BY <1>4, <4>1 DEF Croisement
      <4>3. QED
        BY <2>2, <4>2
    <3>3. QED
      BY <3>1, <3>2
  <2>4. PICK d : d = DerniereLigne
    OBVIOUS
  <2>5. d \in LignesDEvenement /\ \A m \in LignesDEvenement : m.date <= d.date
    BY <2>3, <2>4 DEF DerniereLigne
  <2>6. d.date = e.date
    BY <2>2, <2>3, <2>5
  <2>7. d = e
    BY <2>5, <2>6 DEF InvDossier, FriseTenue
  <2>8. QED
    BY <2>1, <2>4, <2>7
<1>5. QED
  BY <1>1, <1>2, <1>3, <1>4 DEF DossierCoherent

\* However events and corrections cross, for any callers, events and first statuses: the attempts
\* and the taking in charge are those of the timeline, and its last line, by date, has the status
\* of the parcel unless two calls crossed (jalonsTemporels, getSuiviPublic).
THEOREM DossiersCoherents == HypothesesDossier /\ SpecDossier => []DossierCoherent
<1> SUFFICES ASSUME HypothesesDossier
             PROVE  SpecDossier => []DossierCoherent
  OBVIOUS
<1>1. InitDossier => InvDossier
  <2> SUFFICES ASSUME InitDossier
               PROVE  InvDossier
    OBVIOUS
  <2>1. PICK s \in Departs :
           fiche = [statut |-> s, point |-> Domicile, coursier |-> FALSE, pris |-> Jamais,
                    tentatives |-> 0]
    BY DEF InitDossier
  <2>2. /\ fiche.statut \in Statuts /\ fiche.tentatives = 0 /\ fiche.pris = Jamais
        /\ DOMAIN fiche = {"statut", "point", "coursier", "pris", "tentatives"}
    BY <2>1 DEF HypothesesDossier
  <2>3. TypeDossier
    <3>1. frise \in SUBSET LignesFrise /\ IsFiniteSet(frise)
      BY FS_EmptySet DEF InitDossier
    <3>2. appel \in [Intervenants -> AppelDossier] /\ horloge \in Nat
      BY AppelsTypes DEF InitDossier
    <3>3. fiche.tentatives \in Nat /\ fiche.pris \in Nat
      BY <2>2 DEF Jamais
    <3>4. QED
      BY <2>2, <3>1, <3>2, <3>3 DEF TypeDossier
  <2>4. Echecs = {} /\ LignesDEvenement = {} /\ frise = {}
    BY DEF InitDossier, Echecs, LignesDEvenement
  <2>5. FriseTenue
    BY <2>4, AppelsTypes DEF InitDossier, FriseTenue
  <2>6. JalonsTenus /\ StatutTenu
    BY <2>2, <2>4, FS_EmptySet DEF JalonsTenus, StatutTenu
  <2>7. QED
    BY <2>3, <2>5, <2>6 DEF InvDossier
<1>2. InvDossier /\ [NextDossier]_varsDossier => InvDossier'
  <2> SUFFICES ASSUME InvDossier, [NextDossier]_varsDossier
               PROVE  InvDossier'
    OBVIOUS
  <2>1. ASSUME NEW a \in Intervenants, NEW code \in Faits, LireFait(a, code)
        PROVE  InvDossier'
    BY <2>1, AppelsTypes, AppelerInv DEF LireFait, HypothesesDossier, CodesFrise
  <2>2. ASSUME NEW a \in Intervenants, NEW op \in {"coursier", "note", "decrire", "client", "point"},
               NEW p \in PointsRetrait \cup {Domicile}, LireCorrection(a, op, p)
        PROVE  InvDossier'
    <3>1. op \in Operations
      BY DEF Operations
    <3>2. QED
      BY <2>2, <3>1, AppelsTypes, AppelerInv DEF LireCorrection
  <2>3. ASSUME NEW a \in Intervenants,
               \/ EnregistrerFait(a) \/ ChangerPointRetrait(a) \/ AffecterCoursier(a) \/ Decrire(a)
               \/ InscrireLigne(a) \/ Abandonner(a)
        PROVE  InvDossier'
    BY <2>3, EnregistrerInv, CorrectionsInv, InscrireLigneInv
  <2>4. CASE UNCHANGED varsDossier
    BY <2>4 DEF varsDossier, InvDossier, TypeDossier, FriseTenue, JalonsTenus, StatutTenu, Echecs,
                LignesDEvenement
  <2>5. QED
    BY <2>1, <2>2, <2>3, <2>4 DEF NextDossier
<1>3. QED
  BY <1>1, <1>2, DossierDeLInvariant, PTL DEF SpecDossier
=============================================================================
