------------------------------- MODULE MCSocle --------------------------------
(***************************************************************************)
(* What runs beside the requests, on small instances: the background       *)
(* queue, the scheduled tasks and the reception of files.  The parts share *)
(* nothing in these instances: the run explores their sum, not their       *)
(* product.  `partie` names the part that moves; the variables of the      *)
(* others stay as they start.                                              *)
(***************************************************************************)
EXTENDS ArrierePlan, Taches, Receptions, TLC

CONSTANTS p1, p2, n1, n2, n3, e1, push, email, Parties

VARIABLE partie

toutes == <<partie, vars, varsTaches, varsReceptions>>

ASSUME HypothesesSocle == Hypotheses /\ HypothesesTaches /\ HypothesesReceptions

Depart ==
    /\ Init /\ InitTaches /\ InitReceptions
    /\ partie \in Parties
    /\ partie = "taches" \/ horloge = 0

Seule(nom, autres) == partie = nom /\ UNCHANGED <<partie, autres>>
File == Seule("file", <<varsTaches, varsReceptions>>)
Horaires == Seule("taches", <<vars, varsReceptions>>)
Accueil == Seule("receptions", <<vars, varsTaches>>)

Suite ==
    \/ Next /\ File
    \/ NextTaches /\ Horaires
    \/ NextReceptions /\ Accueil

\* The fairness of each part, while it moves.
EquiteParties ==
    /\ \A m \in Envois : WF_toutes(Finir(m) /\ File) /\ WF_toutes(Reessayer(m) /\ File)
    /\ \A m \in {n \in Envois : VoieDe[n] \in VoiesFiables} : WF_toutes(FinAppel(m) /\ File)
    /\ WF_toutes(Avancer /\ Horaires)
    /\ \A p \in Processus :
          WF_toutes(Travailler(p) /\ Horaires) /\ WF_toutes(Redemarrer(p) /\ Horaires)

SpecParties == Depart /\ [][Suite]_toutes /\ EquiteParties

-----------------------------------------------------------------------------
MCProcessus == {p1, p2}

\* The queue.  The calls of the push lane have a time limit (push.js:65); those of the email
\* lane do not (resend.service.js).
MCEnvois == {n1, n2, n3, e1}
MCVoies == {push, email}
MCVoieDe == [m \in MCEnvois |-> IF m = e1 THEN email ELSE push]
MCVoiesFiables == {push}
MCTentatives == (n1 :> 3) @@ (n2 :> 2) @@ (n3 :> 1) @@ (e1 :> 2)
=============================================================================
