------------------------------- MODULE MCComptes ------------------------------
(***************************************************************************)
(* What people are allowed on small instances: the sessions of a client,   *)
(* his one-time codes, the code a parcel is handed over with, his          *)
(* professional rate, the agents of the points, the administrators.  They  *)
(* share no row in these instances: the run explores their sum, not their  *)
(* product.  `partie` names the part that moves; the others stay as they   *)
(* start.                                                                  *)
(***************************************************************************)
EXTENDS Remise, Sessions, CodesUniques, Personnel, Professionnel, TLC

CONSTANTS r1, r2, w1, w2, d1, d2, a1, a2, p1, p2, g1, Parties

VARIABLE partie

ASSUME HypothesesComptes ==
    /\ Hypotheses /\ HypothesesSessions /\ HypothesesCodes /\ HypothesesPersonnel
    /\ HypothesesPro

Depart ==
    /\ Init /\ InitSessions /\ InitCodes /\ InitAgents /\ InitAdmins /\ InitPro
    /\ partie \in Parties
    /\ partie # "remise" => ligne.statut = "disponible_retrait" /\ ~due

Suite ==
    \/ /\ partie = "remise" /\ Next
       /\ UNCHANGED <<partie, varsSessions, varsCodes, varsAgents, varsAdmins, varsPro>>
    \/ /\ partie = "sessions" /\ NextSessions
       /\ UNCHANGED <<partie, vars, varsCodes, varsAgents, varsAdmins, varsPro>>
    \/ /\ partie = "codes" /\ NextCodes
       /\ UNCHANGED <<partie, vars, varsSessions, varsAgents, varsAdmins, varsPro>>
    \/ /\ partie = "agents" /\ NextAgents
       /\ UNCHANGED <<partie, vars, varsSessions, varsCodes, varsAdmins, varsPro>>
    \/ /\ partie = "administrateurs" /\ NextAdmins
       /\ UNCHANGED <<partie, vars, varsSessions, varsCodes, varsAgents, varsPro>>
    \/ /\ partie = "professionnel" /\ NextPro
       /\ UNCHANGED <<partie, vars, varsSessions, varsCodes, varsAgents, varsAdmins>>

SpecParties ==
    /\ Depart
    /\ [][Suite]_<<partie, vars, varsSessions, varsCodes, varsAgents, varsAdmins, varsPro>>

-----------------------------------------------------------------------------
\* Two requests on one worker, a second worker that only checks access tokens.
MCRequetes == {r1, r2}
MCOuvriers == {w1, w2}
MCOuvrier == r1 :> w1 @@ r2 :> w1
MCAdmins == {d1, d2}
MCGerants == {d1}
MCAgents == {a1, a2}
MCPoints == {p1, p2}
Symetrie == Permutations({r1, r2})
=============================================================================
