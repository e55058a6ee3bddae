------------------------------- MODULE Remise -------------------------------
(***************************************************************************)
(* The hand-over of a parcel: the one-time code that the agent or the      *)
(* courier displays and the addressee types in his application             *)
(* (RemiseService), the hand-over at the counter, and the check that the   *)
(* invoice is settled, which both make before the tracking event.          *)
(*                                                                         *)
(* Each request loads the row of the parcel, then the unpaid invoices,     *)
(* then writes; nothing is locked before the tracking engine's own         *)
(* transaction.  An instance that was loaded is saved with the columns     *)
(* that differ from what it loaded (Sequelize), a conditional UPDATE with  *)
(* all its columns.                                                        *)
(*                                                                         *)
(* The model is one parcel, whose addressee has an account.  A displayed   *)
(* code is its rank: two random codes are taken to differ.  The withdrawal *)
(* code that the counter asks for is taken to be right.                    *)
(***************************************************************************)
EXTENDS EtatsColis, Naturals, Sequences

CONSTANTS
    Agents,        \* staff: each displays codes and hands over at the counter
    Saisies,       \* the addressee's submissions that may be in flight together
    Personne,      \* codeRemisePar = null
    EchecsMax,     \* ECHECS_MAX: wrong tries that cancel a code
    CodesMax,      \* bound on the number of codes displayed
    RemisesMax,    \* bound on the number of hand-overs recorded
    CodesAilleurs  \* events that other services record on the parcel

VARIABLES
    ligne,         \* the parcel's row
    affiches,      \* the codes displayed so far: what each was displayed for, and by whom
    expires,       \* how many of them have expired, oldest first
    due,           \* an unpaid invoice blocks the hand-over
    remises,       \* auxiliary: the hand-overs recorded, by their codes (0 at the counter)
    requete        \* the request each actor has in flight

vars == <<ligne, affiches, expires, due, remises, requete>>

-----------------------------------------------------------------------------
(* Types and assumptions *)

EvenementParStatut == [disponible_retrait |-> "RETIRE", en_livraison |-> "LIVRE"]
EvenementsDeRemise == {"RETIRE", "LIVRE"}
Acteurs == Agents \cup Saisies
Rangs == 0..CodesMax   \* 0 stands for null, or for a code never displayed

\* What the model takes of its constants.
Hypotheses ==
    /\ Agents \cap Saisies = {} /\ Personne \notin Acteurs
    /\ EchecsMax \in Nat \ {0}
    /\ CodesMax \in Nat /\ RemisesMax \in Nat
    /\ CodesAilleurs \subseteq DOMAIN StatutInduit \ EvenementsDeRemise

Libre == [op |-> "libre"]

-----------------------------------------------------------------------------
(* Helpers.  A definition that follows the word "Variant" is a plausible   *)
(* slip in the one below it.                                               *)

\* The event that hands the parcel over at this stage; undefined at the others, which the
\* null of an erased code ("aucun") does not equal.
EvenementDe(statut) ==
    IF statut \in DOMAIN EvenementParStatut THEN EvenementParStatut[statut] ELSE "indefini"

\* effacer
Efface(l) == [l EXCEPT !.code = 0, !.pour = "aucun", !.par = Personne, !.echecs = 0]

\* instance.update(values): the columns that `voulue` changes in what was loaded.
Enregistrer(lue, voulue) ==
    [champ \in DOMAIN ligne |-> IF voulue[champ] = lue[champ] THEN ligne[champ] ELSE voulue[champ]]

\* What a wrong try makes of the row it loaded.
ApresEchec(l) == IF l.echecs + 1 >= EchecsMax THEN Efface(l) ELSE [l EXCEPT !.echecs = @ + 1]

\* Variant: the code is consumed whoever consumed it before.
EncoreCeCodeToujours(r) == r.lue.code # 0

\* UPDATE ... WHERE codeRemiseEmpreinte = the one loaded
EncoreCeCode(r) == ligne.code = r.lue.code

\* Variant: the code is put back whatever was displayed in the meantime.
PlaceLibreToujours(r) == r.op = "restauration"

\* UPDATE ... WHERE codeRemiseEmpreinte IS NULL
PlaceLibre(r) == ligne.code = 0

\* Variant: the settlement is checked when the code is displayed, and not again.
RegleSaufConfirmation(r) == r.op = "confirmation" \/ ~due \/ r.passeOutre

\* verifierReglementAvantRemise
Regle(r) == ~due \/ r.passeOutre

\* The check made again under the row lock.
PermisSousVerrou(r) == Permis(ligne.statut, r.evenement, "aucun")

Lecture(op, evenement, passeOutre) ==
    [op |-> op, lue |-> ligne, evenement |-> evenement, verifie |-> FALSE,
     passeOutre |-> passeOutre, rouverte |-> FALSE]

Poser(a, r) == requete' = [requete EXCEPT ![a] = r]

-----------------------------------------------------------------------------
(* Initial state: the parcel has reached the stage where it is handed over.*)

Init ==
    /\ ligne \in [statut : DOMAIN EvenementParStatut, code : {0}, pour : {"aucun"},
                  par : {Personne}, echecs : {0}]
    /\ affiches = <<>>
    /\ expires = 0
    /\ due \in BOOLEAN
    /\ remises = <<>>
    /\ requete = [a \in Acteurs |-> Libre]

-----------------------------------------------------------------------------
(* The agent or the courier *)

LireGeneration(a) ==
    /\ requete[a] = Libre
    /\ EvenementDe(ligne.statut) # "indefini"
    /\ Poser(a, Lecture("generation", EvenementDe(ligne.statut), FALSE))
    /\ UNCHANGED <<ligne, affiches, expires, due, remises>>

\* The unpaid invoices are read: none, or an administrator passes over them.
VerifierReglement(a) ==
    /\ requete[a].op \in {"generation", "confirmation", "comptoir"}
    /\ ~requete[a].verifie
    /\ Regle(requete[a])
    /\ Poser(a, [requete[a] EXCEPT !.verifie = TRUE])
    /\ UNCHANGED <<ligne, affiches, expires, due, remises>>

AfficherCode(a) ==
    LET r == requete[a]
        rang == Len(affiches) + 1
    IN
    /\ r.op = "generation"
    /\ r.verifie
    /\ rang <= CodesMax
    /\ ligne' = Enregistrer(r.lue, [r.lue EXCEPT !.code = rang, !.pour = r.evenement,
                                                 !.par = a, !.echecs = 0])
    /\ affiches' = Append(affiches, [pour |-> r.evenement, par |-> a])
    /\ Poser(a, Libre)
    /\ UNCHANGED <<expires, due, remises>>

\* Hand-over with the withdrawal code, which has nothing to do with the one-time code; only
\* an administrator passes over the unpaid invoices.
LireComptoir(a, evenement, passeOutre) ==
    /\ requete[a] = Libre
    /\ Permis(ligne.statut, evenement, "aucun")
    /\ Poser(a, [Lecture("comptoir", evenement, passeOutre) EXCEPT !.lue = Efface(@)])
    /\ UNCHANGED <<ligne, affiches, expires, due, remises>>

-----------------------------------------------------------------------------
(* The addressee: a submission of the code k, or of a wrong one.           *)

LireSaisie(s, k) ==
    /\ requete[s] = Libre
    /\ ligne.code > expires
    /\ Poser(s, IF k # ligne.code THEN Lecture("echec", "aucun", FALSE)
                ELSE IF EvenementDe(ligne.statut) # ligne.pour
                     THEN Lecture("effacement", "aucun", FALSE)
                     ELSE Lecture("confirmation", ligne.pour, FALSE))
    /\ UNCHANGED <<ligne, affiches, expires, due, remises>>

NoterEchec(s) ==
    /\ requete[s].op = "echec"
    /\ ligne' = Enregistrer(requete[s].lue, ApresEchec(requete[s].lue))
    /\ Poser(s, Libre)
    /\ UNCHANGED <<affiches, expires, due, remises>>

\* The parcel is no longer at the stage the code was displayed for.
Effacer(s) ==
    /\ requete[s].op = "effacement"
    /\ ligne' = Enregistrer(requete[s].lue, Efface(requete[s].lue))
    /\ Poser(s, Libre)
    /\ UNCHANGED <<affiches, expires, due, remises>>

Consommer(s) ==
    LET r == requete[s] IN
    /\ r.op = "confirmation"
    /\ r.verifie
    /\ EncoreCeCode(r)
    /\ ligne' = Efface(ligne)
    /\ Poser(s, [r EXCEPT !.op = "consomme", !.lue.echecs = 0])
    /\ UNCHANGED <<affiches, expires, due, remises>>

\* The event is refused under the lock, or its transaction fails.
EchouerRemise(s) ==
    /\ requete[s].op = "consomme"
    /\ Poser(s, [requete[s] EXCEPT !.op = "restauration", !.rouverte = FALSE])
    /\ UNCHANGED <<ligne, affiches, expires, due, remises>>

\* The code can be used again, unless another one was displayed; the wrong tries are not
\* written.
Restaurer(s) ==
    LET r == requete[s] IN
    /\ r.op = "restauration"
    /\ ligne' = IF PlaceLibre(r)
                THEN [ligne EXCEPT !.code = r.lue.code, !.pour = r.evenement, !.par = r.lue.par]
                ELSE ligne
    /\ Poser(s, Libre)
    /\ UNCHANGED <<affiches, expires, due, remises>>

-----------------------------------------------------------------------------
(* Both: the tracking event, in its transaction.                           *)

EnregistrerRemise(a) ==
    LET r == requete[a] IN
    /\ r.op = "consomme" \/ (r.op = "comptoir" /\ r.verifie)
    /\ PermisSousVerrou(r)
    /\ ligne' = [ligne EXCEPT !.statut = StatutInduit[r.evenement]]
    /\ Len(remises) < RemisesMax
    /\ remises' = Append(remises, IF r.op = "consomme" THEN r.lue.code ELSE 0)
    /\ Poser(a, Libre)
    /\ UNCHANGED <<affiches, expires, due>>

\* The request is refused, or the process stops: what is written stays.
Abandonner(a) ==
    /\ requete[a] # Libre
    /\ Poser(a, Libre)
    /\ UNCHANGED <<ligne, affiches, expires, due, remises>>

-----------------------------------------------------------------------------
(* The rest of the system *)

EvenementAilleurs(code) ==
    /\ Permis(ligne.statut, code, "aucun")
    /\ ligne' = [ligne EXCEPT !.statut = StatutVise(@, code, "aucun")]
    /\ UNCHANGED <<affiches, expires, due, remises, requete>>

\* Ten minutes after it was displayed, a code is worth nothing.
Expirer ==
    /\ expires < Len(affiches)
    /\ expires' = expires + 1
    /\ UNCHANGED <<ligne, affiches, due, remises, requete>>

\* A payment settles the invoice; a refund with rouvrirFacture, or its late issue, makes it
\* due.  The hand-overs whose check is behind them do not see it.
Facturer(d) ==
    /\ due # d
    /\ due' = d
    /\ requete' = [a \in Acteurs |->
          IF d /\ requete[a].op \in {"confirmation", "consomme", "comptoir"}
             /\ requete[a].verifie /\ ~requete[a].passeOutre
          THEN [requete[a] EXCEPT !.rouverte = TRUE] ELSE requete[a]]
    /\ UNCHANGED <<ligne, affiches, expires, remises>>

Next ==
    \/ \E a \in Agents :
          \/ LireGeneration(a) \/ AfficherCode(a)
          \/ \E e \in EvenementsDeRemise, o \in BOOLEAN : LireComptoir(a, e, o)
    \/ \E s \in Saisies :
          \/ \E k \in Rangs : LireSaisie(s, k)
          \/ NoterEchec(s) \/ Effacer(s) \/ Consommer(s) \/ EchouerRemise(s) \/ Restaurer(s)
    \/ \E a \in Acteurs : VerifierReglement(a) \/ EnregistrerRemise(a) \/ Abandonner(a)
    \/ \E code \in CodesAilleurs : EvenementAilleurs(code)
    \/ Expirer
    \/ \E d \in BOOLEAN : Facturer(d)

Spec == Init /\ [][Next]_vars

-----------------------------------------------------------------------------
(* Properties *)

\* A code hands the parcel over once: however its submissions interleave, and although a
\* failed confirmation puts back the code it consumed, no two recorded hand-overs rest on
\* the same one.
UnCodeUneRemise ==
    \A i, j \in DOMAIN remises : remises[i] = remises[j] /\ remises[i] # 0 => i = j

\* A code that was displayed is only replaced by a more recent one: the code that a failed
\* confirmation puts back does not take the place of the one displayed since.
CodePlusRecent == ligne.code # 0 /\ ligne'.code # 0 => ligne'.code >= ligne.code

\* A parcel is not handed over with an unpaid invoice, unless an administrator passes over
\* it or the invoice became due after the check of that very request.
RemiseApresReglement ==
    remises' # remises /\ due =>
        \E a \in Acteurs : requete[a] # Libre /\ requete'[a] = Libre
                           /\ (requete[a].passeOutre \/ requete[a].rouverte)

\* Both at once, for every step of the hand-over.
RemiseReglee == [][CodePlusRecent /\ RemiseApresReglement]_vars
=============================================================================
