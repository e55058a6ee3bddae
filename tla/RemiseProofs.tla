---------------------------- MODULE RemiseProofs ----------------------------
(***************************************************************************)
(* Proofs about Remise, for any staff, any submissions, any number of      *)
(* codes and hand-overs.                                                   *)
(*                                                                         *)
(* A code is in one place only: displayed on the row of the parcel, held   *)
(* by the submission that consumed it, or spent on a hand-over.  The       *)
(* writes of stale rows cannot put it back, since a row is saved with the  *)
(* columns that differ, and the only value that a stale row writes in this *)
(* one is null.                                                            *)
(***************************************************************************)
EXTENDS Remise, TLAPS

Ligne == [statut : Statuts, code : Nat, pour : EvenementsDeRemise \cup {"aucun"},
          par : Acteurs \cup {Personne}, echecs : Nat]

Requete == [op : {"generation", "comptoir", "echec", "effacement", "confirmation", "consomme",
                  "restauration"},
            lue : Ligne, evenement : EvenementsDeRemise \cup {"aucun"},
            verifie : BOOLEAN, passeOutre : BOOLEAN, rouverte : BOOLEAN]

RemiseTypee ==
    /\ ligne \in Ligne
    /\ affiches \in Seq([pour : EvenementsDeRemise, par : Agents])
    /\ expires \in Nat
    /\ due \in BOOLEAN
    /\ remises \in Seq(Nat)
    /\ requete \in [Acteurs -> Requete \cup {Libre}]

\* What a request knows when it hands over: an event, and the settlement it checked.
Fondee(r, du) ==
    /\ r.op \in {"generation", "comptoir", "confirmation", "consomme", "restauration"}
          => r.evenement \in EvenementsDeRemise
    /\ r.op \in {"echec", "effacement", "confirmation", "consomme", "restauration"}
          => r.lue.code # 0
    /\ r.op = "consomme" => r.verifie
    /\ r.op \in {"comptoir", "confirmation", "consomme"} /\ r.verifie
          => ~du \/ r.passeOutre \/ r.rouverte

RequetesFondees == \A a \in Acteurs : Fondee(requete[a], due)

\* Codes are known by their rank of display.
CodesAffiches ==
    /\ ligne.code <= Len(affiches)
    /\ \A a \in Acteurs : requete[a] # Libre => requete[a].lue.code <= Len(affiches)
    /\ \A i \in DOMAIN remises : remises[i] <= Len(affiches)

\* The request holds the code k: it has consumed it.
Tient(r, k) == r.op \in {"consomme", "restauration"} /\ r.lue.code = k

Servi(k) == \E i \in DOMAIN remises : remises[i] = k

\* A code is in one place.
UneSeulePlace ==
    \A k \in Nat \ {0} :
        /\ ligne.code = k => ~Servi(k) /\ \A a \in Acteurs : ~Tient(requete[a], k)
        /\ \A a \in Acteurs : Tient(requete[a], k) =>
              ~Servi(k) /\ \A b \in Acteurs : Tient(requete[b], k) => a = b

IInv == RemiseTypee /\ RequetesFondees /\ CodesAffiches /\ UneSeulePlace /\ UnCodeUneRemise

-----------------------------------------------------------------------------
(* Rows *)

LEMMA TableDesRemises ==
    /\ DOMAIN EvenementParStatut \subseteq Statuts
    /\ \A s \in DOMAIN EvenementParStatut : EvenementParStatut[s] \in EvenementsDeRemise
    /\ \A e \in EvenementsDeRemise : StatutInduit[e] \in Statuts
    /\ EvenementsDeRemise \subseteq DOMAIN StatutInduit
  BY DEF EvenementParStatut, EvenementsDeRemise, StatutInduit, Statuts, Transitions

LEMMA StatutViseDansTable ==
    ASSUME NEW s \in Statuts, NEW code \in DOMAIN StatutInduit
    PROVE  StatutVise(s, code, "aucun") \in Statuts
  BY DEF StatutVise, StatutInduit, Statuts, Transitions

LEMMA EffaceTypee ==
    ASSUME NEW l \in Ligne
    PROVE  Efface(l) \in Ligne /\ Efface(l).code = 0
  BY DEF Efface, Ligne

\* A wrong try writes nothing in the column of the code, or null.
LEMMA ApresEchecTypee ==
    ASSUME NEW l \in Ligne
    PROVE  ApresEchec(l) \in Ligne /\ ApresEchec(l).code \in {0, l.code}
<1>1. [l EXCEPT !.echecs = @ + 1] \in Ligne /\ [l EXCEPT !.echecs = @ + 1].code = l.code
  BY DEF Ligne
<1>2. QED
  BY <1>1, EffaceTypee DEF ApresEchec

\* A save keeps, in each column, the value of the row unless the caller changed it.
LEMMA EnregistrerTypee ==
    ASSUME ligne \in Ligne, NEW lue \in Ligne, NEW v \in Ligne
    PROVE  /\ Enregistrer(lue, v) \in Ligne
           /\ Enregistrer(lue, v).code = IF v.code = lue.code THEN ligne.code ELSE v.code
<1>1. DOMAIN ligne = {"statut", "code", "pour", "par", "echecs"}
  BY DEF Ligne
<1> DEFINE e == Enregistrer(lue, v)
<1>2. /\ e.statut = IF v.statut = lue.statut THEN ligne.statut ELSE v.statut
      /\ e.code = IF v.code = lue.code THEN ligne.code ELSE v.code
      /\ e.pour = IF v.pour = lue.pour THEN ligne.pour ELSE v.pour
      /\ e.par = IF v.par = lue.par THEN ligne.par ELSE v.par
      /\ e.echecs = IF v.echecs = lue.echecs THEN ligne.echecs ELSE v.echecs
  BY <1>1 DEF Enregistrer
<1>3. e = [statut |-> e.statut, code |-> e.code, pour |-> e.pour, par |-> e.par,
           echecs |-> e.echecs]
  BY <1>1 DEF Enregistrer
<1>4. /\ e.statut \in Statuts /\ e.code \in Nat /\ e.pour \in EvenementsDeRemise \cup {"aucun"}
      /\ e.par \in Acteurs \cup {Personne} /\ e.echecs \in Nat
  <2> HIDE DEF e
  <2>1. QED
    BY <1>2 DEF Ligne
<1>5. e \in Ligne
  <2> HIDE DEF e
  <2>1. QED
    BY <1>3, <1>4 DEF Ligne
<1>6. QED
  BY <1>2, <1>5

-----------------------------------------------------------------------------
(* Steps *)

LEMMA LibreFondee ==
    /\ \A du : Fondee(Libre, du)
    /\ \A k : ~Tient(Libre, k)
    /\ Libre \notin Requete
  BY DEF Libre, Fondee, Tient, Requete

\* What a request in flight holds.
LEMMA RequeteTypee ==
    ASSUME RemiseTypee, NEW a \in Acteurs, requete[a].op # "libre"
    PROVE  requete[a] \in Requete /\ requete[a] # Libre
  BY DEF RemiseTypee, Libre, Requete

\* A request that was not touched remains what it was.
LEMMA RequetesApres ==
    ASSUME IInv, NEW a \in Acteurs, NEW q \in Requete \cup {Libre}, Poser(a, q), due' = due,
           Fondee(q, due), Len(affiches') >= Len(affiches), Len(affiches') \in Nat,
           q # Libre => q.lue.code <= Len(affiches')
    PROVE  /\ requete' \in [Acteurs -> Requete \cup {Libre}]
           /\ requete'[a] = q /\ \A b \in Acteurs \ {a} : requete'[b] = requete[b]
           /\ RequetesFondees'
           /\ \A b \in Acteurs : requete'[b] # Libre => requete'[b].lue.code <= Len(affiches')
<1>1. /\ requete' = [requete EXCEPT ![a] = q]
      /\ requete \in [Acteurs -> Requete \cup {Libre}]
  BY DEF Poser, IInv, RemiseTypee
<1>2. requete'[a] = q /\ \A b \in Acteurs \ {a} : requete'[b] = requete[b]
  BY <1>1
<1>3. requete' \in [Acteurs -> Requete \cup {Libre}]
  BY <1>1
<1>4. \A b \in Acteurs : Fondee(requete'[b], due')
  BY <1>2 DEF IInv, RequetesFondees
<1>5. ASSUME NEW b \in Acteurs, requete'[b] # Libre
      PROVE  requete'[b].lue.code <= Len(affiches')
  <2>1. CASE b = a
    BY <2>1, <1>2, <1>5
  <2>2. CASE b # a
    <3>1. requete[b].lue.code <= Len(affiches) /\ requete[b].lue.code \in Nat
      BY <2>2, <1>1, <1>2, <1>5 DEF IInv, CodesAffiches, Requete, Ligne
    <3>2. Len(affiches) \in Nat
      BY DEF IInv, RemiseTypee
    <3>3. QED
      BY <3>1, <3>2, <2>2, <1>2
  <2>3. QED
    BY <2>1, <2>2
<1>6. QED
  BY <1>2, <1>3, <1>4, <1>5 DEF RequetesFondees

\* A step in which no code moves, but for the one on the row that may be erased.
LEMMA SansCode ==
    ASSUME IInv, NEW a \in Acteurs, NEW q \in Requete \cup {Libre}, Poser(a, q),
           ligne' \in Ligne, ligne'.code \in {0, ligne.code},
           UNCHANGED <<affiches, expires, due, remises>>, Fondee(q, due),
           q # Libre => q.lue.code <= Len(affiches),
           \A k \in Nat \ {0} : Tient(q, k) => Tient(requete[a], k)
    PROVE  IInv'
<1>0. Len(affiches) \in Nat
  BY DEF IInv, RemiseTypee
<1>1. /\ requete' \in [Acteurs -> Requete \cup {Libre}]
      /\ requete'[a] = q /\ \A b \in Acteurs \ {a} : requete'[b] = requete[b]
      /\ RequetesFondees'
      /\ \A b \in Acteurs : requete'[b] # Libre => requete'[b].lue.code <= Len(affiches')
  BY <1>0, RequetesApres
<1>2. \A b \in Acteurs, k \in Nat \ {0} : Tient(requete'[b], k) => Tient(requete[b], k)
  BY <1>1
<1>3. UneSeulePlace'
  <2> SUFFICES ASSUME NEW k \in Nat \ {0}
               PROVE  /\ ligne'.code = k => ~Servi(k) /\ \A b \in Acteurs : ~Tient(requete'[b], k)
                      /\ \A b \in Acteurs : Tient(requete'[b], k) =>
                            ~Servi(k) /\ \A d \in Acteurs : Tient(requete'[d], k) => b = d
    BY DEF UneSeulePlace, Servi, Tient
  <2>1. ligne'.code = k => ligne.code = k
    OBVIOUS
  <2>2. QED
    BY <2>1, <1>2 DEF IInv, UneSeulePlace
<1>4. CodesAffiches'
  BY <1>0, <1>1 DEF IInv, CodesAffiches
<1>5. RemiseTypee' /\ UnCodeUneRemise'
  BY <1>1 DEF IInv, RemiseTypee, UnCodeUneRemise
<1>6. QED
  BY <1>1, <1>3, <1>4, <1>5 DEF IInv

\* The row a display wants: a new code, for the event, by the agent.
Affichee(l, k, e, b) == [l EXCEPT !.code = k, !.pour = e, !.par = b, !.echecs = 0]

LEMMA AfficheeTypee ==
    ASSUME NEW l \in Ligne, NEW k \in Nat, NEW e \in EvenementsDeRemise, NEW b \in Acteurs
    PROVE  Affichee(l, k, e, b) \in Ligne /\ Affichee(l, k, e, b).code = k
  BY DEF Affichee, Ligne

\* The code that is displayed is new: nobody holds it and it has served nothing.
LEMMA AfficherTenu ==
    ASSUME IInv, NEW a \in Agents, AfficherCode(a)
    PROVE  IInv' /\ (ligne.code # 0 => ligne'.code >= ligne.code)
<1> DEFINE r == requete[a]
           rang == Len(affiches) + 1
           v == Affichee(r.lue, rang, r.evenement, a)
<1>0. a \in Acteurs
  BY DEF Acteurs
<1>1. r \in Requete /\ r # Libre /\ r.op = "generation"
  BY <1>0, RequeteTypee DEF IInv, AfficherCode
<1>2. /\ r.lue \in Ligne /\ r.lue.code <= Len(affiches) /\ r.lue.code \in Nat
      /\ r.evenement \in EvenementsDeRemise
      /\ Len(affiches) \in Nat /\ ligne.code <= Len(affiches) /\ ligne.code \in Nat
  BY <1>0, <1>1 DEF IInv, CodesAffiches, RequetesFondees, Fondee, Requete, RemiseTypee, Ligne
<1>3. v \in Ligne /\ v.code = rang /\ rang \in Nat
  <2>1. rang \in Nat
    BY <1>2
  <2> HIDE DEF rang, r
  <2>2. QED
    BY <1>0, <1>2, <2>1, AfficheeTypee
<1>4. /\ ligne' = Enregistrer(r.lue, v)
      /\ affiches' = Append(affiches, [pour |-> r.evenement, par |-> a])
      /\ Poser(a, Libre) /\ UNCHANGED <<expires, due, remises>>
  BY DEF AfficherCode, Affichee
<1>5. ligne' \in Ligne /\ ligne'.code = rang
  <2> HIDE DEF v, r
  <2>1. ligne \in Ligne
    BY DEF IInv, RemiseTypee
  <2>2. QED
    BY <2>1, <1>2, <1>3, <1>4, EnregistrerTypee
<1>6. /\ affiches' \in Seq([pour : EvenementsDeRemise, par : Agents])
      /\ Len(affiches') = rang
  BY <1>2, <1>4 DEF IInv, RemiseTypee
<1>7. /\ requete' \in [Acteurs -> Requete \cup {Libre}]
      /\ requete'[a] = Libre /\ \A b \in Acteurs \ {a} : requete'[b] = requete[b]
      /\ RequetesFondees'
      /\ \A b \in Acteurs : requete'[b] # Libre => requete'[b].lue.code <= Len(affiches')
  BY <1>0, <1>2, <1>3, <1>4, <1>6, LibreFondee, RequetesApres
<1>8. \A b \in Acteurs, k \in Nat : Tient(requete'[b], k) => Tient(requete[b], k) /\ k # rang
  <2> SUFFICES ASSUME NEW b \in Acteurs, NEW k \in Nat, Tient(requete'[b], k)
               PROVE  Tient(requete[b], k) /\ k # rang
    OBVIOUS
  <2>1. b # a /\ requete'[b] = requete[b]
    BY <1>7, LibreFondee
  <2>2. requete[b] # Libre /\ requete[b].lue.code = k
    BY <2>1 DEF Tient, Libre
  <2>3. k <= Len(affiches)
    BY <2>2 DEF IInv, CodesAffiches
  <2>4. QED
    BY <2>1, <2>3, <1>2
<1>9. \A i \in DOMAIN remises : remises[i] \in Nat /\ remises[i] <= Len(affiches)
  BY DEF IInv, RemiseTypee, CodesAffiches
<1>10. UneSeulePlace'
  <2> SUFFICES ASSUME NEW k \in Nat \ {0}
               PROVE  /\ ligne'.code = k =>
                            ~Servi(k)' /\ \A b \in Acteurs : ~Tient(requete'[b], k)
                      /\ \A b \in Acteurs : Tient(requete'[b], k) =>
                            ~Servi(k)' /\ \A d \in Acteurs : Tient(requete'[d], k) => b = d
    BY DEF UneSeulePlace, Tient, Servi
  <2>1. Servi(k)' <=> Servi(k)
    BY <1>4 DEF Servi
  <2>2. k = rang => ~Servi(k)
    BY <1>2, <1>9 DEF Servi
  <2>3. QED
    BY <2>1, <2>2, <1>5, <1>8 DEF IInv, UneSeulePlace
<1>11. CodesAffiches'
  BY <1>2, <1>4, <1>5, <1>6, <1>7, <1>9 DEF CodesAffiches
<1>12. RemiseTypee' /\ UnCodeUneRemise'
  BY <1>4, <1>5, <1>6, <1>7 DEF IInv, RemiseTypee, UnCodeUneRemise
<1>13. QED
  BY <1>2, <1>5, <1>7, <1>10, <1>11, <1>12 DEF IInv

\* The code passes from the row to the submission, by the conditional UPDATE.
LEMMA ConsommerTenu ==
    ASSUME IInv, NEW a \in Saisies, Consommer(a)
    PROVE  IInv'
<1> DEFINE r == requete[a]
           q == [r EXCEPT !.op = "consomme", !.lue.echecs = 0]
<1>0. a \in Acteurs
  BY DEF Acteurs
<1>1. r \in Requete /\ r # Libre /\ r.op = "confirmation" /\ r.verifie
  BY <1>0, RequeteTypee DEF IInv, Consommer
<1>2. /\ r.lue \in Ligne /\ r.lue.code <= Len(affiches) /\ r.lue.code \in Nat \ {0}
      /\ Fondee(r, due) /\ Len(affiches) \in Nat /\ ligne \in Ligne
  <2>1. Fondee(r, due)
    BY <1>0 DEF IInv, RequetesFondees
  <2>2. r.lue.code # 0
    BY <1>1, <2>1 DEF Fondee
  <2>3. QED
    BY <1>0, <1>1, <2>1, <2>2 DEF IInv, CodesAffiches, Requete, RemiseTypee, Ligne
<1>3. /\ q \in Requete /\ q.op = "consomme" /\ q.lue.code = r.lue.code
      /\ q.evenement = r.evenement /\ q.verifie = r.verifie /\ q.passeOutre = r.passeOutre
      /\ q.rouverte = r.rouverte
  <2>1. [r.lue EXCEPT !.echecs = 0] \in Ligne /\ [r.lue EXCEPT !.echecs = 0].code = r.lue.code
    BY <1>2 DEF Ligne
  <2>2. q = [r EXCEPT !.op = "consomme", !.lue = [r.lue EXCEPT !.echecs = 0]]
    BY <1>1 DEF Requete
  <2>3. QED
    BY <2>1, <2>2, <1>1 DEF Requete
<1>4. /\ ligne' = Efface(ligne) /\ ligne.code = r.lue.code
      /\ Poser(a, q) /\ UNCHANGED <<affiches, expires, due, remises>>
  BY DEF Consommer, EncoreCeCode
<1>5. ligne' \in Ligne /\ ligne'.code = 0
  BY <1>2, <1>4, EffaceTypee
<1>6. Fondee(q, due)
  BY <1>1, <1>2, <1>3 DEF Fondee
<1> HIDE DEF q
<1>7. /\ requete' \in [Acteurs -> Requete \cup {Libre}]
      /\ requete'[a] = q /\ \A b \in Acteurs \ {a} : requete'[b] = requete[b]
      /\ RequetesFondees'
      /\ \A b \in Acteurs : requete'[b] # Libre => requete'[b].lue.code <= Len(affiches')
  BY <1>0, <1>2, <1>3, <1>4, <1>6, RequetesApres
<1>8. UneSeulePlace'
  <2> SUFFICES ASSUME NEW k \in Nat \ {0}
               PROVE  \A b \in Acteurs : Tient(requete'[b], k) =>
                            ~Servi(k) /\ \A d \in Acteurs : Tient(requete'[d], k) => b = d
    BY <1>4, <1>5 DEF UneSeulePlace, Tient, Servi
  <2>1. CASE k = ligne.code
    <3>1. ~Servi(k) /\ \A b \in Acteurs : ~Tient(requete[b], k)
      BY <2>1 DEF IInv, UneSeulePlace
    <3>2. QED
      BY <3>1, <1>7
  <2>2. CASE k # ligne.code
    <3>1. ~Tient(q, k)
      BY <2>2, <1>3, <1>4 DEF Tient
    <3>2. QED
      BY <3>1, <1>7 DEF IInv, UneSeulePlace
  <2>3. QED
    BY <2>1, <2>2
<1>9. CodesAffiches'
  BY <1>2, <1>4, <1>5, <1>7 DEF IInv, CodesAffiches
<1>10. RemiseTypee' /\ UnCodeUneRemise'
  BY <1>4, <1>5, <1>7 DEF IInv, RemiseTypee, UnCodeUneRemise
<1>11. QED
  BY <1>7, <1>8, <1>9, <1>10 DEF IInv

\* The code returns to the row when none is there, and is lost otherwise.
LEMMA RestaurerTenu ==
    ASSUME IInv, NEW a \in Saisies, Restaurer(a)
    PROVE  IInv' /\ (ligne.code # 0 => ligne'.code = ligne.code)
<1> DEFINE r == requete[a]
<1>0. a \in Acteurs
  BY DEF Acteurs
<1>1. r \in Requete /\ r # Libre /\ r.op = "restauration"
  BY <1>0, RequeteTypee DEF IInv, Restaurer
<1>2. /\ r.lue \in Ligne /\ r.lue.code <= Len(affiches) /\ r.lue.code \in Nat \ {0}
      /\ r.evenement \in EvenementsDeRemise
      /\ Len(affiches) \in Nat /\ ligne \in Ligne
  BY <1>0, <1>1 DEF IInv, CodesAffiches, RequetesFondees, Fondee, Requete, RemiseTypee, Ligne
<1>3. /\ ligne' = IF ligne.code = 0
                  THEN [ligne EXCEPT !.code = r.lue.code, !.pour = r.evenement, !.par = r.lue.par]
                  ELSE ligne
      /\ Poser(a, Libre) /\ UNCHANGED <<affiches, expires, due, remises>>
  BY DEF Restaurer, PlaceLibre
<1>4. /\ ligne' \in Ligne
      /\ ligne'.code = IF ligne.code = 0 THEN r.lue.code ELSE ligne.code
  BY <1>2, <1>3 DEF Ligne
<1>5. /\ requete' \in [Acteurs -> Requete \cup {Libre}]
      /\ requete'[a] = Libre /\ \A b \in Acteurs \ {a} : requete'[b] = requete[b]
      /\ RequetesFondees'
      /\ \A b \in Acteurs : requete'[b] # Libre => requete'[b].lue.code <= Len(affiches')
  BY <1>0, <1>2, <1>3, LibreFondee, RequetesApres
<1>6. Tient(r, r.lue.code)
  BY <1>1 DEF Tient
<1>7. UneSeulePlace'
  <2> SUFFICES ASSUME NEW k \in Nat \ {0}
               PROVE  /\ ligne'.code = k => ~Servi(k) /\ \A b \in Acteurs : ~Tient(requete'[b], k)
                      /\ \A b \in Acteurs : Tient(requete'[b], k) =>
                            ~Servi(k) /\ \A d \in Acteurs : Tient(requete'[d], k) => b = d
    BY <1>3 DEF UneSeulePlace, Tient, Servi
  <2>1. \A b \in Acteurs : Tient(requete'[b], k) => b # a /\ Tient(requete[b], k)
    BY <1>5, LibreFondee
  <2>2. CASE ligne'.code = k /\ ligne.code = 0
    <3>1. Tient(requete[a], k)
      BY <2>2, <1>4, <1>6
    <3>2. ~Servi(k) /\ \A b \in Acteurs : Tient(requete[b], k) => b = a
      BY <3>1, <1>0 DEF IInv, UneSeulePlace
    <3>3. QED
      BY <3>2, <2>1
  <2>3. CASE ligne'.code # k \/ ligne.code # 0
    <3>1. ligne'.code = k => ligne.code = k
      BY <2>3, <1>4
    <3>2. QED
      BY <3>1, <2>1 DEF IInv, UneSeulePlace
  <2>4. QED
    BY <2>2, <2>3
<1>8. CodesAffiches'
  BY <1>2, <1>3, <1>4, <1>5 DEF IInv, CodesAffiches
<1>9. RemiseTypee' /\ UnCodeUneRemise'
  BY <1>3, <1>4, <1>5 DEF IInv, RemiseTypee, UnCodeUneRemise
<1>10. QED
  BY <1>4, <1>5, <1>7, <1>8, <1>9 DEF IInv

\* A hand-over spends the code its submission holds, or none at the counter; and whoever
\* hands over has checked the settlement.
LEMMA RemettreTenu ==
    ASSUME Hypotheses, IInv, NEW a \in Acteurs, EnregistrerRemise(a)
    PROVE  IInv' /\ CodePlusRecent /\ RemiseApresReglement
<1> DEFINE r == requete[a]
           k == IF r.op = "consomme" THEN r.lue.code ELSE 0
<1>1. r \in Requete /\ r # Libre /\ r.op \in {"consomme", "comptoir"}
  BY RequeteTypee DEF IInv, EnregistrerRemise
<1>2. Fondee(r, due) /\ r.verifie
  BY <1>1 DEF IInv, RequetesFondees, Fondee, EnregistrerRemise
<1>3. /\ r.lue.code <= Len(affiches) /\ r.lue.code \in Nat
      /\ r.evenement \in EvenementsDeRemise
      /\ Len(affiches) \in Nat /\ ligne \in Ligne
  BY <1>1, <1>2 DEF IInv, CodesAffiches, Fondee, Requete, RemiseTypee, Ligne
<1>4. k \in Nat /\ k <= Len(affiches) /\ (k # 0 => Tient(r, k))
  BY <1>1, <1>3 DEF Tient
<1>5. /\ ligne' = [ligne EXCEPT !.statut = StatutInduit[r.evenement]]
      /\ remises' = Append(remises, k)
      /\ Poser(a, Libre) /\ UNCHANGED <<affiches, expires, due>>
  BY DEF EnregistrerRemise
<1>6. ligne' \in Ligne /\ ligne'.code = ligne.code
  BY <1>3, <1>5, TableDesRemises DEF Ligne
<1> HIDE DEF k
<1>7. /\ requete' \in [Acteurs -> Requete \cup {Libre}]
      /\ requete'[a] = Libre /\ \A b \in Acteurs \ {a} : requete'[b] = requete[b]
      /\ RequetesFondees'
      /\ \A b \in Acteurs : requete'[b] # Libre => requete'[b].lue.code <= Len(affiches')
  BY <1>3, <1>5, LibreFondee, RequetesApres
<1>8. /\ remises \in Seq(Nat) /\ remises' \in Seq(Nat)
      /\ DOMAIN remises' = DOMAIN remises \cup {Len(remises) + 1}
      /\ remises'[Len(remises) + 1] = k
      /\ \A i \in DOMAIN remises : remises'[i] = remises[i] /\ i # Len(remises) + 1
  BY <1>4, <1>5 DEF IInv, RemiseTypee
<1>9. \A m \in Nat \ {0} : Servi(m)' <=> Servi(m) \/ m = k
  BY <1>8 DEF Servi
<1>10. k # 0 => ~Servi(k) /\ ligne.code # k /\ \A b \in Acteurs : Tient(requete[b], k) => b = a
  BY <1>4 DEF IInv, UneSeulePlace
<1>11. UneSeulePlace'
  <2> SUFFICES ASSUME NEW m \in Nat \ {0}
               PROVE  /\ ligne'.code = m =>
                            ~Servi(m)' /\ \A b \in Acteurs : ~Tient(requete'[b], m)
                      /\ \A b \in Acteurs : Tient(requete'[b], m) =>
                            ~Servi(m)' /\ \A d \in Acteurs : Tient(requete'[d], m) => b = d
    BY DEF UneSeulePlace, Tient, Servi
  <2>1. \A b \in Acteurs : Tient(requete'[b], m) => b # a /\ Tient(requete[b], m)
    BY <1>7, LibreFondee
  <2>2. CASE m = k
    BY <2>1, <2>2, <1>6, <1>10
  <2>3. CASE m # k
    BY <2>1, <2>3, <1>6, <1>9 DEF IInv, UneSeulePlace
  <2>4. QED
    BY <2>2, <2>3
<1>12. UnCodeUneRemise'
  <2> SUFFICES ASSUME NEW i \in DOMAIN remises', NEW j \in DOMAIN remises',
                      remises'[i] = remises'[j], remises'[i] # 0
               PROVE  i = j
    BY DEF UnCodeUneRemise
  <2>1. CASE i \in DOMAIN remises /\ j \in DOMAIN remises
    BY <2>1, <1>8 DEF IInv, UnCodeUneRemise
  <2>2. CASE i \in DOMAIN remises /\ j \notin DOMAIN remises
    BY <2>2, <1>8, <1>10 DEF Servi
  <2>3. CASE i \notin DOMAIN remises /\ j \in DOMAIN remises
    BY <2>3, <1>8, <1>10 DEF Servi
  <2>4. CASE i \notin DOMAIN remises /\ j \notin DOMAIN remises
    BY <2>4, <1>8
  <2>5. QED
    BY <2>1, <2>2, <2>3, <2>4
<1>13. CodesAffiches'
  <2>1. \A i \in DOMAIN remises' : remises'[i] <= Len(affiches)
    BY <1>4, <1>8 DEF IInv, CodesAffiches
  <2>2. QED
    BY <2>1, <1>5, <1>6, <1>7 DEF IInv, CodesAffiches
<1>14. RemiseTypee'
  BY <1>5, <1>6, <1>7, <1>8 DEF IInv, RemiseTypee
<1>15. CodePlusRecent
  BY <1>3, <1>6 DEF CodePlusRecent, Ligne
<1>16. RemiseApresReglement
  BY <1>1, <1>2, <1>7 DEF RemiseApresReglement, Fondee
<1>17. QED
  BY <1>7, <1>11, <1>12, <1>13, <1>14, <1>15, <1>16 DEF IInv

\* An invoice becomes due, or is settled: who has checked already is marked.
LEMMA FacturerTenu ==
    ASSUME IInv, NEW d \in BOOLEAN, Facturer(d)
    PROVE  IInv'
<1> DEFINE vise(a) == /\ d /\ requete[a].op \in {"confirmation", "consomme", "comptoir"}
                      /\ requete[a].verifie /\ ~requete[a].passeOutre
<1>1. /\ due' = d /\ UNCHANGED <<ligne, affiches, expires, remises>>
      /\ requete' = [a \in Acteurs |-> IF vise(a) THEN [requete[a] EXCEPT !.rouverte = TRUE]
                                       ELSE requete[a]]
  BY DEF Facturer
<1>2. ASSUME NEW a \in Acteurs
      PROVE  /\ requete'[a] \in Requete \cup {Libre}
             /\ (requete'[a] = Libre) <=> (requete[a] = Libre)
             /\ requete'[a].op = requete[a].op
             /\ requete'[a] # Libre => requete'[a].lue = requete[a].lue
             /\ Fondee(requete'[a], d)
  <2>1. Fondee(requete[a], due)
    BY DEF IInv, RequetesFondees
  <2>2. CASE vise(a)
    <3>1. requete[a] \in Requete /\ requete[a] # Libre
      BY <2>2, RequeteTypee DEF IInv
    <3> DEFINE q == [requete[a] EXCEPT !.rouverte = TRUE]
    <3>2. /\ q \in Requete /\ q.op = requete[a].op /\ q.lue = requete[a].lue
          /\ q.evenement = requete[a].evenement /\ q.verifie = requete[a].verifie
          /\ q.rouverte = TRUE
      BY <3>1 DEF Requete
    <3>3. requete'[a] = q
      BY <1>1, <2>2
    <3> HIDE DEF q
    <3>4. Fondee(q, d)
      BY <2>1, <3>2 DEF Fondee
    <3>5. QED
      BY <3>1, <3>2, <3>3, <3>4, LibreFondee
  <2>3. CASE ~vise(a)
    <3>1. requete'[a] = requete[a]
      BY <1>1, <2>3
    <3>2. Fondee(requete[a], d)
      BY <2>1, <2>3 DEF Fondee
    <3>3. QED
      BY <3>1, <3>2 DEF IInv, RemiseTypee
  <2>4. QED
    BY <2>2, <2>3
<1>3. RemiseTypee'
  BY <1>1, <1>2 DEF IInv, RemiseTypee
<1>4. RequetesFondees'
  BY <1>1, <1>2 DEF RequetesFondees
<1>5. CodesAffiches'
  BY <1>1, <1>2 DEF IInv, CodesAffiches
<1>6. \A a \in Acteurs, k \in Nat : Tient(requete'[a], k) => Tient(requete[a], k)
  BY <1>2 DEF Tient, Libre
<1>7. UneSeulePlace'
  BY <1>1, <1>6 DEF IInv, UneSeulePlace, Servi
<1>8. QED
  BY <1>1, <1>3, <1>4, <1>5, <1>7 DEF IInv, UnCodeUneRemise

-----------------------------------------------------------------------------
(* The invariant *)

LEMMA InitIInv == Hypotheses /\ Init => IInv
<1> SUFFICES ASSUME Hypotheses, Init PROVE IInv
  OBVIOUS
<1>1. RemiseTypee
  <2>1. ligne \in Ligne
    BY TableDesRemises DEF Init, Ligne
  <2>2. QED
    BY <2>1 DEF Init, RemiseTypee
<1>2. RequetesFondees
  BY LibreFondee DEF Init, RequetesFondees
<1>3. CodesAffiches /\ UnCodeUneRemise
  BY DEF Init, CodesAffiches, UnCodeUneRemise
<1>4. UneSeulePlace
  BY LibreFondee DEF Init, UneSeulePlace, Servi
<1>5. QED
  BY <1>1, <1>2, <1>3, <1>4 DEF IInv

\* The steps of the requests that move no code, but for the one they may erase.
LEMMA PasDesRequetes ==
    ASSUME Hypotheses, IInv, NEW a \in Acteurs,
           \/ a \in Agents /\ LireGeneration(a)
           \/ a \in Agents /\ \E e \in EvenementsDeRemise, o \in BOOLEAN : LireComptoir(a, e, o)
           \/ a \in Saisies /\ \E k \in Rangs : LireSaisie(a, k)
           \/ a \in Saisies /\ (NoterEchec(a) \/ Effacer(a) \/ EchouerRemise(a))
           \/ VerifierReglement(a) \/ Abandonner(a)
    PROVE  IInv' /\ CodePlusRecent /\ UNCHANGED remises
<1>t. /\ ligne \in Ligne /\ ligne.code \in Nat /\ ligne.code <= Len(affiches)
      /\ expires \in Nat /\ Len(affiches) \in Nat
  BY DEF IInv, RemiseTypee, Ligne, CodesAffiches
<1>r. \A b \in Acteurs : requete[b] # Libre =>
         requete[b].lue.code <= Len(affiches) /\ requete[b].lue \in Ligne
  BY DEF IInv, CodesAffiches, RemiseTypee, Requete
<1>f. Fondee(requete[a], due)
  BY DEF IInv, RequetesFondees
<1> SUFFICES \E q \in Requete \cup {Libre} :
                /\ Poser(a, q) /\ ligne' \in Ligne /\ ligne'.code \in {0, ligne.code}
                /\ UNCHANGED <<affiches, expires, due, remises>> /\ Fondee(q, due)
                /\ q # Libre => q.lue.code <= Len(affiches)
                /\ \A k \in Nat \ {0} : Tient(q, k) => Tient(requete[a], k)
  <2>1. PICK q \in Requete \cup {Libre} :
                /\ Poser(a, q) /\ ligne' \in Ligne /\ ligne'.code \in {0, ligne.code}
                /\ UNCHANGED <<affiches, expires, due, remises>> /\ Fondee(q, due)
                /\ q # Libre => q.lue.code <= Len(affiches)
                /\ \A k \in Nat \ {0} : Tient(q, k) => Tient(requete[a], k)
    OBVIOUS
  <2>2. IInv'
    BY <2>1, SansCode
  <2>3. CodePlusRecent
    BY <2>1, <1>t DEF CodePlusRecent
  <2>4. QED
    BY <2>1, <2>2, <2>3
<1>1. CASE LireGeneration(a)
  <2>1. EvenementDe(ligne.statut) \in EvenementsDeRemise
    BY <1>1, TableDesRemises DEF LireGeneration, EvenementDe
  <2> DEFINE q == Lecture("generation", EvenementDe(ligne.statut), FALSE)
  <2>2. /\ q \in Requete /\ q.op = "generation" /\ q.evenement \in EvenementsDeRemise
        /\ q.lue.code <= Len(affiches)
    BY <2>1, <1>t DEF Lecture, Requete
  <2>3. Poser(a, q) /\ UNCHANGED <<ligne, affiches, expires, due, remises>>
    BY <1>1 DEF LireGeneration
  <2> HIDE DEF q
  <2>4. Fondee(q, due) /\ \A k : ~Tient(q, k)
    BY <2>2 DEF Fondee, Tient
  <2>5. QED
    BY <2>2, <2>3, <2>4, <1>t
<1>2. ASSUME NEW e \in EvenementsDeRemise, NEW o \in BOOLEAN, LireComptoir(a, e, o)
      PROVE  \E q \in Requete \cup {Libre} :
                /\ Poser(a, q) /\ ligne' \in Ligne /\ ligne'.code \in {0, ligne.code}
                /\ UNCHANGED <<affiches, expires, due, remises>> /\ Fondee(q, due)
                /\ q # Libre => q.lue.code <= Len(affiches)
                /\ \A k \in Nat \ {0} : Tient(q, k) => Tient(requete[a], k)
  <2> DEFINE p == Lecture("comptoir", e, o)
             q == [p EXCEPT !.lue = Efface(@)]
  <2>1. p \in Requete /\ p.op = "comptoir" /\ p.evenement = e /\ ~p.verifie
    BY <1>t DEF Lecture, Requete
  <2>2. Poser(a, q) /\ UNCHANGED <<ligne, affiches, expires, due, remises>>
    BY <1>2 DEF LireComptoir
  <2> HIDE DEF p
  <2>3. p.lue \in Ligne
    BY <2>1 DEF Requete
  <2>4. Efface(p.lue) \in Ligne /\ Efface(p.lue).code = 0
    BY <2>3, EffaceTypee
  <2>5. /\ q \in Requete /\ q.op = "comptoir" /\ q.evenement = e /\ ~q.verifie
        /\ q.lue.code = 0
    BY <2>1, <2>4 DEF Requete
  <2> HIDE DEF q
  <2>6. Fondee(q, due) /\ \A k : ~Tient(q, k)
    BY <2>5 DEF Fondee, Tient
  <2>7. QED
    BY <2>2, <2>5, <2>6, <1>t
<1>3. ASSUME NEW k \in Rangs, LireSaisie(a, k)
      PROVE  \E q \in Requete \cup {Libre} :
                /\ Poser(a, q) /\ ligne' \in Ligne /\ ligne'.code \in {0, ligne.code}
                /\ UNCHANGED <<affiches, expires, due, remises>> /\ Fondee(q, due)
                /\ q # Libre => q.lue.code <= Len(affiches)
                /\ \A m \in Nat \ {0} : Tient(q, m) => Tient(requete[a], m)
  <2>1. ligne.code # 0
    BY <1>3, <1>t DEF LireSaisie
  <2>2. UNCHANGED <<ligne, affiches, expires, due, remises>>
    BY <1>3 DEF LireSaisie
  <2>3. PICK op \in {"echec", "effacement", "confirmation"},
             e \in EvenementsDeRemise \cup {"aucun"} :
           /\ Poser(a, Lecture(op, e, FALSE))
           /\ op = "confirmation" => e \in EvenementsDeRemise
    <3>1. CASE k # ligne.code
      BY <3>1, <1>3 DEF LireSaisie
    <3>2. CASE k = ligne.code /\ EvenementDe(ligne.statut) # ligne.pour
      BY <3>2, <1>3 DEF LireSaisie
    <3>3. CASE k = ligne.code /\ EvenementDe(ligne.statut) = ligne.pour
      <4>1. ligne.pour \in EvenementsDeRemise
        BY <3>3, TableDesRemises, <1>t DEF EvenementDe, Ligne
      <4>2. QED
        BY <4>1, <3>3, <1>3 DEF LireSaisie
    <3>4. QED
      BY <3>1, <3>2, <3>3
  <2> DEFINE q == Lecture(op, e, FALSE)
  <2>4. /\ q \in Requete /\ q.op = op /\ q.evenement = e /\ ~q.verifie
        /\ q.lue.code <= Len(affiches) /\ q.lue.code = ligne.code
    BY <1>t DEF Lecture, Requete
  <2>5. Poser(a, q)
    BY <2>3
  <2> HIDE DEF q
  <2>6. Fondee(q, due) /\ \A m : ~Tient(q, m)
    BY <2>1, <2>3, <2>4 DEF Fondee, Tient
  <2>7. QED
    BY <2>2, <2>4, <2>5, <2>6, <1>t
<1>4. CASE NoterEchec(a) \/ Effacer(a)
  <2> DEFINE r == requete[a]
  <2>1. r \in Requete /\ r # Libre /\ r.op \in {"echec", "effacement"}
    BY <1>4, RequeteTypee DEF IInv, NoterEchec, Effacer
  <2>2. r.lue \in Ligne /\ r.lue.code # 0
    BY <2>1, <1>r, <1>f DEF Fondee
  <2>3. PICK v \in Ligne : v.code \in {0, r.lue.code} /\ ligne' = Enregistrer(r.lue, v)
    BY <1>4, <2>2, ApresEchecTypee, EffaceTypee DEF NoterEchec, Effacer
  <2>4. ligne' \in Ligne /\ ligne'.code \in {0, ligne.code}
    BY <2>2, <2>3, <1>t, EnregistrerTypee
  <2>5. Poser(a, Libre) /\ UNCHANGED <<affiches, expires, due, remises>>
    BY <1>4 DEF NoterEchec, Effacer
  <2>6. QED
    BY <2>4, <2>5, LibreFondee
<1>5. CASE EchouerRemise(a)
  <2> DEFINE r == requete[a]
             q == [r EXCEPT !.op = "restauration", !.rouverte = FALSE]
  <2>1. r \in Requete /\ r # Libre /\ r.op = "consomme"
    BY <1>5, RequeteTypee DEF IInv, EchouerRemise
  <2>2. /\ q \in Requete /\ q.op = "restauration" /\ q.lue = r.lue
        /\ q.evenement = r.evenement
    BY <2>1 DEF Requete
  <2>3. Poser(a, q) /\ UNCHANGED <<ligne, affiches, expires, due, remises>>
    BY <1>5 DEF EchouerRemise
  <2> HIDE DEF q
  <2>4. Fondee(q, due)
    BY <2>1, <2>2, <1>f DEF Fondee
  <2>5. q.lue.code <= Len(affiches) /\ \A k : Tient(q, k) => Tient(r, k)
    BY <2>1, <2>2, <1>r DEF Tient
  <2>6. QED
    BY <2>2, <2>3, <2>4, <2>5, <1>t
<1>6. CASE VerifierReglement(a)
  <2> DEFINE r == requete[a]
             q == [r EXCEPT !.verifie = TRUE]
  <2>1. /\ r \in Requete /\ r # Libre /\ r.op \in {"generation", "confirmation", "comptoir"}
        /\ ~due \/ r.passeOutre
    BY <1>6, RequeteTypee DEF IInv, VerifierReglement, Regle
  <2>2. /\ q \in Requete /\ q.op = r.op /\ q.lue = r.lue /\ q.evenement = r.evenement
        /\ q.passeOutre = r.passeOutre
    BY <2>1 DEF Requete
  <2>3. Poser(a, q) /\ UNCHANGED <<ligne, affiches, expires, due, remises>>
    BY <1>6 DEF VerifierReglement
  <2> HIDE DEF q
  <2>4. Fondee(q, due)
    BY <2>1, <2>2, <1>f DEF Fondee
  <2>5. q.lue.code <= Len(affiches) /\ \A k : ~Tient(q, k)
    BY <2>1, <2>2, <1>r DEF Tient
  <2>6. QED
    BY <2>2, <2>3, <2>4, <2>5, <1>t
<1>7. CASE Abandonner(a)
  BY <1>7, <1>t, LibreFondee DEF Abandonner
<1>8. QED
  BY <1>1, <1>2, <1>3, <1>4, <1>5, <1>6, <1>7

\* Every step keeps the invariant, and is one of those that RemiseReglee admits.
LEMMA NextIInv ==
    ASSUME Hypotheses, IInv, [Next]_vars
    PROVE  IInv' /\ CodePlusRecent /\ RemiseApresReglement
<1>t. ligne.code \in Nat /\ ligne \in Ligne
  BY DEF IInv, RemiseTypee, Ligne
<1>1. ASSUME NEW a \in Agents, AfficherCode(a)
      PROVE  IInv' /\ CodePlusRecent /\ UNCHANGED remises
  BY <1>1, AfficherTenu DEF CodePlusRecent, AfficherCode
<1>2. ASSUME NEW a \in Agents,
             LireGeneration(a) \/ \E e \in EvenementsDeRemise, o \in BOOLEAN : LireComptoir(a, e, o)
      PROVE  IInv' /\ CodePlusRecent /\ UNCHANGED remises
  BY <1>2, PasDesRequetes DEF Acteurs
<1>3. ASSUME NEW a \in Saisies,
             \/ \E k \in Rangs : LireSaisie(a, k)
             \/ NoterEchec(a) \/ Effacer(a) \/ EchouerRemise(a)
      PROVE  IInv' /\ CodePlusRecent /\ UNCHANGED remises
  BY <1>3, PasDesRequetes DEF Acteurs
<1>4. ASSUME NEW a \in Saisies, Consommer(a)
      PROVE  IInv' /\ CodePlusRecent /\ UNCHANGED remises
  <2>1. ligne'.code = 0
    BY <1>4, <1>t, EffaceTypee DEF Consommer
  <2>2. QED
    BY <1>4, <2>1, ConsommerTenu DEF CodePlusRecent, Consommer
<1>5. ASSUME NEW a \in Saisies, Restaurer(a)
      PROVE  IInv' /\ CodePlusRecent /\ UNCHANGED remises
  <2>1. IInv' /\ (ligne.code # 0 => ligne'.code = ligne.code)
    BY <1>5, RestaurerTenu
  <2>2. UNCHANGED remises
    BY <1>5 DEF Restaurer
  <2>3. QED
    BY <2>1, <2>2, <1>t DEF CodePlusRecent
<1>6. ASSUME NEW a \in Acteurs, VerifierReglement(a) \/ Abandonner(a)
      PROVE  IInv' /\ CodePlusRecent /\ UNCHANGED remises
  BY <1>6, PasDesRequetes
<1>7. ASSUME NEW a \in Acteurs, EnregistrerRemise(a)
      PROVE  IInv' /\ CodePlusRecent /\ RemiseApresReglement
  BY <1>7, RemettreTenu
<1>8. ASSUME ligne' \in Ligne, ligne'.code = ligne.code, expires' \in Nat,
             UNCHANGED <<affiches, due, remises, requete>>
      PROVE  IInv' /\ CodePlusRecent /\ UNCHANGED remises
  BY <1>8, <1>t DEF IInv, RemiseTypee, RequetesFondees, CodesAffiches, UneSeulePlace, Servi,
                    UnCodeUneRemise, CodePlusRecent
<1>9. ASSUME NEW code \in CodesAilleurs, EvenementAilleurs(code)
      PROVE  IInv' /\ CodePlusRecent /\ UNCHANGED remises
  <2>1. StatutVise(ligne.statut, code, "aucun") \in Statuts
    BY <1>t, StatutViseDansTable DEF Hypotheses, Ligne
  <2>2. /\ ligne' = [ligne EXCEPT !.statut = StatutVise(ligne.statut, code, "aucun")]
        /\ UNCHANGED <<affiches, expires, due, remises, requete>>
    BY <1>9 DEF EvenementAilleurs
  <2>3. ligne' \in Ligne /\ ligne'.code = ligne.code
    BY <2>1, <2>2, <1>t DEF Ligne
  <2>4. QED
    BY <2>2, <2>3, <1>8 DEF IInv, RemiseTypee
<1>10. ASSUME Expirer
       PROVE  IInv' /\ CodePlusRecent /\ UNCHANGED remises
  BY <1>10, <1>8, <1>t DEF Expirer, IInv, RemiseTypee
<1>11. ASSUME NEW d \in BOOLEAN, Facturer(d)
       PROVE  IInv' /\ CodePlusRecent /\ UNCHANGED remises
  BY <1>11, <1>t, FacturerTenu DEF Facturer, CodePlusRecent
<1>12. ASSUME UNCHANGED vars
       PROVE  IInv' /\ CodePlusRecent /\ UNCHANGED remises
  BY <1>12, <1>8, <1>t DEF vars, IInv, RemiseTypee
<1>13. UNCHANGED remises => RemiseApresReglement
  BY DEF RemiseApresReglement
<1>14. QED
  BY <1>1, <1>2, <1>3, <1>4, <1>5, <1>6, <1>7, <1>9, <1>10, <1>11, <1>12, <1>13 DEF Next

LEMMA Invariance == Hypotheses /\ Spec => []IInv
<1> SUFFICES ASSUME Hypotheses PROVE Spec => []IInv
  OBVIOUS
<1>1. Init => IInv
  BY InitIInv
<1>2. IInv /\ [Next]_vars => IInv'
  BY NextIInv
<1>3. QED
  BY <1>1, <1>2, PTL DEF Spec

\* No code hands the parcel over twice.
THEOREM CodesUsesUneFois == Hypotheses /\ Spec => []UnCodeUneRemise
<1>1. IInv => UnCodeUneRemise
  BY DEF IInv
<1>2. QED
  BY <1>1, Invariance, PTL

\* A code is replaced by more recent ones only, and a parcel that is not paid for is handed
\* over by those who may, or on the check of a settlement undone since.
THEOREM RemisesReglees == Hypotheses /\ Spec => RemiseReglee
<1> SUFFICES ASSUME Hypotheses PROVE Spec => RemiseReglee
  OBVIOUS
<1>1. Spec => []IInv
  BY Invariance
<1>2. IInv /\ [Next]_vars => [CodePlusRecent /\ RemiseApresReglement]_vars
  BY NextIInv
<1>3. QED
  BY <1>1, <1>2, PTL DEF Spec, RemiseReglee
=============================================================================
