--------------------------- MODULE RotationProofs ---------------------------
(***************************************************************************)
(* Proofs about Rotation, for any finite set of parcels, any rotations and *)
(* their capacities, any number of agents.                                 *)
(*                                                                         *)
(* The load is exact because every step that moves parcels also moves the  *)
(* counter, except on a cancelled rotation, which no step brings back; a   *)
(* milestone is propagated once because a rotation only goes forward from  *)
(* its departure on (Etage), so that the conditional UPDATE of a milestone *)
(* succeeds once.                                                          *)
(***************************************************************************)
EXTENDS Rotation, TLAPS, FiniteSetTheorems

Jalons == {"en_transit", "arrivee", "en_douane", "dechargee"}

\* How far a rotation is on its journey, 0 as long as it may still be loaded.
Etage == [planifiee |-> 0, ouverte |-> 0, cloturee |-> 0, annulee |-> 0,
          en_transit |-> 1, arrivee |-> 2, en_douane |-> 3, dechargee |-> 4]

\* The request has written the milestone x and is still propagating it.
Porte(q, x) ==
    \/ q.op = "jalonEcrit" /\ q.cible = x
    \/ q.op = "evenements" /\ q.code = EvenementDuJalon[x]

\* What a request in flight knows of its rotation, the rows being `lignes`.
Fondee(q, lignes) ==
    /\ q.op = "jalon" => q.cible \in TransitionsRotation[q.lu]
    /\ q.op = "jalonEcrit" => q.cible \in Jalons \cup {"annulee"}
    /\ q.op = "compteurs" \/ (q.op = "jalonEcrit" /\ q.cible = "annulee")
          => lignes[q.rot].statut = "annulee"
    /\ q.op = "evenements" =>
          q.code = "MANIFESTE" \/ \E x \in Jalons : q.code = EvenementDuJalon[x]
    /\ \A x \in Jalons : Porte(q, x) => Etage[x] <= Etage[lignes[q.rot].statut]

RequetesFondees == \A a \in Agents : Fondee(manoeuvre[a], rotation)

JalonUnique ==
    \A a, b \in Agents, x \in Jalons :
        Porte(manoeuvre[a], x) /\ Porte(manoeuvre[b], x) /\ manoeuvre[a].rot = manoeuvre[b].rot
            => a = b

IInv == TypeRotations /\ RequetesFondees /\ JalonUnique /\ ChargementJuste

-----------------------------------------------------------------------------
(* The tables *)

LEMMA TableDesRotations ==
    /\ StatutsRotation = {"planifiee", "ouverte", "cloturee", "annulee"} \cup Jalons
    /\ \A s \in StatutsRotation : TransitionsRotation[s] \subseteq StatutsRotation
    /\ TransitionsRotation["annulee"] = {}
    /\ \A s \in StatutsRotation : Etage[s] \in 0 .. 4
  BY DEF StatutsRotation, TransitionsRotation, Jalons, Etage

\* A rotation never goes back beyond its departure, and a milestone is a step forward.
LEMMA EtagesCroissants ==
    ASSUME NEW de \in StatutsRotation, NEW vers \in TransitionsRotation[de]
    PROVE  /\ Etage[de] <= Etage[vers]
           /\ vers \in Jalons => Etage[de] < Etage[vers]
  BY DEF StatutsRotation, TransitionsRotation, Jalons, Etage

LEMMA TableDesJalons ==
    /\ DOMAIN EvenementDuJalon = Jalons
    /\ \A x \in Jalons : EvenementDuJalon[x] \in DOMAIN StatutInduit \ {"MANIFESTE"}
    /\ \A x, y \in Jalons : EvenementDuJalon[x] = EvenementDuJalon[y] => x = y
    /\ "MANIFESTE" \in DOMAIN StatutInduit
  BY DEF EvenementDuJalon, Jalons, StatutInduit

LEMMA StatutViseDansTable ==
    ASSUME NEW s \in Statuts, NEW code \in DOMAIN StatutInduit
    PROVE  StatutVise(s, code, "aucun") \in Statuts
  BY DEF StatutVise, StatutInduit, Statuts, Transitions

-----------------------------------------------------------------------------
(* Requests *)

\* What a request in flight holds, from its kind.
LEMMA RequeteTypee ==
    ASSUME TypeRotations, NEW a \in Agents
    PROVE  /\ manoeuvre[a].op \in {"chargement", "dechargement"} => manoeuvre[a] \in ReqLot
           /\ manoeuvre[a].op \in {"jalon", "jalonEcrit", "compteurs"} => manoeuvre[a] \in ReqJalon
           /\ manoeuvre[a].op = "evenements" => manoeuvre[a] \in ReqEvenements
  BY DEF TypeRotations, Requete, SansManoeuvre, ReqLot, ReqJalon, ReqEvenements

\* A step that moves rotations forward only, and replaces one request by a founded one
\* that propagates nothing another request propagates, keeps the requests as they must be.
LEMMA RequetesApres ==
    ASSUME IInv, NEW a \in Agents, NEW q \in Requete, Poser(a, q),
           rotation' \in [Rotations -> LigneRotation],
           \A r \in Rotations :
              /\ Etage[rotation[r].statut] <= Etage[rotation'[r].statut]
              /\ rotation[r].statut = "annulee" => rotation'[r].statut = "annulee",
           Fondee(q, rotation'),
           \A x \in Jalons : Porte(q, x) =>
              \/ Porte(manoeuvre[a], x) /\ manoeuvre[a].rot = q.rot
              \/ \A b \in Agents : ~(Porte(manoeuvre[b], x) /\ manoeuvre[b].rot = q.rot)
    PROVE  /\ manoeuvre' \in [Agents -> Requete]
           /\ RequetesFondees'
           /\ JalonUnique'
<1>1. /\ manoeuvre' = [manoeuvre EXCEPT ![a] = q]
      /\ manoeuvre \in [Agents -> Requete]
  BY DEF Poser, IInv, TypeRotations
<1>2. manoeuvre' \in [Agents -> Requete]
  BY <1>1
<1>3. manoeuvre'[a] = q /\ \A b \in Agents \ {a} : manoeuvre'[b] = manoeuvre[b]
  BY <1>1
<1>4. RequetesFondees'
  <2> SUFFICES ASSUME NEW b \in Agents PROVE Fondee(manoeuvre'[b], rotation')
    BY DEF RequetesFondees
  <2>1. CASE b = a
    BY <2>1, <1>3
  <2>2. CASE b # a
    <3>1. manoeuvre'[b] = manoeuvre[b] /\ Fondee(manoeuvre[b], rotation)
      BY <2>2, <1>3 DEF IInv, RequetesFondees
    <3> DEFINE p == manoeuvre[b]
    <3>2. p.op \in {"jalonEcrit", "compteurs", "evenements"} => p.rot \in Rotations
      BY RequeteTypee DEF IInv, ReqJalon, ReqEvenements
    <3>3. p.op = "compteurs" \/ (p.op = "jalonEcrit" /\ p.cible = "annulee")
              => rotation'[p.rot].statut = "annulee"
      BY <3>1, <3>2 DEF Fondee
    <3>4. ASSUME NEW x \in Jalons, Porte(p, x)
          PROVE  Etage[x] <= Etage[rotation'[p.rot].statut]
      <4>1. p.rot \in Rotations
        BY <3>2, <3>4 DEF Porte
      <4>2. /\ rotation[p.rot].statut \in StatutsRotation
            /\ rotation'[p.rot].statut \in StatutsRotation
            /\ x \in StatutsRotation
        BY <4>1, TableDesRotations DEF IInv, TypeRotations, LigneRotation
      <4>3. Etage[x] <= Etage[rotation[p.rot].statut]
        BY <3>1, <3>4 DEF Fondee
      <4>4. Etage[rotation[p.rot].statut] <= Etage[rotation'[p.rot].statut]
        BY <4>1
      <4>5. QED
        BY <4>2, <4>3, <4>4, TableDesRotations
    <3>5. QED
      BY <3>1, <3>3, <3>4 DEF Fondee
  <2>3. QED
    BY <2>1, <2>2
<1>5. JalonUnique'
  <2> SUFFICES ASSUME NEW b \in Agents, NEW d \in Agents, NEW x \in Jalons,
                      Porte(manoeuvre'[b], x), Porte(manoeuvre'[d], x),
                      manoeuvre'[b].rot = manoeuvre'[d].rot
               PROVE  b = d
    BY DEF JalonUnique, Porte
  <2>1. CASE b # a /\ d # a
    BY <2>1, <1>3 DEF IInv, JalonUnique
  <2>2. CASE b = a /\ d # a
    BY <2>2, <1>3 DEF IInv, JalonUnique
  <2>3. CASE b # a /\ d = a
    BY <2>3, <1>3 DEF IInv, JalonUnique
  <2>4. QED
    BY <2>1, <2>2, <2>3
<1>6. QED
  BY <1>2, <1>4, <1>5

\* A step that leaves the rotations and what they carry as they are.
LEMMA SansMouvement ==
    ASSUME IInv, UNCHANGED <<rotation, bord>>, statut' \in [Cargaison -> Statuts],
           manoeuvre' \in [Agents -> Requete], RequetesFondees', JalonUnique'
    PROVE  IInv'
<1>1. TypeRotations'
  BY DEF IInv, TypeRotations
<1>2. ChargementJuste'
  BY DEF IInv, ChargementJuste, Passagers
<1>3. QED
  BY <1>1, <1>2 DEF IInv

\* The same, for a step that only replaces one request.
LEMMA Bureau ==
    ASSUME IInv, NEW a \in Agents, NEW q \in Requete, Poser(a, q),
           UNCHANGED <<rotation, bord>>, statut' \in [Cargaison -> Statuts],
           Fondee(q, rotation),
           \A x \in Jalons : Porte(q, x) => Porte(manoeuvre[a], x) /\ manoeuvre[a].rot = q.rot
    PROVE  IInv'
<1>1. rotation' \in [Rotations -> LigneRotation]
  BY DEF IInv, TypeRotations
<1>2. \A r \in Rotations :
         /\ Etage[rotation[r].statut] <= Etage[rotation'[r].statut]
         /\ rotation[r].statut = "annulee" => rotation'[r].statut = "annulee"
  <2> SUFFICES ASSUME NEW r \in Rotations
               PROVE  Etage[rotation[r].statut] <= Etage[rotation[r].statut]
    OBVIOUS
  <2>1. rotation[r].statut \in StatutsRotation
    BY DEF IInv, TypeRotations, LigneRotation
  <2>2. Etage[rotation[r].statut] \in 0 .. 4
    BY <2>1, TableDesRotations
  <2>3. QED
    BY <2>2
<1>3. Fondee(q, rotation')
  OBVIOUS
<1>4. manoeuvre' \in [Agents -> Requete] /\ RequetesFondees' /\ JalonUnique'
  BY <1>1, <1>2, <1>3, RequetesApres
<1>5. QED
  BY <1>4, SansMouvement

\* A free agent carries nothing, nor does one that is loading or unloading.
LEMMA SansJalon ==
    /\ SansManoeuvre \in Requete
    /\ \A lignes : Fondee(SansManoeuvre, lignes)
    /\ \A x \in Jalons : ~Porte(SansManoeuvre, x)
    /\ \A q \in ReqLot : /\ \A lignes : Fondee(q, lignes)
                         /\ \A x \in Jalons : ~Porte(q, x)
  BY DEF SansManoeuvre, Requete, Fondee, Porte, ReqLot

-----------------------------------------------------------------------------
(* Loading and unloading *)

\* The parcels aboard are finitely many.
LEMMA PassagersFinis ==
    ASSUME HypothesesRotations, NEW r \in Rotations
    PROVE  IsFiniteSet(Passagers(r)) /\ Cardinality(Passagers(r)) \in Nat
  BY FS_Subset, FS_CardinalityType DEF HypothesesRotations, Passagers

LEMMA UnionDisjointe ==
    ASSUME NEW S, NEW T, IsFiniteSet(S), IsFiniteSet(T), S \cap T = {}
    PROVE  Cardinality(S \cup T) = Cardinality(S) + Cardinality(T)
<1>1. Cardinality(S \cup T) = Cardinality(S) + Cardinality(T) - Cardinality(S \cap T)
  BY FS_Union
<1>2. Cardinality(S \cap T) = 0
  BY FS_EmptySet
<1>3. Cardinality(S) \in Nat /\ Cardinality(T) \in Nat
  BY FS_CardinalityType
<1>4. QED
  BY <1>1, <1>2, <1>3

\* Loading: the counter follows, and the other rotations keep their parcels.
LEMMA ChargerCompte ==
    ASSUME HypothesesRotations, IInv, NEW a \in Agents, ChargerColis(a)
    PROVE  TypeRotations' /\ ChargementJuste'
<1> DEFINE q == manoeuvre[a]
           pris == EncoreLibres(q.lot)
           n == Cardinality(pris)
<1>1. q \in ReqLot /\ q.rot \in Rotations /\ q.lot \subseteq Cargaison
  BY RequeteTypee DEF IInv, ChargerColis, ReqLot
<1>2. pris \subseteq Cargaison /\ IsFiniteSet(pris) /\ n \in Nat
  BY <1>1, FS_Subset, FS_CardinalityType DEF EncoreLibres, HypothesesRotations
<1> HIDE DEF pris, n
<1>3. /\ bord' = [c \in Cargaison |-> IF c \in pris THEN q.rot ELSE bord[c]]
      /\ rotation' = [rotation EXCEPT
            ![q.rot].nb = @ + n,
            ![q.rot].statut = IF @ = "planifiee" THEN "ouverte" ELSE @]
      /\ rotation[q.rot].nb + n <= CapaciteColis[q.rot]
      /\ manoeuvre' = [manoeuvre EXCEPT ![a] = [op |-> "evenements", rot |-> q.rot,
                                            code |-> "MANIFESTE", reste |-> pris]]
      /\ statut' = statut
  BY DEF ChargerColis, TientDansLaCapacite, Poser, pris, n
<1> DEFINE l == rotation[q.rot]
           etat == IF l.statut = "planifiee" THEN "ouverte" ELSE l.statut
<1>a. /\ \A r \in Rotations \ {q.rot} : rotation'[r] = rotation[r]
      /\ rotation'[q.rot] = [l EXCEPT !.nb = @ + n, !.statut = etat]
  BY <1>1, <1>3 DEF IInv, TypeRotations
<1>b. l \in LigneRotation /\ etat \in StatutsRotation /\ l.nb + n \in Nat
  BY <1>1, <1>2, TableDesRotations DEF IInv, TypeRotations, LigneRotation
<1>c. /\ rotation'[q.rot].nb = l.nb + n
      /\ rotation'[q.rot].statut = etat
      /\ rotation'[q.rot] \in LigneRotation
  BY <1>a, <1>b DEF LigneRotation
<1>5. TypeRotations'
  <2>1. \A r \in Rotations : rotation'[r] \in LigneRotation
    BY <1>a, <1>c DEF IInv, TypeRotations
  <2>2. rotation' \in [Rotations -> LigneRotation]
    BY <1>3, <2>1 DEF IInv, TypeRotations
  <2>3. manoeuvre' \in [Agents -> Requete]
    BY <1>1, <1>2, <1>3, TableDesJalons DEF IInv, TypeRotations, Requete, ReqEvenements
  <2>4. bord' \in [Cargaison -> Rotations \cup {ATerre}]
    BY <1>1, <1>3 DEF IInv, TypeRotations
  <2>5. QED
    BY <1>3, <2>2, <2>3, <2>4 DEF IInv, TypeRotations
<1>6. ChargementJuste'
  <2> SUFFICES ASSUME NEW r \in Rotations, rotation'[r].statut # "annulee"
               PROVE  /\ rotation'[r].nb = Cardinality(Passagers(r)')
                      /\ rotation'[r].nb <= CapaciteColis[r]
    BY DEF ChargementJuste
  <2>1. rotation[r].statut # "annulee"
    BY <1>a, <1>c
  <2>2. /\ rotation[r].nb = Cardinality(Passagers(r))
        /\ rotation[r].nb <= CapaciteColis[r]
    BY <2>1 DEF IInv, ChargementJuste
  <2>3. CASE r # q.rot
    <3>1. Passagers(r)' = Passagers(r)
      BY <1>2, <1>3, <2>3 DEF Passagers, pris, EncoreLibres, HypothesesRotations
    <3>2. QED
      BY <1>a, <2>2, <2>3, <3>1
  <2>4. CASE r = q.rot
    <3>1. Passagers(r)' = Passagers(r) \cup pris
      BY <1>2, <1>3, <2>4 DEF Passagers
    <3>2. Passagers(r) \cap pris = {}
      BY DEF Passagers, pris, EncoreLibres, HypothesesRotations
    <3>3. Cardinality(Passagers(r) \cup pris) = Cardinality(Passagers(r)) + n
      BY <1>2, <3>2, PassagersFinis, UnionDisjointe DEF n
    <3>4. QED
      BY <1>3, <1>c, <2>2, <2>4, <3>1, <3>3
  <2>5. QED
    BY <2>3, <2>4
<1>7. QED
  BY <1>5, <1>6

LEMMA ChargerTenu ==
    ASSUME HypothesesRotations, IInv, NEW a \in Agents, ChargerColis(a)
    PROVE  IInv'
<1> DEFINE q == manoeuvre[a]
           s == [op |-> "evenements", rot |-> q.rot, code |-> "MANIFESTE",
                 reste |-> EncoreLibres(q.lot)]
<1>1. q \in ReqLot /\ q.rot \in Rotations /\ q.lot \subseteq Cargaison
  BY RequeteTypee DEF IInv, ChargerColis, ReqLot
<1>2. s \in Requete
  BY <1>1, TableDesJalons DEF Requete, ReqEvenements, EncoreLibres
<1>3. /\ Poser(a, s)
      /\ \A r \in Rotations :
            rotation'[r].statut = IF r = q.rot /\ rotation[r].statut = "planifiee"
                                  THEN "ouverte" ELSE rotation[r].statut
  BY <1>1 DEF ChargerColis, IInv, TypeRotations, LigneRotation
<1>4. \A r \in Rotations :
         /\ Etage[rotation[r].statut] <= Etage[rotation'[r].statut]
         /\ rotation[r].statut = "annulee" => rotation'[r].statut = "annulee"
  <2> SUFFICES ASSUME NEW r \in Rotations
               PROVE  /\ Etage[rotation[r].statut] <= Etage[rotation'[r].statut]
                      /\ rotation[r].statut = "annulee" => rotation'[r].statut = "annulee"
    OBVIOUS
  <2>1. Etage[rotation[r].statut] \in 0 .. 4
    BY TableDesRotations DEF IInv, TypeRotations, LigneRotation
  <2>2. Etage["planifiee"] = 0 /\ Etage["ouverte"] = 0
    BY DEF Etage
  <2>3. QED
    BY <1>3, <2>1, <2>2
<1>5. Fondee(s, rotation') /\ \A x \in Jalons : ~Porte(s, x)
  BY TableDesJalons DEF Fondee, Porte
<1>6. rotation' \in [Rotations -> LigneRotation]
  BY ChargerCompte DEF TypeRotations
<1>7. RequetesFondees' /\ JalonUnique'
  <2> HIDE DEF s
  <2>1. QED
    BY <1>2, <1>3, <1>4, <1>5, <1>6, RequetesApres
<1>8. QED
  BY <1>7, ChargerCompte DEF IInv

\* Unloading: the counter loses exactly the parcels that leave.
LEMMA DechargerCompte ==
    ASSUME HypothesesRotations, IInv, NEW a \in Agents, DechargerColis(a)
    PROVE  TypeRotations' /\ ChargementJuste'
<1> DEFINE q == manoeuvre[a]
           retires == q.lot \cap Passagers(q.rot)
           n == CompteApresRetrait(q, retires)
<1>1. q.rot \in Rotations
  BY RequeteTypee DEF IInv, DechargerColis, ReqLot
<1>2. /\ retires \subseteq Passagers(q.rot)
      /\ IsFiniteSet(retires) /\ Cardinality(retires) \in Nat
      /\ Cardinality(retires) <= Cardinality(Passagers(q.rot))
  BY <1>1, PassagersFinis, FS_Subset, FS_CardinalityType
<1>3. rotation[q.rot] \in LigneRotation /\ rotation[q.rot].nb \in Nat
  BY <1>1 DEF IInv, TypeRotations, LigneRotation
<1>4. n \in Nat
  BY <1>2, <1>3 DEF CompteApresRetrait, AuMoinsZero
<1> HIDE DEF retires, n
<1>5. /\ bord' = [c \in Cargaison |-> IF c \in retires THEN ATerre ELSE bord[c]]
      /\ rotation' = [rotation EXCEPT ![q.rot].nb = n]
      /\ manoeuvre' = [manoeuvre EXCEPT ![a] = SansManoeuvre]
      /\ statut' = statut
  BY DEF DechargerColis, Poser, retires, n
<1>6. /\ \A r \in Rotations : rotation'[r].statut = rotation[r].statut
      /\ \A r \in Rotations \ {q.rot} : rotation'[r] = rotation[r]
      /\ rotation'[q.rot].nb = n
  BY <1>1, <1>5 DEF IInv, TypeRotations, LigneRotation
<1>7. TypeRotations'
  <2>1. rotation' \in [Rotations -> LigneRotation]
    BY <1>4, <1>5 DEF IInv, TypeRotations, LigneRotation
  <2>2. manoeuvre' \in [Agents -> Requete]
    BY <1>5, SansJalon DEF IInv, TypeRotations
  <2>3. QED
    BY <1>5, <2>1, <2>2 DEF IInv, TypeRotations
<1>8. ChargementJuste'
  <2> SUFFICES ASSUME NEW r \in Rotations, rotation'[r].statut # "annulee"
               PROVE  /\ rotation'[r].nb = Cardinality(Passagers(r)')
                      /\ rotation'[r].nb <= CapaciteColis[r]
    BY DEF ChargementJuste
  <2>1. /\ rotation[r].nb = Cardinality(Passagers(r))
        /\ rotation[r].nb <= CapaciteColis[r]
    BY <1>6 DEF IInv, ChargementJuste
  <2>2. CASE r # q.rot
    <3>1. Passagers(r)' = Passagers(r)
      BY <1>2, <1>5, <2>2 DEF Passagers, HypothesesRotations
    <3>2. QED
      BY <1>6, <2>1, <2>2, <3>1
  <2>3. CASE r = q.rot
    <3>1. Passagers(r)' = Passagers(r) \ retires
      BY <1>5, <2>3 DEF Passagers, HypothesesRotations
    <3>2. Passagers(r) \cap retires = retires
      BY <1>2, <2>3
    <3>3. Cardinality(Passagers(r) \ retires) = Cardinality(Passagers(r)) - Cardinality(retires)
      <4>1. IsFiniteSet(Passagers(r))
        BY PassagersFinis
      <4>2. Cardinality(Passagers(r) \ retires) =
               Cardinality(Passagers(r)) - Cardinality(Passagers(r) \cap retires)
        BY <4>1, FS_Difference
      <4>3. QED
        BY <3>2, <4>2
    <3>4. n = Cardinality(Passagers(r)) - Cardinality(retires)
      <4>1. Cardinality(Passagers(r)) \in Nat
        BY PassagersFinis, FS_CardinalityType
      <4>2. n = AuMoinsZero(rotation[r].nb - Cardinality(retires))
        BY <2>3 DEF n, CompteApresRetrait
      <4>3. rotation[r].nb - Cardinality(retires) >= 0
        BY <1>2, <2>1, <2>3, <4>1
      <4>4. QED
        BY <1>2, <2>1, <4>1, <4>2, <4>3 DEF AuMoinsZero
    <3>5. n <= CapaciteColis[r]
      BY <1>2, <2>1, <2>3, <3>4, PassagersFinis DEF HypothesesRotations
    <3>6. rotation'[r].nb = n
      BY <1>6, <2>3
    <3>7. QED
      BY <3>1, <3>3, <3>4, <3>5, <3>6
  <2>4. QED
    BY <2>2, <2>3
<1>9. QED
  BY <1>7, <1>8

LEMMA DechargerTenu ==
    ASSUME HypothesesRotations, IInv, NEW a \in Agents, DechargerColis(a)
    PROVE  IInv'
<1>1. TypeRotations' /\ ChargementJuste'
  BY DechargerCompte
<1>2. Poser(a, SansManoeuvre) /\ rotation' \in [Rotations -> LigneRotation]
  BY <1>1 DEF DechargerColis, TypeRotations
<1>3. \A r \in Rotations :
         /\ rotation'[r].statut = rotation[r].statut
         /\ Etage[rotation[r].statut] \in 0 .. 4
  BY RequeteTypee, TableDesRotations DEF DechargerColis, ReqLot, IInv, TypeRotations, LigneRotation
<1>4. RequetesFondees' /\ JalonUnique'
  BY <1>2, <1>3, SansJalon, RequetesApres
<1>5. QED
  BY <1>1, <1>4 DEF IInv

-----------------------------------------------------------------------------
(* Milestones *)

\* The row the milestone was decided on has not moved: the step is one of the table, and
\* nobody propagates that milestone yet.
LEMMA EcrireTenu ==
    ASSUME HypothesesRotations, IInv, NEW a \in Agents, EcrireJalon(a)
    PROVE  IInv'
<1> DEFINE q == manoeuvre[a]
           r == q.rot
           suivi == q.cible \in Jalons \cup {"annulee"}
           s == IF suivi THEN [q EXCEPT !.op = "jalonEcrit"] ELSE SansManoeuvre
<1>1. q \in ReqJalon /\ r \in Rotations /\ q.cible \in StatutsRotation
  BY RequeteTypee DEF IInv, EcrireJalon, ReqJalon
<1>2. /\ q.op = "jalon"
      /\ rotation[r].statut = q.lu
      /\ rotation' = [rotation EXCEPT ![r].statut = q.cible]
      /\ bord' = bord /\ statut' = statut
      /\ Poser(a, s)
  BY TableDesJalons DEF EcrireJalon, EncoreAuStatutLu
<1>3. q.cible \in TransitionsRotation[q.lu] /\ q.lu \in StatutsRotation
  BY <1>1, <1>2 DEF IInv, RequetesFondees, Fondee, ReqJalon
<1>4. /\ Etage[q.lu] <= Etage[q.cible] /\ q.lu # "annulee"
      /\ q.cible \in Jalons => Etage[q.lu] < Etage[q.cible]
      /\ Etage[q.lu] \in 0 .. 4 /\ Etage[q.cible] \in 0 .. 4
  BY <1>1, <1>3, EtagesCroissants, TableDesRotations
<1>5. /\ rotation' \in [Rotations -> LigneRotation]
      /\ \A t \in Rotations \ {r} : rotation'[t] = rotation[t]
      /\ rotation'[r].statut = q.cible
      /\ \A t \in Rotations : rotation'[t].nb = rotation[t].nb
  BY <1>1, <1>2 DEF IInv, TypeRotations, LigneRotation
<1>6. \A t \in Rotations :
         /\ Etage[rotation[t].statut] <= Etage[rotation'[t].statut]
         /\ rotation[t].statut = "annulee" => rotation'[t].statut = "annulee"
  <2> SUFFICES ASSUME NEW t \in Rotations
               PROVE  /\ Etage[rotation[t].statut] <= Etage[rotation'[t].statut]
                      /\ rotation[t].statut = "annulee" => rotation'[t].statut = "annulee"
    OBVIOUS
  <2>1. Etage[rotation[t].statut] \in 0 .. 4
    BY TableDesRotations DEF IInv, TypeRotations, LigneRotation
  <2>2. CASE t = r
    BY <2>2, <1>2, <1>4, <1>5
  <2>3. CASE t # r
    BY <2>1, <2>3, <1>5
  <2>4. QED
    BY <2>2, <2>3
<1>7. s \in Requete
  BY <1>1, SansJalon DEF Requete, ReqJalon
<1>8. /\ suivi => s.op = "jalonEcrit" /\ s.cible = q.cible /\ s.rot = r
      /\ ~suivi => s = SansManoeuvre
  BY <1>1 DEF ReqJalon
<1>9. Fondee(s, rotation')
  <2>1. CASE suivi
    <3>1. \A x \in Jalons : Porte(s, x) => x = q.cible
      BY <1>8, <2>1 DEF Porte
    <3>2. Etage[q.cible] <= Etage[rotation'[s.rot].statut]
      BY <1>4, <1>5, <1>8, <2>1
    <3>3. QED
      BY <1>5, <1>8, <2>1, <3>1, <3>2 DEF Fondee
  <2>2. CASE ~suivi
    BY <2>2, <1>8, SansJalon
  <2>3. QED
    BY <2>1, <2>2
<1>10. \A x \in Jalons : Porte(s, x) =>
          \A b \in Agents : ~(Porte(manoeuvre[b], x) /\ manoeuvre[b].rot = s.rot)
  <2> SUFFICES ASSUME NEW x \in Jalons, Porte(s, x), NEW b \in Agents,
                      Porte(manoeuvre[b], x), manoeuvre[b].rot = s.rot
               PROVE  FALSE
    OBVIOUS
  <2>1. suivi /\ x = q.cible /\ s.rot = r
    BY <1>8, SansJalon DEF Porte
  <2>2. Etage[x] <= Etage[rotation[r].statut]
    BY <2>1 DEF IInv, RequetesFondees, Fondee
  <2>3. Etage[q.cible] <= Etage[q.lu] /\ q.cible \in Jalons
    BY <1>2, <2>1, <2>2
  <2>4. QED
    BY <1>4, <2>3
<1>11. manoeuvre' \in [Agents -> Requete] /\ RequetesFondees' /\ JalonUnique'
  <2> HIDE DEF s
  <2>1. Poser(a, s) /\ rotation' \in [Rotations -> LigneRotation]
    BY <1>2, <1>5
  <2>2. \A x \in Jalons : Porte(s, x) =>
           \/ Porte(manoeuvre[a], x) /\ manoeuvre[a].rot = s.rot
           \/ \A b \in Agents : ~(Porte(manoeuvre[b], x) /\ manoeuvre[b].rot = s.rot)
    BY <1>10
  <2>3. QED
    BY <2>1, <2>2, <1>6, <1>7, <1>9, RequetesApres
<1>12. ChargementJuste'
  <2> SUFFICES ASSUME NEW t \in Rotations, rotation'[t].statut # "annulee"
               PROVE  /\ rotation'[t].nb = Cardinality(Passagers(t)')
                      /\ rotation'[t].nb <= CapaciteColis[t]
    BY DEF ChargementJuste
  <2>1. rotation[t].statut # "annulee"
    BY <1>6
  <2>2. Passagers(t)' = Passagers(t)
    BY <1>2 DEF Passagers
  <2>3. QED
    BY <2>1, <2>2, <1>5 DEF IInv, ChargementJuste
<1>13. QED
  BY <1>2, <1>5, <1>11, <1>12 DEF IInv, TypeRotations

\* The request goes on with the milestone it has written: same rotation, same milestone.
LEMMA ListerTenu ==
    ASSUME IInv, NEW a \in Agents, ListerPassagers(a)
    PROVE  IInv'
<1> DEFINE q == manoeuvre[a]
           s == [op |-> "evenements", rot |-> q.rot, code |-> EvenementDuJalon[q.cible],
                 reste |-> Passagers(q.rot)]
<1>1. q \in ReqJalon /\ q.rot \in Rotations /\ q.op = "jalonEcrit"
  BY RequeteTypee DEF IInv, ListerPassagers, ReqJalon
<1>2. q.cible \in Jalons /\ Fondee(q, rotation)
  BY <1>1 DEF IInv, RequetesFondees, Fondee, ListerPassagers
<1>3. s \in Requete
  BY <1>1, <1>2, TableDesJalons DEF Requete, ReqEvenements, Passagers
<1>4. \A x \in Jalons : Porte(s, x) => x = q.cible /\ Porte(q, x) /\ s.rot = q.rot
  BY <1>1, <1>2, TableDesJalons DEF Porte
<1>5. Fondee(s, rotation)
  BY <1>2, <1>4 DEF Fondee
<1>6. Poser(a, s) /\ UNCHANGED <<rotation, bord, statut>> /\ statut \in [Cargaison -> Statuts]
  BY DEF ListerPassagers, IInv, TypeRotations
<1>7. QED
  <2> HIDE DEF s
  <2>1. QED
    BY <1>3, <1>4, <1>5, <1>6, Bureau

\* A cancellation is written: the load of the rotation no longer counts.
LEMMA DebarquerTenu ==
    ASSUME HypothesesRotations, IInv, NEW a \in Agents, DebarquerTous(a)
    PROVE  IInv'
<1> DEFINE q == manoeuvre[a]
           s == [q EXCEPT !.op = "compteurs"]
<1>1. q \in ReqJalon /\ q.rot \in Rotations /\ q.op = "jalonEcrit" /\ q.cible = "annulee"
  BY RequeteTypee DEF IInv, DebarquerTous, ReqJalon
<1>2. rotation[q.rot].statut = "annulee"
  BY <1>1 DEF IInv, RequetesFondees, Fondee
<1>3. s \in Requete /\ s.op = "compteurs" /\ s.rot = q.rot
  BY <1>1 DEF Requete, ReqJalon
<1>4. /\ Poser(a, s) /\ rotation' = rotation /\ statut' = statut
      /\ bord' = [c \in Cargaison |-> IF bord[c] = q.rot THEN ATerre ELSE bord[c]]
  BY DEF DebarquerTous
<1>5. Fondee(s, rotation') /\ \A x \in Jalons : ~Porte(s, x)
  BY <1>2, <1>3, <1>4 DEF Fondee, Porte
<1>6. \A r \in Rotations : Etage[rotation[r].statut] \in 0 .. 4
  BY TableDesRotations DEF IInv, TypeRotations, LigneRotation
<1>7. manoeuvre' \in [Agents -> Requete] /\ RequetesFondees' /\ JalonUnique'
  <2> HIDE DEF s
  <2>1. rotation' \in [Rotations -> LigneRotation]
    BY <1>4 DEF IInv, TypeRotations
  <2>2. QED
    BY <2>1, <1>3, <1>4, <1>5, <1>6, RequetesApres
<1>8. ChargementJuste'
  <2> SUFFICES ASSUME NEW r \in Rotations, rotation[r].statut # "annulee"
               PROVE  Passagers(r)' = Passagers(r)
    BY <1>4 DEF ChargementJuste, IInv
  <2>1. QED
    BY <1>2, <1>4 DEF Passagers, HypothesesRotations
<1>9. bord' \in [Cargaison -> Rotations \cup {ATerre}]
  BY <1>4 DEF IInv, TypeRotations
<1>10. QED
  BY <1>4, <1>7, <1>8, <1>9 DEF IInv, TypeRotations

LEMMA RemettreTenu ==
    ASSUME IInv, NEW a \in Agents, RemettreCompteurs(a)
    PROVE  IInv'
<1> DEFINE q == manoeuvre[a]
<1>1. q \in ReqJalon /\ q.rot \in Rotations /\ q.op = "compteurs"
  BY RequeteTypee DEF IInv, RemettreCompteurs, ReqJalon
<1>2. rotation[q.rot].statut = "annulee"
  BY <1>1 DEF IInv, RequetesFondees, Fondee
<1>3. /\ rotation' \in [Rotations -> LigneRotation]
      /\ \A r \in Rotations : rotation'[r].statut = rotation[r].statut
      /\ \A r \in Rotations \ {q.rot} : rotation'[r] = rotation[r]
  BY <1>1 DEF RemettreCompteurs, IInv, TypeRotations, LigneRotation
<1>4. Poser(a, SansManoeuvre) /\ bord' = bord /\ statut' = statut
  BY DEF RemettreCompteurs
<1>5. \A r \in Rotations : Etage[rotation[r].statut] \in 0 .. 4
  BY TableDesRotations DEF IInv, TypeRotations, LigneRotation
<1>6. manoeuvre' \in [Agents -> Requete] /\ RequetesFondees' /\ JalonUnique'
  BY <1>3, <1>4, <1>5, SansJalon, RequetesApres
<1>7. ChargementJuste'
  <2> SUFFICES ASSUME NEW r \in Rotations, rotation'[r].statut # "annulee"
               PROVE  /\ rotation'[r].nb = Cardinality(Passagers(r)')
                      /\ rotation'[r].nb <= CapaciteColis[r]
    BY DEF ChargementJuste
  <2>1. r # q.rot /\ rotation'[r] = rotation[r]
    BY <1>2, <1>3
  <2>2. Passagers(r)' = Passagers(r)
    BY <1>4 DEF Passagers
  <2>3. QED
    BY <2>1, <2>2 DEF IInv, ChargementJuste
<1>8. QED
  BY <1>3, <1>4, <1>6, <1>7 DEF IInv, TypeRotations

-----------------------------------------------------------------------------
(* The invariant *)

LEMMA InitIInv == HypothesesRotations /\ InitRotations => IInv
<1> SUFFICES ASSUME HypothesesRotations, InitRotations PROVE IInv
  OBVIOUS
<1>1. TypeRotations
  <2>1. "planifiee" \in StatutsRotation /\ StatutsEmbarquables \subseteq Statuts
    BY TableDesRotations DEF StatutsEmbarquables, Statuts, Transitions
  <2>2. QED
    BY <2>1, SansJalon DEF InitRotations, TypeRotations, LigneRotation
<1>2. RequetesFondees /\ JalonUnique
  BY SansJalon DEF InitRotations, RequetesFondees, JalonUnique
<1>3. ChargementJuste
  <2> SUFFICES ASSUME NEW r \in Rotations
               PROVE  /\ rotation[r].nb = Cardinality(Passagers(r))
                      /\ rotation[r].nb <= CapaciteColis[r]
    BY DEF ChargementJuste
  <2>1. Passagers(r) = {}
    BY DEF InitRotations, Passagers, HypothesesRotations
  <2>2. Cardinality(Passagers(r)) = 0
    BY <2>1, FS_EmptySet
  <2>3. CapaciteColis[r] \in Nat \ {0}
    BY DEF HypothesesRotations
  <2>4. QED
    BY <2>2, <2>3 DEF InitRotations
<1>4. QED
  BY <1>1, <1>2, <1>3 DEF IInv

LEMMA NextIInv == HypothesesRotations /\ IInv /\ [NextRotations]_varsRotations => IInv'
<1> SUFFICES ASSUME HypothesesRotations, IInv, [NextRotations]_varsRotations PROVE IInv'
  OBVIOUS
<1>s. statut \in [Cargaison -> Statuts]
  BY DEF IInv, TypeRotations
<1>1. ASSUME NEW a \in Agents, NEW r \in Rotations, NEW lot \in SUBSET Cargaison,
             LireChargement(a, r, lot) \/ LireDechargement(a, r, lot)
      PROVE  IInv'
  <2>1. PICK op \in {"chargement", "dechargement"} :
           Poser(a, [op |-> op, rot |-> r, lot |-> lot])
    BY <1>1 DEF LireChargement, LireDechargement
  <2> DEFINE q == [op |-> op, rot |-> r, lot |-> lot]
  <2>2. q \in ReqLot /\ q \in Requete
    BY DEF ReqLot, Requete
  <2>3. UNCHANGED <<rotation, bord, statut>>
    BY <1>1 DEF LireChargement, LireDechargement
  <2> HIDE DEF q
  <2>4. QED
    BY <2>1, <2>2, <2>3, <1>s, SansJalon, Bureau DEF q
<1>2. ASSUME NEW a \in Agents, ChargerColis(a) PROVE IInv'
  BY <1>2, ChargerTenu
<1>3. ASSUME NEW a \in Agents, DechargerColis(a) PROVE IInv'
  BY <1>3, DechargerTenu
<1>4. ASSUME NEW a \in Agents, NEW r \in Rotations, NEW cible \in StatutsRotation,
             LireJalon(a, r, cible)
      PROVE  IInv'
  <2> DEFINE q == [op |-> "jalon", rot |-> r, lu |-> rotation[r].statut, cible |-> cible,
                   vide |-> rotation[r].nb = 0]
  <2>1. q \in Requete
    BY DEF IInv, TypeRotations, LigneRotation, Requete, ReqJalon
  <2>2. Fondee(q, rotation) /\ \A x \in Jalons : ~Porte(q, x)
    BY <1>4 DEF Fondee, Porte, LireJalon
  <2>3. Poser(a, q) /\ UNCHANGED <<rotation, bord, statut>>
    BY <1>4 DEF LireJalon
  <2> HIDE DEF q
  <2>4. QED
    BY <2>1, <2>2, <2>3, <1>s, Bureau
<1>5. ASSUME NEW a \in Agents, EcrireJalon(a) PROVE IInv'
  BY <1>5, EcrireTenu
<1>6. ASSUME NEW a \in Agents, ListerPassagers(a) PROVE IInv'
  BY <1>6, ListerTenu
<1>7. ASSUME NEW a \in Agents, DebarquerTous(a) PROVE IInv'
  BY <1>7, DebarquerTenu
<1>8. ASSUME NEW a \in Agents, RemettreCompteurs(a) PROVE IInv'
  BY <1>8, RemettreTenu
<1>9. ASSUME NEW a \in Agents, NEW c \in Cargaison, PropagerJalon(a, c) PROVE IInv'
  <2> DEFINE q == manoeuvre[a]
             s == [q EXCEPT !.reste = @ \ {c}]
  <2>1. q \in ReqEvenements
    BY <1>9, RequeteTypee DEF IInv, PropagerJalon
  <2>2. s \in Requete /\ s.op = q.op /\ s.rot = q.rot /\ s.code = q.code
    BY <2>1 DEF Requete, ReqEvenements
  <2>3. Fondee(s, rotation) /\ \A x \in Jalons : Porte(s, x) => Porte(q, x)
    BY <2>1, <2>2 DEF IInv, RequetesFondees, Fondee, Porte, ReqEvenements
  <2>4. statut' \in [Cargaison -> Statuts]
    BY <1>9, <1>s, <2>1, StatutViseDansTable DEF PropagerJalon, ReqEvenements
  <2>5. Poser(a, s) /\ UNCHANGED <<rotation, bord>>
    BY <1>9 DEF PropagerJalon
  <2> HIDE DEF s
  <2>6. QED
    BY <2>2, <2>3, <2>4, <2>5, Bureau
<1>10. ASSUME NEW a \in Agents, Repondre(a) \/ AbandonnerManoeuvre(a) PROVE IInv'
  <2>1. Poser(a, SansManoeuvre) /\ UNCHANGED <<rotation, bord, statut>>
    BY <1>10 DEF Repondre, AbandonnerManoeuvre
  <2>2. QED
    BY <2>1, <1>s, SansJalon, Bureau
<1>11. ASSUME NEW c \in Cargaison, NEW code \in CodesAilleurs, EvenementAilleurs(c, code)
       PROVE  IInv'
  <2>1. statut' \in [Cargaison -> Statuts]
    BY <1>11, <1>s, StatutViseDansTable DEF EvenementAilleurs, HypothesesRotations
  <2>2. UNCHANGED <<rotation, bord, manoeuvre>>
    BY <1>11 DEF EvenementAilleurs
  <2>3. manoeuvre' \in [Agents -> Requete] /\ RequetesFondees' /\ JalonUnique'
    BY <2>2 DEF IInv, TypeRotations, RequetesFondees, JalonUnique
  <2>4. QED
    BY <2>1, <2>2, <2>3, SansMouvement
<1>12. CASE UNCHANGED varsRotations
  <2>1. statut' \in [Cargaison -> Statuts] /\ UNCHANGED <<rotation, bord, manoeuvre>>
    BY <1>12, <1>s DEF varsRotations
  <2>2. manoeuvre' \in [Agents -> Requete] /\ RequetesFondees' /\ JalonUnique'
    BY <2>1 DEF IInv, TypeRotations, RequetesFondees, JalonUnique
  <2>3. QED
    BY <2>1, <2>2, SansMouvement
<1>13. QED
  BY <1>1, <1>2, <1>3, <1>4, <1>5, <1>6, <1>7, <1>8, <1>9, <1>10, <1>11, <1>12
     DEF NextRotations, AgentSuivant

LEMMA Invariance == HypothesesRotations /\ SpecRotations => []IInv
<1> SUFFICES ASSUME HypothesesRotations PROVE SpecRotations => []IInv
  OBVIOUS
<1>1. InitRotations => IInv
  BY InitIInv
<1>2. IInv /\ [NextRotations]_varsRotations => IInv'
  BY NextIInv
<1>3. QED
  BY <1>1, <1>2, PTL DEF SpecRotations

\* Rows, parcels and requests keep their shape.
THEOREM RotationTypeCorrect == HypothesesRotations /\ SpecRotations => []TypeRotations
<1>1. IInv => TypeRotations
  BY DEF IInv
<1>2. QED
  BY <1>1, Invariance, PTL

\* The counter of a rotation is its load and the load fits, until it is cancelled.
THEOREM ChargementsJustes == HypothesesRotations /\ SpecRotations => []ChargementJuste
<1>1. IInv => ChargementJuste
  BY DEF IInv
<1>2. QED
  BY <1>1, Invariance, PTL

\* No two requests tell the clients of the same milestone.
THEOREM PropagationsUniques == HypothesesRotations /\ SpecRotations => []PropagationUnique
<1>1. IInv => PropagationUnique
  <2> SUFFICES ASSUME IInv, NEW a \in Agents, NEW b \in Agents,
                      manoeuvre[a].op = "evenements", manoeuvre[b].op = "evenements",
                      manoeuvre[a].rot = manoeuvre[b].rot, manoeuvre[a].code = manoeuvre[b].code,
                      manoeuvre[a].code # "MANIFESTE"
               PROVE  a = b
    BY DEF PropagationUnique
  <2>1. PICK x \in Jalons : manoeuvre[a].code = EvenementDuJalon[x]
    BY DEF IInv, RequetesFondees, Fondee
  <2>2. Porte(manoeuvre[a], x) /\ Porte(manoeuvre[b], x)
    BY <2>1 DEF Porte
  <2>3. QED
    BY <2>2 DEF IInv, JalonUnique
<1>2. QED
  BY <1>1, Invariance, PTL
=============================================================================
