---------------------------- MODULE SuiviProofs ----------------------------
(***************************************************************************)
(* Proofs about Suivi and StockPoints, for any finite set of parcels, any  *)
(* points, callers, event codes and forced statuses; then about the        *)
(* customs declaration (Douane) and the price grid (Grille), which         *)
(* MCGestion explores with the engine.                                     *)
(*                                                                         *)
(* Every step of the engine leaves the rows alone, or gives a withdrawal   *)
(* code, or applies one permitted event to one parcel (EffetDesEtapes);    *)
(* its theorems follow from what such an event does to a row.              *)
(***************************************************************************)
EXTENDS StockPoints, Douane, Grille, TLAPS, FiniteSetTheorems, SequenceTheorems,
        WellFoundedInduction

-----------------------------------------------------------------------------
(* The tables *)

\* Whatever the table allows is a status of the enumeration, and nothing follows a
\* terminal one.
LEMMA TableDesTransitions ==
    /\ \A s \in Statuts : Transitions[s] \subseteq Statuts
    /\ StatutsTerminaux \subseteq Statuts
    /\ HorsPoint \subseteq Statuts
  BY DEF Statuts, Transitions, StatutsTerminaux, HorsPoint

LEMMA TableDesCodes ==
    \A code \in DOMAIN StatutInduit : StatutInduit[code] \in Statuts \cup {"aucun"}
  BY DEF StatutInduit, Statuts, Transitions

LEMMA TableDesDecisions ==
    DOMAIN Decisions \subseteq DOMAIN StatutInduit
  BY DEF Decisions, StatutInduit

\* A transition the engine permits goes from phase to phase as the carriage does, and
\* only a closed phase is a terminal status.
LEMMA PhasesDesTransitions ==
    ASSUME NEW de \in Statuts, NEW vers \in Statuts, TransitionPermise(de, vers)
    PROVE  /\ PhaseDe(vers) \in Abstrait!PhasesSuivantes[PhaseDe(de)]
           /\ PhaseDe(vers) \in Abstrait!Closes <=> vers \in StatutsTerminaux
  BY DEF TransitionPermise, Transitions, Statuts, StatutsTerminaux, PhaseDe,
         Abstrait!PhasesSuivantes, Abstrait!Closes

-----------------------------------------------------------------------------
(* What an event does to a row *)

LEMMA LigneApres ==
    ASSUME NEW l \in Ligne, NEW code \in DOMAIN StatutInduit,
           NEW force \in Statuts \cup {"aucun"}, NEW point \in Lieux \cup {Inchange},
           NEW sansCode \in BOOLEAN
    PROVE  /\ StatutVise(l.statut, code, force) \in Statuts
           /\ ApresEvenement(l, code, force, point, sansCode) \in Ligne
<1>1. StatutVise(l.statut, code, force) \in Statuts
  BY TableDesCodes DEF StatutVise, Ligne
<1>2. PointApres(l, StatutVise(l.statut, code, force), point) \in Lieux
  BY DEF PointApres, Ligne, Lieux
<1>3. CodeApres(l, code, sansCode) \in BOOLEAN
  BY DEF CodeApres
<1>4. QED
  BY <1>1, <1>2, <1>3 DEF ApresEvenement, Ligne

LEMMA StockType ==
    ASSUME TypeOK, NEW de \in Lieux, NEW vers \in Lieux
    PROVE  StockApres(de, vers) \in [Points -> Nat]
  BY DEF StockApres, TypeOK

-----------------------------------------------------------------------------
(* Type correctness *)

LEMMA RequeteTypee ==
    ASSUME TypeOK, NEW a \in Acteurs, requete[a] # Libre
    PROVE  /\ requete[a] \in Evenement
           /\ requete[a].colis \in Colis
           /\ requete[a].code \in DOMAIN StatutInduit
           /\ requete[a].force \in Statuts \cup {"aucun"}
           /\ requete[a].point \in Lieux \cup {Inchange}
           /\ requete[a].sansCode \in BOOLEAN
  BY CodesAssumption, ForcesAssumption DEF TypeOK, Evenement

LEMMA AppliquerTypee ==
    ASSUME TypeOK, NEW c \in Colis, NEW code \in DOMAIN StatutInduit,
           NEW force \in Statuts \cup {"aucun"}, NEW point \in Lieux \cup {Inchange},
           NEW sansCode \in BOOLEAN, Appliquer(c, code, force, point, sansCode)
    PROVE  /\ colis' \in [Colis -> Ligne]
           /\ stock' \in [Points -> Nat]
           /\ colis'[c] = ApresEvenement(colis[c], code, force, point, sansCode)
           /\ \A d \in Colis : d # c => colis'[d] = colis[d]
           /\ stock' = StockApres(colis[c].point, colis'[c].point)
<1> DEFINE l == ApresEvenement(colis[c], code, force, point, sansCode)
<1>1. colis[c] \in Ligne
  BY DEF TypeOK
<1>2. l \in Ligne
  BY <1>1, LigneApres
<1>3. colis' = [colis EXCEPT ![c] = l] /\ stock' = StockApres(colis[c].point, l.point)
  BY DEF Appliquer
<1> HIDE DEF l
<1>4. colis' \in [Colis -> Ligne] /\ colis'[c] = l /\ \A d \in Colis : d # c => colis'[d] = colis[d]
  BY <1>2, <1>3 DEF TypeOK
<1>5. colis[c].point \in Lieux /\ l.point \in Lieux
  BY <1>1, <1>2 DEF Ligne
<1>6. stock' \in [Points -> Nat]
  BY <1>3, <1>5, StockType
<1>7. QED
  BY <1>3, <1>4, <1>6 DEF l

LEMMA InitTypee == Init => TypeOK
  <1>1. {"en_attente", "en_attente_validation"} \subseteq Statuts
    BY DEF Statuts, Transitions
  <1>2. QED
    BY <1>1 DEF Init, TypeOK, Ligne, Lieux

LEMMA PasTypee == TypeOK /\ [Next]_vars => TypeOK'
<1> SUFFICES ASSUME TypeOK, [Next]_vars PROVE TypeOK'
  OBVIOUS
<1>1. ASSUME NEW a \in Acteurs, NEW c \in Colis, NEW code \in Codes, NEW force \in Forces,
             NEW point \in Lieux \cup {Inchange}, LireEvenement(a, c, code, force, point)
      PROVE  TypeOK'
  <2> DEFINE r == [op |-> "evenement", colis |-> c, code |-> code, force |-> force,
                   point |-> point, sansCode |-> code = "DISPO" /\ ~colis[c].code]
  <2>1. r \in Evenement
    BY DEF Evenement
  <2>2. requete' = [requete EXCEPT ![a] = r] /\ UNCHANGED <<colis, stock>>
    BY <1>1 DEF LireEvenement
  <2> HIDE DEF r
  <2>3. QED
    BY <2>1, <2>2 DEF TypeOK
<1>2. ASSUME NEW a \in Acteurs, EnregistrerEvenement(a) PROVE TypeOK'
  <2>1. requete[a] # Libre /\ requete' = [requete EXCEPT ![a] = Libre]
    BY <1>2 DEF EnregistrerEvenement
  <2>2. Appliquer(requete[a].colis, requete[a].code, requete[a].force, requete[a].point,
                  requete[a].sansCode)
    BY <1>2 DEF EnregistrerEvenement
  <2>3. /\ requete[a].colis \in Colis
        /\ requete[a].code \in DOMAIN StatutInduit
        /\ requete[a].force \in Statuts \cup {"aucun"}
        /\ requete[a].point \in Lieux \cup {Inchange}
        /\ requete[a].sansCode \in BOOLEAN
    BY <2>1, RequeteTypee
  <2>4. PICK c \in Colis, code \in DOMAIN StatutInduit, force \in Statuts \cup {"aucun"},
             point \in Lieux \cup {Inchange}, sansCode \in BOOLEAN :
                Appliquer(c, code, force, point, sansCode)
    BY <2>2, <2>3
  <2>5. colis' \in [Colis -> Ligne] /\ stock' \in [Points -> Nat]
    BY <2>4, AppliquerTypee
  <2>6. QED
    BY <2>1, <2>5 DEF TypeOK
<1>3. ASSUME NEW a \in Acteurs, Abandonner(a) PROVE TypeOK'
  BY <1>3 DEF Abandonner, TypeOK
<1>4. ASSUME NEW c \in Colis, NEW code \in DOMAIN Decisions, Decider(c, code) PROVE TypeOK'
  <2>1. colis' \in [Colis -> Ligne] /\ stock' \in [Points -> Nat]
    BY <1>4, TableDesDecisions, AppliquerTypee DEF Decider
  <2>2. QED
    BY <1>4, <2>1 DEF Decider, TypeOK
<1>5. ASSUME NEW c \in Colis, RegenererCodeRetrait(c) PROVE TypeOK'
  BY <1>5 DEF RegenererCodeRetrait, TypeOK, Ligne
<1>6. CASE UNCHANGED vars
  BY <1>6 DEF vars, TypeOK
<1>7. QED
  BY <1>1, <1>2, <1>3, <1>4, <1>5, <1>6 DEF Next, ActeurSuivant

\* Every reachable row, counter and call has its type.
THEOREM SuiviTypeCorrect == Spec => []TypeOK
<1>1. QED
  BY InitTypee, PasTypee, PTL DEF Spec

-----------------------------------------------------------------------------
(* What a step of the engine can do *)

\* One permitted event applied to one parcel.
Mouvement(c) ==
    \E code \in DOMAIN StatutInduit, force \in Statuts \cup {"aucun"},
       point \in Lieux \cup {Inchange}, sansCode \in BOOLEAN :
        /\ Permis(colis[c].statut, code, force)
        /\ Appliquer(c, code, force, point, sansCode)

LEMMA EffetDesEtapes ==
    ASSUME TypeOK, [Next]_vars
    PROVE  \/ UNCHANGED <<colis, stock>>
           \/ \E c \in Colis : RegenererCodeRetrait(c)
           \/ \E c \in Colis : Mouvement(c)
<1>1. ASSUME NEW a \in Acteurs, EnregistrerEvenement(a)
      PROVE  \E c \in Colis : Mouvement(c)
  <2>1. /\ requete[a] # Libre
        /\ Permis(colis[requete[a].colis].statut, requete[a].code, requete[a].force)
        /\ Appliquer(requete[a].colis, requete[a].code, requete[a].force, requete[a].point,
                     requete[a].sansCode)
    BY <1>1 DEF EnregistrerEvenement, PermisSousVerrou
  <2>2. QED
    BY <2>1, RequeteTypee DEF Mouvement
<1>2. ASSUME NEW c \in Colis, NEW code \in DOMAIN Decisions, Decider(c, code)
      PROVE  Mouvement(c)
  BY <1>2, TableDesDecisions DEF Decider, Mouvement
<1>3. QED
  BY <1>1, <1>2 DEF Next, ActeurSuivant, LireEvenement, Abandonner, vars

\* The statuses of a movement: the new one is permitted after the old one.
LEMMA MouvementPermis ==
    ASSUME TypeOK, NEW c \in Colis, Mouvement(c)
    PROVE  /\ colis'[c] \in Ligne
           /\ TransitionPermise(colis[c].statut, colis'[c].statut)
           /\ colis'[c].statut \in StatutsTerminaux \cup HorsPoint => colis'[c].point = NulPart
           /\ colis[c].code => colis'[c].code
           /\ \A d \in Colis : d # c => colis'[d] = colis[d]
           /\ stock' = StockApres(colis[c].point, colis'[c].point)
<1>1. PICK code \in DOMAIN StatutInduit, force \in Statuts \cup {"aucun"},
           point \in Lieux \cup {Inchange}, sansCode \in BOOLEAN :
              /\ Permis(colis[c].statut, code, force)
              /\ Appliquer(c, code, force, point, sansCode)
  BY DEF Mouvement
<1>2. /\ colis' \in [Colis -> Ligne]
      /\ colis'[c] = ApresEvenement(colis[c], code, force, point, sansCode)
      /\ \A d \in Colis : d # c => colis'[d] = colis[d]
      /\ stock' = StockApres(colis[c].point, colis'[c].point)
  BY <1>1, AppliquerTypee
<1>3. /\ colis'[c].statut = StatutVise(colis[c].statut, code, force)
      /\ colis'[c].point = PointApres(colis[c], colis'[c].statut, point)
      /\ colis'[c].code = CodeApres(colis[c], code, sansCode)
  BY <1>2 DEF ApresEvenement
<1>4. QED
  BY <1>1, <1>2, <1>3 DEF Permis, PointApres, CodeApres

-----------------------------------------------------------------------------
(* A closed parcel stays closed *)

\* A parcel delivered, withdrawn, returned, cancelled or refused never leaves that status,
\* whatever calls had been checked before it was closed.
THEOREM EtatsDefinitifs == Spec => EtatDefinitif
<1>1. TypeOK /\ [Next]_vars =>
        [\A c \in Colis :
            colis[c].statut \in StatutsTerminaux => colis'[c].statut = colis[c].statut]_vars
  <2> SUFFICES ASSUME TypeOK, [Next]_vars, NEW c \in Colis, colis[c].statut \in StatutsTerminaux
               PROVE  colis'[c].statut = colis[c].statut
    OBVIOUS
  <2>1. CASE UNCHANGED <<colis, stock>>
    BY <2>1
  <2>2. ASSUME NEW d \in Colis, RegenererCodeRetrait(d) PROVE colis'[c].statut = colis[c].statut
    BY <2>2 DEF RegenererCodeRetrait, TypeOK, Ligne
  <2>3. ASSUME NEW d \in Colis, Mouvement(d) PROVE colis'[c].statut = colis[c].statut
    <3>1. CASE d = c
      BY <2>3, <3>1, MouvementPermis DEF TransitionPermise
    <3>2. CASE d # c
      BY <2>3, <3>2, MouvementPermis
    <3>3. QED
      BY <3>1, <3>2
  <2>4. QED
    BY <2>1, <2>2, <2>3, EffetDesEtapes
<1>2. QED
  BY <1>1, SuiviTypeCorrect, PTL DEF Spec, EtatDefinitif

-----------------------------------------------------------------------------
(* The stock counters *)

\* A parcel that changes place moves the count of the point it leaves and of the point
\* it reaches, and no other.
LEMMA StockSuit ==
    ASSUME TypeOK, StockExact, NEW c \in Colis, Mouvement(c)
    PROVE  StockExact'
<1> DEFINE de == colis[c].point
           vers == colis'[c].point
           Ici(p) == {d \in Colis : colis[d].point = p}
           IciApres(p) == {d \in Colis : colis'[d].point = p}
<1>1. /\ \A d \in Colis : d # c => colis'[d] = colis[d]
      /\ stock' = StockApres(de, vers)
  BY MouvementPermis
<1>2. SUFFICES ASSUME NEW p \in Points PROVE stock'[p] = Cardinality(IciApres(p))
  BY DEF StockExact
<1>3. /\ IsFiniteSet(Ici(p))
      /\ Cardinality(Ici(p)) \in Nat
      /\ stock[p] = Cardinality(Ici(p))
  <2>1. IsFiniteSet(Ici(p))
    BY ColisAssumption, FS_Subset
  <2>2. QED
    BY <2>1, FS_CardinalityType DEF StockExact
<1>4. CASE de = vers
  <2>1. IciApres(p) = Ici(p)
    BY <1>1, <1>4
  <2>2. stock'[p] = stock[p]
    BY <1>1, <1>4 DEF StockApres
  <2>3. QED
    BY <2>1, <2>2, <1>3
<1>5. CASE de # vers /\ p = de
  <2>1. IciApres(p) = Ici(p) \ {c} /\ c \in Ici(p)
    BY <1>1, <1>5
  <2>2. Cardinality(Ici(p) \ {c}) = Cardinality(Ici(p)) - 1
    BY <2>1, <1>3, FS_RemoveElement
  <2>3. Cardinality(Ici(p)) # 0
    BY <2>1, <1>3, FS_EmptySet
  <2>4. stock'[p] = stock[p] - 1
    BY <1>1, <1>3, <1>5, <2>3 DEF StockApres
  <2>5. QED
    BY <2>1, <2>2, <2>4, <1>3
<1>6. CASE de # vers /\ p = vers
  <2>1. IciApres(p) = Ici(p) \cup {c} /\ c \notin Ici(p)
    BY <1>1, <1>6
  <2>2. Cardinality(Ici(p) \cup {c}) = Cardinality(Ici(p)) + 1
    BY <2>1, <1>3, FS_AddElement
  <2>3. stock'[p] = stock[p] + 1
    BY <1>1, <1>6 DEF StockApres
  <2>4. QED
    BY <2>1, <2>2, <2>3, <1>3
<1>7. CASE p # de /\ p # vers
  <2>1. IciApres(p) = Ici(p)
    BY <1>1, <1>7
  <2>2. stock'[p] = stock[p]
    BY <1>1, <1>7 DEF StockApres
  <2>3. QED
    BY <2>1, <2>2, <1>3
<1>8. QED
  BY <1>4, <1>5, <1>6, <1>7

LEMMA StockInitial == Init => StockExact
<1> SUFFICES ASSUME Init, NEW p \in Points
             PROVE  stock[p] = Cardinality({c \in Colis : colis[c].point = p})
  BY DEF StockExact
<1>1. {c \in Colis : colis[c].point = p} = {}
  BY LieuxAssumption DEF Init
<1>2. QED
  BY <1>1, FS_EmptySet DEF Init

LEMMA StockPas == TypeOK /\ StockExact /\ [Next]_vars => StockExact'
<1> SUFFICES ASSUME TypeOK, StockExact, [Next]_vars PROVE StockExact'
  OBVIOUS
<1>1. CASE UNCHANGED <<colis, stock>>
  BY <1>1 DEF StockExact
<1>2. ASSUME NEW c \in Colis, RegenererCodeRetrait(c) PROVE StockExact'
  <2>1. stock' = stock /\ \A d \in Colis : colis'[d].point = colis[d].point
    BY <1>2 DEF RegenererCodeRetrait, TypeOK, Ligne
  <2>2. \A p \in Points : {d \in Colis : colis'[d].point = p} = {d \in Colis : colis[d].point = p}
    BY <2>1
  <2>3. QED
    BY <2>1, <2>2 DEF StockExact
<1>3. QED
  BY <1>1, <1>2, StockSuit, EffetDesEtapes

\* Each point announces the number of parcels that are there, for any set of parcels and
\* any interleaving of calls.
THEOREM StocksExacts == Spec => []StockExact
<1>1. QED
  BY SuiviTypeCorrect, StockInitial, StockPas, PTL DEF Spec

-----------------------------------------------------------------------------
(* Withdrawal codes *)

\* A call that will not create a code found one, and a code is never erased.
CodeConnu ==
    \A a \in Acteurs :
        requete[a] # Libre /\ requete[a].code = "DISPO" /\ ~requete[a].sansCode
            => colis[requete[a].colis].code

DispoSeul == \A code \in DOMAIN StatutInduit : StatutInduit[code] = "disponible_retrait" => code = "DISPO"

LEMMA TableDispo == DispoSeul /\ "DISPO" \notin DOMAIN Decisions
  BY DEF DispoSeul, StatutInduit, Decisions

\* No step takes a code away.
LEMMA CodeGarde ==
    ASSUME TypeOK, [Next]_vars, NEW c \in Colis, colis[c].code
    PROVE  colis'[c].code
<1>1. CASE UNCHANGED <<colis, stock>>
  BY <1>1
<1>2. ASSUME NEW d \in Colis, RegenererCodeRetrait(d) PROVE colis'[c].code
  BY <1>2 DEF RegenererCodeRetrait, TypeOK, Ligne
<1>3. ASSUME NEW d \in Colis, Mouvement(d) PROVE colis'[c].code
  BY <1>3, MouvementPermis
<1>4. QED
  BY <1>1, <1>2, <1>3, EffetDesEtapes

LEMMA CodeConnuPas == TypeOK /\ CodeConnu /\ [Next]_vars => CodeConnu'
<1> SUFFICES ASSUME TypeOK, CodeConnu, [Next]_vars, NEW a \in Acteurs, requete'[a] # Libre,
                    requete'[a].code = "DISPO", ~requete'[a].sansCode
             PROVE  colis'[requete'[a].colis].code
  BY DEF CodeConnu
<1>1. CASE requete'[a] = requete[a]
  <2>1. requete[a].colis \in Colis
    BY <1>1, RequeteTypee
  <2>2. colis[requete[a].colis].code
    BY <1>1 DEF CodeConnu
  <2>3. QED
    BY <1>1, <2>1, <2>2, CodeGarde
<1>2. CASE requete'[a] # requete[a]
  <2>1. PICK c \in Colis, code \in Codes, force \in Forces, point \in Lieux \cup {Inchange} :
           LireEvenement(a, c, code, force, point)
    <3>1. \A b \in Acteurs : EnregistrerEvenement(b) \/ Abandonner(b)
                                 => requete' = [requete EXCEPT ![b] = Libre]
      BY DEF EnregistrerEvenement, Abandonner
    <3>2. \A b \in Acteurs : EnregistrerEvenement(b) \/ Abandonner(b) => FALSE
      BY <1>2, <3>1 DEF TypeOK
    <3>3. \A b \in Acteurs, c \in Colis, code \in Codes, force \in Forces,
             point \in Lieux \cup {Inchange} :
             LireEvenement(b, c, code, force, point) => b = a
      BY <1>2 DEF LireEvenement, TypeOK
    <3>4. QED
      BY <1>2, <3>2, <3>3 DEF Next, ActeurSuivant, Decider, RegenererCodeRetrait, vars
  <2>2. /\ requete'[a].colis = c
        /\ requete'[a].code = code
        /\ requete'[a].sansCode = (code = "DISPO" /\ ~colis[c].code)
        /\ colis' = colis
    BY <2>1 DEF LireEvenement, TypeOK
  <2>3. QED
    BY <2>2
<1>3. QED
  BY <1>1, <1>2

\* A movement that makes a parcel available creates its code or finds one.
LEMMA DisponiblePas ==
    ASSUME Forces \subseteq {"aucun"}
    PROVE  TypeOK /\ CodeConnu /\ DisponibleAvecCode /\ [Next]_vars => DisponibleAvecCode'
<1> SUFFICES ASSUME TypeOK, CodeConnu, DisponibleAvecCode, [Next]_vars, NEW c \in Colis,
                    colis'[c].statut = "disponible_retrait"
             PROVE  colis'[c].code
  BY DEF DisponibleAvecCode
<1>1. CASE colis[c].statut = "disponible_retrait"
  BY <1>1, CodeGarde DEF DisponibleAvecCode
<1>2. CASE colis[c].statut # "disponible_retrait"
  <2>1. ASSUME NEW code \in DOMAIN StatutInduit, NEW point \in Lieux \cup {Inchange},
               NEW sansCode \in BOOLEAN, NEW d \in Colis,
               Appliquer(d, code, "aucun", point, sansCode)
        PROVE  d = c /\ code = "DISPO" /\ (sansCode => colis'[c].code)
    <3>1. /\ colis'[d] = ApresEvenement(colis[d], code, "aucun", point, sansCode)
          /\ d # c => colis'[c] = colis[c]
      BY <2>1, AppliquerTypee
    <3>2. d = c
      BY <1>2, <3>1
    <3>3. StatutInduit[code] = "disponible_retrait"
      BY <1>2, <3>1, <3>2 DEF ApresEvenement, StatutVise
    <3>4. code = "DISPO"
      BY <3>3, TableDispo DEF DispoSeul
    <3>5. ASSUME sansCode PROVE colis'[c].code
      <4>1. CodeApres(colis[c], "DISPO", sansCode)
        BY <3>5 DEF CodeApres
      <4>2. colis'[c].code = CodeApres(colis[c], "DISPO", sansCode)
        BY <3>1, <3>2, <3>4 DEF ApresEvenement
      <4>3. QED
        BY <4>1, <4>2
    <3>6. QED
      BY <3>2, <3>4, <3>5
  <2>2. ASSUME NEW a \in Acteurs, EnregistrerEvenement(a) PROVE colis'[c].code
    <3>1. /\ requete[a] # Libre
          /\ requete[a].force = "aucun"
          /\ Appliquer(requete[a].colis, requete[a].code, "aucun", requete[a].point,
                       requete[a].sansCode)
      BY <2>2 DEF EnregistrerEvenement, TypeOK, Evenement
    <3>2. /\ requete[a].colis \in Colis
          /\ requete[a].code \in DOMAIN StatutInduit
          /\ requete[a].point \in Lieux \cup {Inchange}
          /\ requete[a].sansCode \in BOOLEAN
      BY <3>1, RequeteTypee
    <3>3. /\ requete[a].colis = c
          /\ requete[a].code = "DISPO"
          /\ requete[a].sansCode => colis'[c].code
      BY <2>1, <3>1, <3>2, Zenon
    <3>4. QED
      BY <3>1, <3>3, CodeGarde DEF CodeConnu
  <2>3. ASSUME NEW d \in Colis, NEW code \in DOMAIN Decisions, Decider(d, code) PROVE FALSE
    <3>1. Appliquer(d, code, "aucun", Inchange, FALSE) /\ code \in DOMAIN StatutInduit
      BY <2>3, TableDesDecisions DEF Decider
    <3>2. code = "DISPO"
      BY <2>1, <3>1
    <3>3. QED
      BY <3>2, TableDispo
  <2>4. ASSUME NEW d \in Colis, RegenererCodeRetrait(d) PROVE FALSE
    BY <1>2, <2>4 DEF RegenererCodeRetrait, TypeOK, Ligne
  <2>5. QED
    BY <1>2, <2>2, <2>3, <2>4 DEF Next, ActeurSuivant, LireEvenement, Abandonner, vars
<1>3. QED
  BY <1>1, <1>2

\* A parcel available at its point has a withdrawal code, when no caller forces a status.
THEOREM DisponiblesAvecCode ==
    ASSUME Forces \subseteq {"aucun"}
    PROVE  Spec => []DisponibleAvecCode
<1>1. Init => CodeConnu /\ DisponibleAvecCode
  BY DEF Init, CodeConnu, DisponibleAvecCode
<1>2. TypeOK /\ CodeConnu /\ DisponibleAvecCode /\ [Next]_vars => DisponibleAvecCode'
  BY DisponiblePas
<1>3. QED
  BY <1>1, <1>2, CodeConnuPas, SuiviTypeCorrect, PTL DEF Spec

-----------------------------------------------------------------------------
(* The engine implements the carriage *)

LEMMA InitAbstrait == Init => Abstrait!Init
<1> SUFFICES ASSUME Init PROVE Abstrait!Init
  OBVIOUS
<1>1. \A c \in Colis : PhaseDe(colis[c].statut) = "a_confier" /\ colis[c].point = NulPart
  BY DEF Init, PhaseDe
<1>2. QED
  BY <1>1 DEF Init, Abstrait!Init

\* A movement is one step of the carriage.
LEMMA MouvementAbstrait ==
    ASSUME TypeOK, StockExact, NEW c \in Colis, Mouvement(c)
    PROVE  Abstrait!Avancer(c)
<1> DEFINE ph == [d \in Colis |-> PhaseDe(colis[d].statut)]
           li == [d \in Colis |-> colis[d].point]
           phP == [d \in Colis |-> PhaseDe(colis'[d].statut)]
           liP == [d \in Colis |-> colis'[d].point]
<1>1. /\ colis'[c] \in Ligne
      /\ TransitionPermise(colis[c].statut, colis'[c].statut)
      /\ colis'[c].statut \in StatutsTerminaux => colis'[c].point = NulPart
      /\ \A d \in Colis : d # c => colis'[d] = colis[d]
  BY MouvementPermis
<1>2. colis[c].statut \in Statuts /\ colis'[c].statut \in Statuts /\ colis'[c].point \in Lieux
  BY <1>1 DEF TypeOK, Ligne
<1>3. /\ phP[c] \in Abstrait!PhasesSuivantes[ph[c]]
      /\ phP[c] \in Abstrait!Closes => liP[c] = NulPart
  BY <1>1, <1>2, PhasesDesTransitions
<1>4. phP = [ph EXCEPT ![c] = phP[c]] /\ liP = [li EXCEPT ![c] = liP[c]]
  BY <1>1
<1>5. stock' = [p \in Points |-> stock[p] + Abstrait!Compter(p, liP[c])
                                          - Abstrait!Compter(p, li[c])]
  <2>1. ASSUME NEW p \in Points, li[c] = p PROVE stock[p] # 0
    <3>1. IsFiniteSet({d \in Colis : colis[d].point = p})
      BY ColisAssumption, FS_Subset
    <3>2. c \in {d \in Colis : colis[d].point = p}
      BY <2>1
    <3>3. QED
      BY <3>1, <3>2, FS_EmptySet DEF StockExact
  <2>2. stock' = StockApres(li[c], liP[c]) /\ stock \in [Points -> Nat]
    BY MouvementPermis DEF TypeOK
  <2>3. QED
    BY <2>1, <2>2 DEF StockApres, Abstrait!Compter
<1>6. liP[c] \in Points \cup {NulPart}
  BY <1>2 DEF Lieux
<1>7. QED
  BY <1>3, <1>4, <1>5, <1>6 DEF Abstrait!Avancer

LEMMA PasAbstrait ==
    TypeOK /\ StockExact /\ [Next]_vars => [Abstrait!Next]_(Abstrait!vars)
<1> SUFFICES ASSUME TypeOK, StockExact, [Next]_vars
             PROVE  [Abstrait!Next]_(Abstrait!vars)
  OBVIOUS
<1>1. CASE UNCHANGED <<colis, stock>>
  BY <1>1 DEF Abstrait!vars
<1>2. ASSUME NEW c \in Colis, RegenererCodeRetrait(c) PROVE UNCHANGED Abstrait!vars
  <2>1. /\ stock' = stock
        /\ \A d \in Colis : colis'[d].point = colis[d].point /\ colis'[d].statut = colis[d].statut
    BY <1>2 DEF RegenererCodeRetrait, TypeOK, Ligne
  <2>2. QED
    BY <2>1 DEF Abstrait!vars
<1>3. ASSUME NEW c \in Colis, Mouvement(c) PROVE Abstrait!Next
  BY <1>3, MouvementAbstrait DEF Abstrait!Next
<1>4. QED
  BY <1>1, <1>2, <1>3, EffetDesEtapes

\* The engine implements the carriage, for any finite set of parcels.
THEOREM MoteurImplementeAcheminement == Spec => ImplementeAcheminement
<1>1. Init => Abstrait!Init
  BY InitAbstrait
<1>2. TypeOK /\ StockExact /\ [Next]_vars => [Abstrait!Next]_(Abstrait!vars)
  BY PasAbstrait
<1>3. QED
  BY <1>1, <1>2, SuiviTypeCorrect, StocksExacts, PTL
     DEF Spec, ImplementeAcheminement, Abstrait!Spec

-----------------------------------------------------------------------------
(* The transfer of a stock.  What it holds is right as long as nothing     *)
(* crossed it: the number it counted, the rows it locked, and whether the  *)
(* counter it will reset was 0.                                            *)

Transfere(g) == g.op \in {"lu", "compte", "deplace"}

TransfertFonde ==
    Transfere(gestion) =>
        /\ gestion.de # gestion.vers
        /\ gestion.op = "deplace" => \A c \in gestion.pris : colis[c].point = gestion.de
        /\ ~croise =>
              /\ gestion.aZero = (stock[gestion.de] = 0)
              /\ gestion.op \in {"compte", "deplace"}
                    => gestion.nb = Cardinality(Presents(gestion.de))
              /\ gestion.op = "deplace" => gestion.pris = Presents(gestion.de)

SansPoint ==
    \A c \in Colis : colis[c].statut \in StatutsTerminaux \cup HorsPoint => colis[c].point = NulPart

IInvPoints == TypePointsOK /\ TransfertFonde /\ SansPoint /\ (~croise => StockExact)

LEMMA PresentsComptes ==
    ASSUME NEW p
    PROVE  IsFiniteSet(Presents(p)) /\ Cardinality(Presents(p)) \in Nat
<1>1. Presents(p) \in SUBSET Colis
  BY DEF Presents
<1>2. QED
  BY <1>1, ColisAssumption, FS_Subset, FS_CardinalityType

LEMMA GestionTypee ==
    ASSUME TypePointsOK
    PROVE  /\ gestion # Aucune /\ Transfere(gestion) => gestion \in Transfert
           /\ gestion = Aucune => ~Transfere(gestion)
           /\ gestion.op = "desactivation" => gestion \in Desactivation
           /\ Transfere(gestion) => /\ gestion \in Transfert
                                   /\ gestion.de \in Points /\ gestion.vers \in Points
                                   /\ gestion.nb \in Nat /\ gestion.pris \in SUBSET Colis
                                   /\ gestion.aZero \in BOOLEAN
BY DEF TypePointsOK, Aucune, Transfert, Desactivation, Transfere

\* A step of the engine leaves the parcels where they are, or moves one of them.
LEMMA EnginDeplace ==
    ASSUME TypeOK, SansPoint, [Next]_vars
    PROVE  /\ SansPoint'
           /\ (\A c \in Colis : colis'[c].point = colis[c].point) => stock' = stock
<1>1. TypeOK'
  BY PasTypee
<1>2. CASE UNCHANGED <<colis, stock>>
  BY <1>2 DEF SansPoint
<1>3. ASSUME NEW d \in Colis, RegenererCodeRetrait(d)
      PROVE  SansPoint' /\ stock' = stock
  <2>1. stock' = stock /\ \A c \in Colis : /\ colis'[c].statut = colis[c].statut
                                         /\ colis'[c].point = colis[c].point
    BY <1>3 DEF RegenererCodeRetrait, TypeOK, Ligne
  <2>2. QED
    BY <2>1 DEF SansPoint
<1>4. ASSUME NEW d \in Colis, Mouvement(d)
      PROVE  SansPoint' /\ (colis'[d].point = colis[d].point => stock' = stock)
  <2>1. /\ colis'[d].statut \in StatutsTerminaux \cup HorsPoint => colis'[d].point = NulPart
        /\ \A c \in Colis : c # d => colis'[c] = colis[c]
        /\ stock' = StockApres(colis[d].point, colis'[d].point)
    BY <1>4, MouvementPermis
  <2>2. SansPoint'
    BY <2>1 DEF SansPoint
  <2>3. colis'[d].point = colis[d].point => stock' = stock
    BY <2>1 DEF StockApres, TypeOK
  <2>4. QED
    BY <2>2, <2>3
<1>5. QED
  BY <1>2, <1>3, <1>4, EffetDesEtapes

LEMMA EnginPoints == ASSUME IInvPoints, Engin PROVE IInvPoints'
<1>1. TypeOK /\ SansPoint /\ Next
  BY DEF IInvPoints, TypePointsOK, Engin
<1>2. /\ gestion' = gestion /\ actif' = actif
      /\ croise' = (croise \/ (gestion # Aucune
                               /\ \E c \in Colis : colis'[c].point # colis[c].point))
      /\ \A c \in Verrouilles : colis'[c] = colis[c]
  BY DEF Engin
<1>3. TypeOK'
  BY <1>1, PasTypee
<1>4. SansPoint'
  BY <1>1, EnginDeplace
<1>5. TypePointsOK'
  BY <1>2, <1>3 DEF IInvPoints, TypePointsOK
<1>6. ~croise' => StockExact'
  BY <1>1, <1>2, StockPas DEF IInvPoints
<1>7. TransfertFonde'
  <2> SUFFICES ASSUME Transfere(gestion) PROVE TransfertFonde'
    BY <1>2 DEF TransfertFonde, Transfere
  <2>1. gestion # Aucune /\ gestion.de # gestion.vers
    BY GestionTypee DEF IInvPoints, TransfertFonde
  <2>2. gestion.op = "deplace" => \A c \in gestion.pris : colis'[c].point = gestion.de
    BY <1>2 DEF IInvPoints, TransfertFonde, Verrouilles
  <2>3. CASE croise'
    BY <1>2, <2>1, <2>2, <2>3 DEF TransfertFonde
  <2>4. CASE ~croise'
    <3>1. ~croise /\ \A c \in Colis : colis'[c].point = colis[c].point
      BY <1>2, <2>1, <2>4
    <3>2. stock' = stock
      BY <1>1, <3>1, EnginDeplace
    <3>3. \A p : {c \in Colis : colis'[c].point = p} = {c \in Colis : colis[c].point = p}
      BY <3>1
    <3>4. QED
      BY <1>2, <2>1, <2>2, <3>1, <3>2, <3>3 DEF IInvPoints, TransfertFonde, Presents
  <2>5. QED
    BY <2>3, <2>4
<1>8. QED
  BY <1>4, <1>5, <1>6, <1>7 DEF IInvPoints

\* The parcels of the source are those of the destination once the transfer is over.
LEMMA AcheverExact ==
    ASSUME IInvPoints, AcheverTransfert, ~croise
    PROVE  StockExact'
<1> DEFINE de == gestion.de
           vers == gestion.vers
           Apres(p) == {c \in Colis : colis'[c].point = p}
<1>1. /\ gestion.op = "deplace" /\ croise' = croise
      /\ colis' = [c \in Colis |-> IF c \in gestion.pris
                                   THEN [colis[c] EXCEPT !.point = gestion.vers] ELSE colis[c]]
      /\ stock' = [stock EXCEPT ![vers] = @ + gestion.nb, ![de] = IF gestion.aZero THEN @ ELSE 0]
  BY DEF AcheverTransfert, StockTransfere
<1>2. /\ de \in Points /\ vers \in Points /\ de # vers /\ gestion.nb \in Nat
      /\ gestion.pris = Presents(de) /\ gestion.nb = Cardinality(Presents(de))
      /\ gestion.aZero = (stock[de] = 0)
  BY <1>1, GestionTypee DEF IInvPoints, TransfertFonde, Transfere
<1>3. stock \in [Points -> Nat] /\ colis \in [Colis -> Ligne]
      /\ \A p \in Points : stock[p] = Cardinality(Presents(p))
  BY DEF IInvPoints, TypePointsOK, TypeOK, StockExact, Presents
<1>4. \A c \in Colis : colis'[c].point = IF colis[c].point = de THEN vers ELSE colis[c].point
  BY <1>1, <1>2, <1>3 DEF Presents, Ligne
<1>5. Apres(vers) = Presents(vers) \cup Presents(de) /\ Presents(vers) \cap Presents(de) = {}
  BY <1>2, <1>4 DEF Presents
<1>6. Cardinality(Apres(vers)) = Cardinality(Presents(vers)) + Cardinality(Presents(de))
  <2>1. Cardinality(Presents(vers) \cup Presents(de))
           = Cardinality(Presents(vers)) + Cardinality(Presents(de))
               - Cardinality(Presents(vers) \cap Presents(de))
    BY PresentsComptes, FS_Union
  <2>2. Cardinality(Presents(vers) \cap Presents(de)) = 0
    BY <1>5, FS_EmptySet
  <2> HIDE DEF Apres, de, vers
  <2>3. QED
    BY <1>5, <2>1, <2>2, PresentsComptes
<1>7. Apres(de) = {}
  BY <1>2, <1>4
<1>8. Cardinality(Apres(de)) = 0
  BY <1>7, FS_EmptySet
<1>9. \A p \in Points : p # de /\ p # vers => Apres(p) = Presents(p)
  BY <1>4 DEF Presents
<1>10. /\ stock'[vers] = stock[vers] + gestion.nb /\ stock'[de] = 0
       /\ \A p \in Points : p # de /\ p # vers => stock'[p] = stock[p]
  BY <1>1, <1>2, <1>3
<1> HIDE DEF Apres, de, vers
<1>11. \A p \in Points : stock'[p] = Cardinality(Apres(p))
  BY <1>2, <1>3, <1>6, <1>8, <1>9, <1>10
<1>12. QED
  BY <1>11 DEF StockExact, Apres

LEMMA AcheverPoints == ASSUME IInvPoints, AcheverTransfert PROVE IInvPoints'
<1>1. /\ gestion.op = "deplace" /\ croise' = croise /\ requete' = requete /\ actif' = actif
      /\ gestion' = Aucune
      /\ colis' = [c \in Colis |-> IF c \in gestion.pris
                                   THEN [colis[c] EXCEPT !.point = gestion.vers] ELSE colis[c]]
      /\ stock' = [stock EXCEPT ![gestion.vers] = @ + gestion.nb,
                               ![gestion.de] = IF gestion.aZero THEN @ ELSE 0]
  BY DEF AcheverTransfert, StockTransfere
<1>2. /\ gestion.de \in Points /\ gestion.vers \in Points /\ gestion.nb \in Nat
      /\ \A c \in gestion.pris : colis[c].point = gestion.de
  BY <1>1, GestionTypee DEF IInvPoints, TransfertFonde, Transfere
<1>3. /\ stock \in [Points -> Nat] /\ colis \in [Colis -> Ligne]
      /\ requete \in [Acteurs -> {Libre} \cup Evenement] /\ actif \in [Points -> BOOLEAN]
      /\ croise \in BOOLEAN
  BY DEF IInvPoints, TypePointsOK, TypeOK
<1>4. stock' \in [Points -> Nat]
  <2>1. \A n \in Nat : n + gestion.nb \in Nat
    BY <1>2
  <2>2. QED
    BY <1>1, <1>2, <1>3, <2>1
<1>5. colis' \in [Colis -> Ligne]
  <2>1. \A l \in Ligne : [l EXCEPT !.point = gestion.vers] \in Ligne
    BY <1>2 DEF Ligne, Lieux
  <2>2. QED
    BY <1>1, <1>3, <2>1
<1>6. TypePointsOK'
  BY <1>1, <1>3, <1>4, <1>5 DEF TypePointsOK, TypeOK
<1>7. SansPoint'
  <2> SUFFICES ASSUME NEW c \in Colis, colis'[c].statut \in StatutsTerminaux \cup HorsPoint
               PROVE  colis'[c].point = NulPart
    BY DEF SansPoint
  <2>1. CASE c \in gestion.pris
    <3>1. colis'[c].statut = colis[c].statut
      BY <1>1, <1>3, <2>1 DEF Ligne
    <3>2. colis[c].point = NulPart
      BY <3>1 DEF IInvPoints, SansPoint
    <3>3. QED
      BY <1>2, <2>1, <3>2, LieuxAssumption
  <2>2. CASE c \notin gestion.pris
    BY <1>1, <2>2 DEF IInvPoints, SansPoint
  <2>3. QED
    BY <2>1, <2>2
<1>8. TransfertFonde'
  BY <1>1 DEF TransfertFonde, Transfere, Aucune
<1>9. ~croise' => StockExact'
  BY <1>1, AcheverExact
<1>10. QED
  BY <1>6, <1>7, <1>8, <1>9 DEF IInvPoints

\* The other steps of a transfer touch nothing but what it holds.
LEMMA GestionPoints ==
    ASSUME IInvPoints, UNCHANGED <<colis, stock, requete, croise>>,
           actif' \in [Points -> BOOLEAN],
           gestion' \in {Aucune} \cup Transfert \cup Desactivation, TransfertFonde'
    PROVE  IInvPoints'
<1>1. TypePointsOK' /\ SansPoint'
  BY DEF IInvPoints, TypePointsOK, TypeOK, SansPoint
<1>2. ~croise' => StockExact'
  BY DEF IInvPoints, StockExact
<1>3. QED
  BY <1>1, <1>2 DEF IInvPoints

LEMMA NextPointsIInv == ASSUME IInvPoints, [NextPoints]_varsPoints PROVE IInvPoints'
<1>1. ASSUME NEW de \in Points, NEW vers \in Points, LireTransfert(de, vers) PROVE IInvPoints'
  <2>1. /\ UNCHANGED <<colis, stock, requete, actif, croise>> /\ de # vers
        /\ gestion' = [op |-> "lu", de |-> de, vers |-> vers, aZero |-> stock[de] = 0,
                       nb |-> 0, vus |-> {}, pris |-> {}]
    BY <1>1 DEF LireTransfert
  <2>2. gestion' \in Transfert
    BY <2>1 DEF Transfert
  <2>3. TransfertFonde'
    BY <2>1 DEF TransfertFonde
  <2>4. QED
    BY <2>1, <2>2, <2>3, GestionPoints DEF IInvPoints, TypePointsOK
<1>2. CASE CompterTransfert
  <2>1. /\ UNCHANGED <<colis, stock, requete, actif, croise>> /\ gestion.op = "lu"
        /\ gestion' = [gestion EXCEPT !.op = "compte", !.vus = Presents(gestion.de),
                                      !.nb = Cardinality(Presents(gestion.de))]
    BY <1>2 DEF CompterTransfert
  <2>2. gestion \in Transfert
    BY <2>1, GestionTypee DEF IInvPoints, Transfere
  <2>3. /\ gestion' \in Transfert /\ gestion'.op = "compte"
        /\ gestion'.de = gestion.de /\ gestion'.vers = gestion.vers
        /\ gestion'.aZero = gestion.aZero
        /\ gestion'.nb = Cardinality(Presents(gestion.de))
    <3>1. Presents(gestion.de) \in SUBSET Colis /\ Cardinality(Presents(gestion.de)) \in Nat
      BY PresentsComptes DEF Presents
    <3>2. PICK S \in SUBSET Colis, n \in Nat :
             S = Presents(gestion.de) /\ n = Cardinality(Presents(gestion.de))
      BY <3>1
    <3>3. gestion' = [gestion EXCEPT !.op = "compte", !.vus = S, !.nb = n]
      BY <2>1, <3>2
    <3>4. /\ gestion' \in Transfert /\ gestion'.op = "compte"
          /\ gestion'.de = gestion.de /\ gestion'.vers = gestion.vers
          /\ gestion'.aZero = gestion.aZero /\ gestion'.nb = n
      BY <2>2, <3>3 DEF Transfert
    <3>5. QED
      BY <3>2, <3>4
  <2>4. \A p : {c \in Colis : colis'[c].point = p} = Presents(p)
    BY <2>1 DEF Presents
  <2>5. TransfertFonde'
    BY <2>1, <2>2, <2>3, <2>4 DEF IInvPoints, TransfertFonde, Transfere, Presents
  <2>6. QED
    BY <2>1, <2>3, <2>5, GestionPoints DEF IInvPoints, TypePointsOK
<1>3. CASE DeplacerTransfert
  <2>1. /\ UNCHANGED <<colis, stock, requete, actif, croise>> /\ gestion.op = "compte"
        /\ gestion' = [gestion EXCEPT !.op = "deplace", !.pris = Presents(gestion.de)]
    BY <1>3 DEF DeplacerTransfert, ADeplacer
  <2>2. gestion \in Transfert
    BY <2>1, GestionTypee DEF IInvPoints, Transfere
  <2>3. /\ gestion' \in Transfert /\ gestion'.op = "deplace"
        /\ gestion'.de = gestion.de /\ gestion'.vers = gestion.vers
        /\ gestion'.aZero = gestion.aZero /\ gestion'.nb = gestion.nb
        /\ gestion'.pris = Presents(gestion.de)
    BY <2>1, <2>2 DEF Transfert, Presents
  <2>4. TransfertFonde'
    BY <2>1, <2>2, <2>3 DEF IInvPoints, TransfertFonde, Transfere, Presents
  <2>5. QED
    BY <2>1, <2>3, <2>4, GestionPoints DEF IInvPoints, TypePointsOK
<1>4. ASSUME gestion' = Aucune, UNCHANGED <<colis, stock, requete, croise>>,
             actif' \in [Points -> BOOLEAN]
      PROVE  IInvPoints'
  BY <1>4, GestionPoints DEF TransfertFonde, Transfere, Aucune
<1>5. CASE AbandonnerGestion
  BY <1>4, <1>5 DEF AbandonnerGestion, IInvPoints, TypePointsOK
<1>6. CASE Desactiver
  <2>1. actif' \in [Points -> BOOLEAN]
    BY <1>6 DEF Desactiver, IInvPoints, TypePointsOK
  <2>2. QED
    BY <1>4, <1>6, <2>1 DEF Desactiver
<1>7. ASSUME NEW p \in Points, LireDesactivation(p) PROVE IInvPoints'
  <2>1. /\ UNCHANGED <<colis, stock, requete, actif, croise>>
        /\ gestion' = [op |-> "desactivation", de |-> p]
    BY <1>7 DEF LireDesactivation
  <2>2. gestion' \in Desactivation /\ TransfertFonde'
    BY <2>1 DEF Desactivation, TransfertFonde, Transfere
  <2>3. QED
    BY <2>1, <2>2, GestionPoints DEF IInvPoints, TypePointsOK
<1>8. ASSUME NEW p \in Points, Activer(p) PROVE IInvPoints'
  <2>1. UNCHANGED <<colis, stock, requete, gestion, croise>> /\ actif' \in [Points -> BOOLEAN]
    BY <1>8 DEF Activer, IInvPoints, TypePointsOK
  <2>2. TransfertFonde'
    BY <2>1 DEF IInvPoints, TransfertFonde, Presents
  <2>3. QED
    BY <2>1, <2>2, GestionPoints DEF IInvPoints, TypePointsOK
<1>9. CASE UNCHANGED varsPoints
  <2>1. UNCHANGED <<colis, stock, requete, gestion, croise, actif>>
    BY <1>9 DEF varsPoints
  <2>2. TransfertFonde'
    BY <2>1 DEF IInvPoints, TransfertFonde, Presents
  <2>3. QED
    BY <2>1, <2>2, GestionPoints DEF IInvPoints, TypePointsOK
<1>10. QED
  BY <1>1, <1>2, <1>3, <1>5, <1>6, <1>7, <1>8, <1>9, EnginPoints, AcheverPoints DEF NextPoints

\* Transfers that no movement of parcels crosses keep the counters exact, one after the other
\* and with events in between (transfererStock); crossed or not, a parcel handed over, closed,
\* at sea or with the courier is at no point.
THEOREM TransfertsExacts == SpecPoints => []TransfertExact
<1>1. InitPoints => IInvPoints
  <2> SUFFICES ASSUME InitPoints PROVE IInvPoints
    OBVIOUS
  <2>1. Init /\ actif = [p \in Points |-> TRUE] /\ gestion = Aucune /\ croise = FALSE
    BY DEF InitPoints
  <2>2. TypeOK /\ StockExact
    BY <2>1, InitTypee, StockInitial
  <2>3. SansPoint
    BY <2>1 DEF Init, SansPoint
  <2>4. QED
    BY <2>1, <2>2, <2>3 DEF IInvPoints, TypePointsOK, TransfertFonde, Transfere, Aucune
<1>2. IInvPoints /\ [NextPoints]_varsPoints => IInvPoints'
  BY NextPointsIInv
<1>3. IInvPoints => TransfertExact
  BY DEF IInvPoints, SansPoint, TransfertExact
<1>4. QED
  BY <1>1, <1>2, <1>3, PTL DEF SpecPoints

-----------------------------------------------------------------------------
(***************************************************************************)
(* The customs declaration.                                                *)
(*                                                                         *)
(* The value and the duties are right between the requests, not during     *)
(* one: the invariant says what the only request that changes them still   *)
(* owes, and that the row it works on is the row of the table.             *)
(***************************************************************************)

EnModification(r) == saisies[r].etape \in {"ecrire", "relire", "recalculer"}

EstimationJuste ==
    /\ SumSet(articles) # 0 => declaration.valeur = SumSet(articles)
    /\ declaration.droits = Droits(articles, declaration.valeur, declaration.motif)

\* A request that changes the declaration is alone, works on the row as it is, and owes it a
\* new estimate from its write to its last step.
EstimationDue ==
    /\ \A r, s \in Declarants : EnModification(r) /\ EnModification(s) => r = s
    /\ \A r \in Declarants : EnModification(r) => saisies[r].lue = declaration
    /\ \A r \in Declarants : Saisit(r, "recalculer") =>
          /\ saisies[r].valeur = ValeurRetenue(articles, declaration.valeur)
          /\ saisies[r].droits = Droits(articles, saisies[r].valeur, declaration.motif)
    /\ estimee /\ (\A r \in Declarants : saisies[r].etape \notin {"relire", "recalculer"})
          => EstimationJuste

TypeDouane ==
    /\ DOMAIN saisies = Declarants
    /\ declaration = [motif |-> declaration.motif, valeur |-> declaration.valeur,
                      droits |-> declaration.droits]

InvDouane == TypeDouane /\ (~melee => EstimationDue)

LEMMA EtapeEcrite ==
    ASSUME InvDouane, NEW r \in Declarants, NEW suite, Passer(r, suite)
    PROVE  /\ \A s \in Declarants : saisies'[s] = IF s = r THEN suite ELSE saisies[s]
           /\ DOMAIN saisies' = Declarants
BY DEF Passer, InvDouane, TypeDouane

LEMMA ChargerInv ==
    ASSUME InvDouane, NEW r \in Declarants, NEW d, Charger(r, d)
    PROVE  InvDouane'
<1>1. PICK q : q = [etape |-> "ecrire", demande |-> d, lue |-> declaration]
  OBVIOUS
<1>2. q.etape = "ecrire" /\ q.lue = declaration
  BY <1>1
<1>3. /\ UNCHANGED <<declaration, articles, estimee>>
      /\ \A s \in Declarants : saisies'[s] = IF s = r THEN q ELSE saisies[s]
      /\ DOMAIN saisies' = Declarants
  BY <1>1, EtapeEcrite DEF Charger
<1>4. ASSUME ~melee'
      PROVE  ~melee /\ \A s \in Declarants : saisies[s].etape = "libre"
  <2>1. ~melee /\ ~\E s \in Declarants : saisies[s] # Inactive
    BY <1>4, Zenon DEF Charger
  <2>2. Inactive.etape = "libre"
    BY DEF Inactive
  <2>3. QED
    BY <2>1, <2>2
<1>5. ~melee' => EstimationDue'
  <2> SUFFICES ASSUME ~melee'
               PROVE  EstimationDue'
    OBVIOUS
  <2>1. estimee => EstimationJuste
    BY <1>4 DEF InvDouane, EstimationDue
  <2>2. \A s \in Declarants : s # r => saisies'[s].etape = "libre"
    BY <1>3, <1>4
  <2>3. saisies'[r] = q
    BY <1>3
  <2>4. estimee' => EstimationJuste'
    BY <1>3, <2>1 DEF EstimationJuste
  <2>5. QED
    BY <1>2, <1>3, <2>2, <2>3, <2>4 DEF EstimationDue, EnModification, Saisit
<1>6. QED
  BY <1>3, <1>5 DEF InvDouane, TypeDouane

LEMMA EcrireDemandeInv ==
    ASSUME InvDouane, NEW r \in Declarants, EcrireDemande(r)
    PROVE  InvDouane'
<1>1. PICK q, i : q = saisies[r] /\ i = q.demande.motif
  OBVIOUS
<1>2. PICK n : n = [etape |-> "relire", lue |-> [q.lue EXCEPT !.motif = i]]
  OBVIOUS
<1>3. n.etape = "relire" /\ n.lue = [q.lue EXCEPT !.motif = i]
  BY <1>2
<1>4. /\ q.etape = "ecrire" /\ UNCHANGED melee
      /\ declaration' = IF i # q.lue.motif THEN [declaration EXCEPT !.motif = i]
                        ELSE declaration
  BY <1>1 DEF EcrireDemande, Saisit
<1>5. Passer(r, n)
  BY <1>1, <1>2 DEF EcrireDemande
<1>6. /\ \A s \in Declarants : saisies'[s] = IF s = r THEN n ELSE saisies[s]
      /\ DOMAIN saisies' = Declarants
  BY <1>5, EtapeEcrite
<1>7. TypeDouane'
  <2>1. PICK a, v, d : declaration = [motif |-> a, valeur |-> v, droits |-> d]
    BY DEF InvDouane, TypeDouane
  <2>2. \/ declaration' = [motif |-> i, valeur |-> v, droits |-> d]
        \/ declaration' = [motif |-> a, valeur |-> v, droits |-> d]
    BY <1>4, <2>1
  <2>3. QED
    BY <1>6, <2>2 DEF TypeDouane
<1>8. ASSUME ~melee
      PROVE  EstimationDue'
  <2>1. \A s \in Declarants : s # r => ~EnModification(s)
    BY <1>1, <1>4, <1>8 DEF InvDouane, EstimationDue, EnModification
  <2>2. q.lue = declaration
    BY <1>1, <1>4, <1>8 DEF InvDouane, EstimationDue, EnModification
  <2>3. n.lue = declaration'
    <3>1. PICK a, v, d : declaration = [motif |-> a, valeur |-> v, droits |-> d]
      BY DEF InvDouane, TypeDouane
    <3>2. n.lue = [motif |-> i, valeur |-> v, droits |-> d]
      BY <1>3, <2>2, <3>1
    <3>3. declaration' = [motif |-> i, valeur |-> v, droits |-> d]
      BY <1>4, <2>2, <3>1
    <3>4. QED
      BY <3>2, <3>3
  <2>4. \A s \in Declarants : s # r => ~EnModification(s)'
    BY <1>6, <2>1 DEF EnModification
  <2>5. saisies'[r] = n
    BY <1>6
  <2>6. \A s \in Declarants : EnModification(s)' => s = r
    BY <2>4
  <2>7. \A s \in Declarants : ~Saisit(s, "recalculer")'
    BY <1>3, <2>5, <2>6 DEF EnModification, Saisit
  <2>8. QED
    BY <1>3, <2>3, <2>5, <2>6, <2>7 DEF EstimationDue
<1>9. QED
  BY <1>4, <1>7, <1>8 DEF InvDouane

LEMMA RelireArticlesInv ==
    ASSUME InvDouane, NEW r \in Declarants, RelireArticles(r)
    PROVE  InvDouane'
<1>1. PICK q, v, t : /\ q = saisies[r] /\ v = ValeurRetenue(articles, q.lue.valeur)
                     /\ t = Droits(articles, v, q.lue.motif)
  OBVIOUS
<1>2. PICK n : n = [etape |-> "recalculer", lue |-> q.lue, valeur |-> v, droits |-> t]
  OBVIOUS
<1>3. n.etape = "recalculer" /\ n.lue = q.lue /\ n.valeur = v /\ n.droits = t
  BY <1>2
<1>4. q.etape = "relire" /\ UNCHANGED <<declaration, articles, melee, estimee>>
  BY <1>1 DEF RelireArticles, Saisit
<1>5. Passer(r, n)
  BY <1>1, <1>2 DEF RelireArticles
<1>6. /\ \A s \in Declarants : saisies'[s] = IF s = r THEN n ELSE saisies[s]
      /\ DOMAIN saisies' = Declarants
  BY <1>5, EtapeEcrite
<1>7. ASSUME ~melee
      PROVE  EstimationDue'
  <2>1. q.lue = declaration /\ \A s \in Declarants : s # r => ~EnModification(s)
    BY <1>1, <1>4, <1>7 DEF InvDouane, EstimationDue, EnModification
  <2>2. \A s \in Declarants : EnModification(s)' => s = r
    BY <1>6, <2>1 DEF EnModification
  <2>3. saisies'[r] = n
    BY <1>6
  <2>4. /\ n.lue = declaration' /\ n.valeur = ValeurRetenue(articles', declaration'.valeur)
        /\ n.droits = Droits(articles', n.valeur, declaration'.motif)
    BY <1>1, <1>3, <1>4, <2>1
  <2>5. \A s \in Declarants : Saisit(s, "recalculer")' => s = r
    BY <2>2 DEF Saisit, EnModification
  <2>6. QED
    BY <1>3, <2>2, <2>3, <2>4, <2>5 DEF EstimationDue
<1>8. QED
  BY <1>4, <1>6, <1>7 DEF InvDouane, TypeDouane

LEMMA RecalculerInv ==
    ASSUME InvDouane, NEW r \in Declarants, Recalculer(r)
    PROVE  InvDouane'
<1>1. PICK q, w, t :
         /\ q = saisies[r]
         /\ w = IF q.valeur = q.lue.valeur THEN declaration.valeur ELSE q.valeur
         /\ t = IF q.droits = q.lue.droits THEN declaration.droits ELSE q.droits
  OBVIOUS
<1>2. PICK i, v, d : declaration = [motif |-> i, valeur |-> v, droits |-> d]
  BY DEF InvDouane, TypeDouane
<1>3. q.etape = "recalculer" /\ UNCHANGED <<articles, melee>> /\ Passer(r, Inactive)
  BY <1>1 DEF Recalculer, Saisit
<1>4. declaration' = [declaration EXCEPT !.valeur = w, !.droits = t]
  BY <1>1, <1>2 DEF Recalculer
<1>5. declaration' = [motif |-> i, valeur |-> w, droits |-> t]
  BY <1>2, <1>4
<1>6. /\ \A s \in Declarants : saisies'[s] = IF s = r THEN Inactive ELSE saisies[s]
      /\ DOMAIN saisies' = Declarants
  BY <1>3, EtapeEcrite
<1>7. TypeDouane'
  BY <1>5, <1>6 DEF TypeDouane
<1>8. ASSUME ~melee
      PROVE  EstimationDue'
  <2>1. q.lue = declaration /\ \A s \in Declarants : s # r => ~EnModification(s)
    BY <1>1, <1>3, <1>8 DEF InvDouane, EstimationDue, EnModification
  <2>2. q.valeur = ValeurRetenue(articles, declaration.valeur) /\ q.droits = Droits(articles, q.valeur, i)
    BY <1>1, <1>2, <1>3, <1>8 DEF InvDouane, EstimationDue, Saisit
  <2>3. w = q.valeur /\ t = q.droits
    BY <1>1, <2>1
  <2>4. declaration'.valeur = q.valeur /\ declaration'.droits = Droits(articles, q.valeur, i)
        /\ declaration'.motif = i
    BY <1>5, <2>2, <2>3
  <2>5. EstimationJuste'
    BY <1>3, <2>2, <2>4 DEF EstimationJuste, ValeurRetenue
  <2>6. \A s \in Declarants : ~EnModification(s)'
    BY <1>6, <2>1 DEF EnModification, Inactive
  <2>7. \A s \in Declarants : ~Saisit(s, "recalculer")'
    BY <2>6 DEF EnModification, Saisit
  <2>8. QED
    BY <2>5, <2>6, <2>7 DEF EstimationDue
<1>9. QED
  BY <1>3, <1>7, <1>8 DEF InvDouane

\* A step that writes neither the articles nor the estimate, and starts no change.
LEMMA StatutInv ==
    ASSUME InvDouane, NEW r \in Declarants, NEW n, Passer(r, n),
           UNCHANGED <<declaration, articles, estimee>>, ~melee' => ~melee,
           n.etape \in {"libre", "changer_statut"},
           ~melee' => saisies[r].etape \notin {"relire", "recalculer"}
    PROVE  InvDouane'
<1>1. /\ \A s \in Declarants : saisies'[s] = IF s = r THEN n ELSE saisies[s]
      /\ DOMAIN saisies' = Declarants
  BY EtapeEcrite
<1>2. \A s \in Declarants : EnModification(s)' => s # r /\ EnModification(s)
  BY <1>1 DEF EnModification
<1>3. \A s \in Declarants : Saisit(s, "recalculer")' => s # r /\ Saisit(s, "recalculer")
  BY <1>1 DEF Saisit
<1>4. ASSUME ~melee'
      PROVE  EstimationDue'
  <2>1. EstimationDue
    BY <1>4 DEF InvDouane
  <2>2. (\A s \in Declarants : saisies'[s].etape \notin {"relire", "recalculer"})
           => \A s \in Declarants : saisies[s].etape \notin {"relire", "recalculer"}
    BY <1>1, <1>4
  <2>3. EstimationJuste => EstimationJuste'
    BY DEF EstimationJuste
  <2>4. QED
    BY <1>1, <1>2, <1>3, <2>1, <2>2, <2>3 DEF EstimationDue
<1>5. QED
  BY <1>1, <1>4 DEF InvDouane, TypeDouane

\* The value and the duties follow the lines of the declaration, for any requests, articles and
\* value of the order (recalculerEstimation).
THEOREM EstimationsSuivies == SpecDouane => []EstimationSuit
<1>1. InitDouane => InvDouane
  BY DEF InitDouane, InvDouane, TypeDouane, EstimationDue, EstimationJuste, EnModification, Saisit,
         Inactive
<1>2. InvDouane /\ [NextDouane]_varsDouane => InvDouane'
  <2> SUFFICES ASSUME InvDouane, [NextDouane]_varsDouane
               PROVE  InvDouane'
    OBVIOUS
  <2>1. ASSUME NEW r \in Declarants, NEW d, Charger(r, d)
        PROVE  InvDouane'
    BY <2>1, ChargerInv
  <2>2. ASSUME NEW r \in Declarants, EcrireDemande(r) \/ RelireArticles(r) \/ Recalculer(r)
        PROVE  InvDouane'
    BY <2>2, EcrireDemandeInv, RelireArticlesInv, RecalculerInv
  <2>3. ASSUME NEW r \in Declarants, LireStatut(r)
        PROVE  InvDouane'
    <3>1. PICK s : Passer(r, [etape |-> "changer_statut", statut |-> s])
      BY <2>3 DEF LireStatut
    <3>2. PICK n : n = [etape |-> "changer_statut", statut |-> s]
      OBVIOUS
    <3>3. /\ n.etape \in {"libre", "changer_statut"} /\ Passer(r, n)
          /\ UNCHANGED <<declaration, articles, melee, estimee>>
          /\ saisies[r].etape \notin {"relire", "recalculer"}
      BY <2>3, <3>1, <3>2 DEF LireStatut, Inactive
    <3>4. QED
      BY <3>3, StatutInv
  <2>4. ASSUME NEW r \in Declarants, ChangerStatut(r) \/ Interrompre(r)
        PROVE  InvDouane'
    <3>0. CASE ChangerStatut(r)
      <4>1. /\ Passer(r, Inactive) /\ UNCHANGED <<declaration, articles, melee, estimee>>
            /\ saisies[r].etape = "changer_statut"
        BY <3>0 DEF ChangerStatut, Saisit
      <4>2. QED
        BY <4>1, StatutInv DEF Inactive
    <3>1. CASE Interrompre(r)
      <4>1. Passer(r, Inactive) /\ UNCHANGED <<declaration, articles, estimee>>
        BY <3>1 DEF Interrompre
      <4>2. ~melee' => ~melee /\ saisies[r].etape \notin {"relire", "recalculer"}
        BY <3>1, Zenon DEF Interrompre
      <4>3. QED
        BY <4>1, <4>2, StatutInv DEF Inactive
    <3>2. QED
      BY <2>4, <3>0, <3>1
  <2>5. CASE UNCHANGED varsDouane
    BY <2>5 DEF varsDouane, InvDouane, TypeDouane, EstimationDue, EstimationJuste, EnModification,
                Saisit
  <2>6. QED
    BY <2>1, <2>2, <2>3, <2>4, <2>5 DEF NextDouane
<1>3. InvDouane => EstimationSuit
  BY DEF InvDouane, EstimationDue, EstimationJuste, EstimationSuit
<1>4. QED
  BY <1>1, <1>2, <1>3, PTL DEF SpecDouane

-----------------------------------------------------------------------------
(***************************************************************************)
(* The price grid.                                                         *)
(*                                                                         *)
(* No overlap is inductive only with what the controls established: it     *)
(* holds for a request until a write outdates it.  That an audit without a *)
(* fault is a grid without a hole takes no invariant but the types: the    *)
(* first bracket that reaches a weight starts below it.                    *)
(***************************************************************************)

Rangee(l) == DOMAIN l = {"portee", "tranche", "periode", "actif"} /\ l.tranche \in Tranches

Redaction(d) ==
    /\ d.genre \in {"creation", "modification"} /\ "depassee" \in DOMAIN d
    /\ d.genre = "creation" => \A a \in d.lignes : Rangee(a)
    /\ d.genre = "modification" => d.ligne \in Rangs /\ d.saisie \in Saisies

TypeGrille ==
    /\ DOMAIN grille = Rangs /\ DOMAIN redactions = Redacteurs
    /\ \A i \in Presentes : Rangee(grille[i])
    /\ \A r \in Redacteurs : redactions[r] # Nul => Redaction(redactions[r])

SansChevauchement == \A i, j \in Presentes : i # j => ~Chevauche(grille[i], grille[j])

\* What its control established for a request.
ControleTenu(d) ==
    /\ d.genre = "creation" =>
          /\ \A a, b \in d.lignes : a # b => ~Chevauche(a, b)
          /\ \A a \in d.lignes : SansConflit(a, Nul)
    /\ d.genre = "modification" /\ d.ligne \in Presentes =>
          \/ d.saisie \in [actif : BOOLEAN]
          \/ SansConflit(Modifiee(grille[d.ligne], d.saisie), d.ligne)

ControlesTenus ==
    \A r \in Redacteurs :
        redactions[r] # Nul /\ ~redactions[r].depassee => ControleTenu(redactions[r])

InvGrille == TypeGrille /\ (~doublee => SansChevauchement /\ ControlesTenus)

LEMMA ChevaucheSymetrique == \A a, b : Chevauche(a, b) <=> Chevauche(b, a)
BY DEF Chevauche, TranchesSeChevauchent, PeriodesSeChevauchent

LEMMA RangeeModifiee ==
    ASSUME NEW l, Rangee(l), NEW s \in Saisies
    PROVE  /\ Rangee(Modifiee(l, s))
           /\ s \in [actif : BOOLEAN] =>
                 \A a : Chevauche(a, Modifiee(l, s)) <=> Chevauche(a, l)
<1>1. PICK m : m = Modifiee(l, s)
  OBVIOUS
<1>2. m = [x \in DOMAIN l |-> IF x \in DOMAIN s THEN s[x] ELSE l[x]]
  BY <1>1 DEF Modifiee
<1>3. CASE s \in [tranche : Tranches]
  <2>1. DOMAIN s = {"tranche"} /\ s["tranche"] \in Tranches
    BY <1>3
  <2>2. DOMAIN m = {"portee", "tranche", "periode", "actif"} /\ m["tranche"] \in Tranches
    BY <1>2, <2>1 DEF Rangee
  <2>3. "actif" \notin DOMAIN s
    BY <2>1
  <2>4. s \notin [actif : BOOLEAN]
    BY <2>3
  <2>5. QED
    BY <1>1, <2>2, <2>4 DEF Rangee
<1>4. CASE s \in [periode : Periodes]
  <2>1. DOMAIN s = {"periode"}
    BY <1>4
  <2>2. DOMAIN m = {"portee", "tranche", "periode", "actif"} /\ m["tranche"] = l["tranche"]
    BY <1>2, <2>1 DEF Rangee
  <2>3. "actif" \notin DOMAIN s
    BY <2>1
  <2>4. s \notin [actif : BOOLEAN]
    BY <2>3
  <2>5. QED
    BY <1>1, <2>2, <2>4 DEF Rangee
<1>5. CASE s \in [actif : BOOLEAN]
  <2>1. DOMAIN s = {"actif"}
    BY <1>5
  <2>2. /\ DOMAIN m = {"portee", "tranche", "periode", "actif"} /\ m["tranche"] = l["tranche"]
        /\ m["portee"] = l["portee"] /\ m["periode"] = l["periode"]
    BY <1>2, <2>1 DEF Rangee
  <2>3. \A a : Chevauche(a, m) <=> Chevauche(a, l)
    BY <2>2 DEF Chevauche, TranchesSeChevauchent, PeriodesSeChevauchent
  <2>4. QED
    BY <1>1, <2>2, <2>3 DEF Rangee
<1>6. QED
  BY <1>3, <1>4, <1>5 DEF Saisies

\* A request that has controlled what it enters.
LEMMA RedigerInv ==
    ASSUME InvGrille, NEW r \in Redacteurs, NEW d, Rediger(r, d), Redaction(d),
           ~doublee => ControleTenu(d)
    PROVE  InvGrille'
<1>1. /\ UNCHANGED <<grille, doublee>> /\ DOMAIN redactions' = Redacteurs
      /\ \A o \in Redacteurs : redactions'[o] = IF o = r THEN d ELSE redactions[o]
  BY DEF Rediger, InvGrille, TypeGrille
<1>2. TypeGrille'
  BY <1>1 DEF InvGrille, TypeGrille, Presentes, Redaction, Rangee
<1>3. \A e : ControleTenu(e)' <=> ControleTenu(e)
  BY <1>1 DEF ControleTenu, Presentes, SansConflit, Modifiee
<1>4. ~doublee' => SansChevauchement' /\ ControlesTenus'
  <2> SUFFICES ASSUME ~doublee
               PROVE  SansChevauchement' /\ ControlesTenus'
    BY <1>1
  <2>1. SansChevauchement'
    BY <1>1 DEF InvGrille, SansChevauchement, Presentes
  <2>2. ASSUME NEW o \in Redacteurs, redactions'[o] # Nul, ~redactions'[o].depassee
        PROVE  ControleTenu(redactions'[o])
    BY <1>1, <2>2 DEF InvGrille, ControlesTenus
  <2>3. ControlesTenus'
    BY <1>3, <2>2 DEF ControlesTenus
  <2>4. QED
    BY <2>1, <2>3
<1>5. QED
  BY <1>2, <1>4 DEF InvGrille

LEMMA CreerInv ==
    ASSUME InvGrille, NEW r \in Redacteurs, Creer(r)
    PROVE  InvGrille'
<1>0. PICK portee \in Portees, lignes \in SUBSET Tranches, periode \in Periodes :
         LET n == {LigneDeGrille(portee, t, periode) : t \in lignes}
         IN  /\ \A a, b \in n : a # b => ~TranchesSeChevauchent(a, b)
             /\ \A a \in n : SansConflit(a, Nul)
             /\ Rediger(r, [genre |-> "creation", lignes |-> n, depassee |-> FALSE])
  BY DEF Creer
<1>1. PICK nouvelles, d :
         /\ nouvelles = {LigneDeGrille(portee, t, periode) : t \in lignes}
         /\ \A a, b \in nouvelles : a # b => ~TranchesSeChevauchent(a, b)
         /\ \A a \in nouvelles : SansConflit(a, Nul)
         /\ d = [genre |-> "creation", lignes |-> nouvelles, depassee |-> FALSE]
         /\ Rediger(r, d)
  BY <1>0
<1>2. /\ d.genre = "creation" /\ d.lignes = nouvelles /\ "depassee" \in DOMAIN d
  BY <1>1
<1>3. \A a \in nouvelles : Rangee(a)
  BY <1>1 DEF LigneDeGrille, Rangee
<1>4. Redaction(d)
  BY <1>2, <1>3 DEF Redaction
<1>5. ControleTenu(d)
  BY <1>1, <1>2 DEF ControleTenu, Chevauche
<1>6. QED
  BY <1>1, <1>4, <1>5, RedigerInv

LEMMA ModifierInv ==
    ASSUME InvGrille, NEW r \in Redacteurs, NEW i \in Rangs, Modifier(r, i)
    PROVE  InvGrille'
<1>0. PICK s \in Saisies :
         /\ i \in Presentes /\ Controlee(s, Modifiee(grille[i], s), i)
         /\ Rediger(r, [genre |-> "modification", ligne |-> i, saisie |-> s,
                        depassee |-> FALSE])
  BY DEF Modifier
<1>1. PICK d :
         /\ i \in Presentes /\ Controlee(s, Modifiee(grille[i], s), i)
         /\ d = [genre |-> "modification", ligne |-> i, saisie |-> s, depassee |-> FALSE]
         /\ Rediger(r, d)
  BY <1>0
<1>2. /\ d.genre = "modification" /\ d.ligne = i /\ d.saisie = s /\ "depassee" \in DOMAIN d
  BY <1>1
<1>3. Redaction(d)
  BY <1>2 DEF Redaction
<1>4. DOMAIN s = {"actif"} => s \in [actif : BOOLEAN]
  <2>1. s \in [tranche : Tranches] => "tranche" \in DOMAIN s
    OBVIOUS
  <2>2. s \in [periode : Periodes] => "periode" \in DOMAIN s
    OBVIOUS
  <2>3. QED
    BY <2>1, <2>2 DEF Saisies
<1>5. ControleTenu(d)
  BY <1>1, <1>2, <1>4 DEF ControleTenu, Controlee
<1>6. QED
  BY <1>1, <1>3, <1>5, RedigerInv

\* Every control that was made before a write is known to be outdated.
LEMMA ToutDepasse ==
    ASSUME TypeGrille, NEW r, redactions' = Depasser(r)
    PROVE  /\ DOMAIN redactions' = Redacteurs
           /\ \A o \in Redacteurs : redactions'[o] # Nul =>
                 /\ redactions[o] # Nul /\ redactions'[o].depassee = TRUE
                 /\ Redaction(redactions'[o])
<1>1. /\ DOMAIN redactions' = Redacteurs
      /\ \A o \in Redacteurs : redactions'[o] # Nul =>
            redactions[o] # Nul /\ redactions'[o] = [redactions[o] EXCEPT !.depassee = TRUE]
  BY DEF Depasser
<1>2. ASSUME NEW o \in Redacteurs, redactions'[o] # Nul
      PROVE  /\ redactions[o] # Nul /\ redactions'[o].depassee = TRUE
             /\ Redaction(redactions'[o])
  <2>1. PICK d : d = redactions[o]
    OBVIOUS
  <2>2. PICK e : e = redactions'[o]
    OBVIOUS
  <2>3. Redaction(d) /\ d # Nul /\ e = [d EXCEPT !.depassee = TRUE]
    BY <1>1, <1>2, <2>1, <2>2 DEF TypeGrille
  <2>4. /\ e.depassee = TRUE /\ e.genre = d.genre /\ e.lignes = d.lignes /\ e.ligne = d.ligne
        /\ e.saisie = d.saisie /\ "depassee" \in DOMAIN e
    BY <2>3 DEF Redaction
  <2>5. Redaction(e)
    BY <2>3, <2>4 DEF Redaction
  <2>6. QED
    BY <2>1, <2>2, <2>3, <2>4, <2>5
<1>3. QED
  BY <1>1, <1>2

\* A write that leaves no overlap, unless it was outdated.
LEMMA EcritureInv ==
    ASSUME InvGrille, NEW r, redactions' = Depasser(r), DOMAIN grille' = Rangs,
           \A i \in Presentes' : Rangee(grille'[i]), ~doublee' => SansChevauchement'
    PROVE  InvGrille'
<1>1. TypeGrille
  BY DEF InvGrille
<1>2. /\ DOMAIN redactions' = Redacteurs
      /\ \A o \in Redacteurs : redactions'[o] # Nul =>
            redactions'[o].depassee = TRUE /\ Redaction(redactions'[o])
  BY <1>1, ToutDepasse
<1>3. TypeGrille'
  BY <1>2 DEF TypeGrille, Redaction, Rangee
<1>4. ControlesTenus'
  BY <1>2 DEF ControlesTenus
<1>5. QED
  BY <1>3, <1>4 DEF InvGrille

LEMMA SupprimerInv ==
    ASSUME InvGrille, NEW i \in Rangs, Supprimer(i)
    PROVE  InvGrille'
<1>1. /\ DOMAIN grille' = Rangs /\ redactions' = Depasser(Nul) /\ UNCHANGED doublee
      /\ \A j \in Rangs : grille'[j] = IF j = i THEN Nul ELSE grille[j]
  BY DEF Supprimer, InvGrille, TypeGrille
<1>2. \A j \in Presentes' : j \in Presentes /\ grille'[j] = grille[j]
  BY <1>1 DEF Presentes
<1>3. \A j \in Presentes' : Rangee(grille'[j])
  BY <1>2 DEF InvGrille, TypeGrille
<1>4. SansChevauchement => SansChevauchement'
  BY <1>2 DEF SansChevauchement, Chevauche, TranchesSeChevauchent, PeriodesSeChevauchent
<1>5. ~doublee' => SansChevauchement'
  BY <1>1, <1>4 DEF InvGrille
<1>6. QED
  BY <1>1, <1>3, <1>5, EcritureInv

LEMMA InsererInv ==
    ASSUME HypothesesGrille, InvGrille, NEW r \in Redacteurs, Inserer(r)
    PROVE  InvGrille'
<1>1. PICK d : d = redactions[r]
  OBVIOUS
<1>2. PICK rangs \in SUBSET Libres :
         \E f \in [rangs -> d.lignes] :
            /\ \A i, j \in rangs : i # j => f[i] # f[j]
            /\ grille' = [i \in Rangs |-> IF i \in rangs THEN f[i] ELSE grille[i]]
  BY <1>1 DEF Inserer
<1>0. PICK f \in [rangs -> d.lignes] :
         /\ \A i, j \in rangs : i # j => f[i] # f[j]
         /\ grille' = [i \in Rangs |-> IF i \in rangs THEN f[i] ELSE grille[i]]
  BY <1>2
<1>3. /\ d # Nul /\ d.genre = "creation" /\ Redaction(d) /\ redactions' = Depasser(r)
  BY <1>1 DEF Inserer, InvGrille, TypeGrille
<1>4. ~doublee' => ~doublee /\ ~d.depassee
  BY <1>1, Zenon DEF Inserer
<1>5. \A i \in Rangs : grille'[i] = IF i \in rangs THEN f[i] ELSE grille[i]
  BY <1>0
<1>6. DOMAIN grille' = Rangs
  BY <1>0
<1>7. \A i \in Presentes' : (i \in rangs /\ f[i] \in d.lignes) \/ i \in Presentes \ rangs
  BY <1>0, <1>5 DEF Presentes
<1>8. \A i \in Presentes' : Rangee(grille'[i])
  BY <1>0, <1>3, <1>5, <1>7 DEF InvGrille, TypeGrille, Redaction, Presentes
<1>9. ASSUME ~doublee'
      PROVE  SansChevauchement'
  <2>1. ControleTenu(d) /\ SansChevauchement
    BY <1>1, <1>3, <1>4, <1>9 DEF InvGrille, ControlesTenus
  <2>2. /\ \A a, b \in d.lignes : a # b => ~Chevauche(a, b)
        /\ \A a \in d.lignes : SansConflit(a, Nul)
    BY <1>3, <2>1 DEF ControleTenu
  <2>3. \A a \in d.lignes, i \in Presentes : i # Nul => ~Chevauche(grille[i], a)
    BY <2>2 DEF SansConflit
  <2>4. ASSUME NEW i \in Presentes', NEW j \in Presentes', i # j
        PROVE  ~Chevauche(grille'[i], grille'[j])
    <3>0. i \in Rangs /\ j \in Rangs /\ Nul \notin Rangs
      BY DEF Presentes, HypothesesGrille
    <3>1. CASE i \in rangs /\ j \in rangs
      BY <1>0, <1>5, <2>2, <2>4, <3>0, <3>1
    <3>2. CASE i \in rangs /\ j \notin rangs
      BY <1>0, <1>5, <1>7, <2>3, <3>0, <3>2, ChevaucheSymetrique
    <3>3. CASE i \notin rangs /\ j \in rangs
      BY <1>0, <1>5, <1>7, <2>3, <3>0, <3>3
    <3>4. CASE i \notin rangs /\ j \notin rangs
      BY <1>5, <1>7, <2>1, <2>4, <3>0, <3>4 DEF SansChevauchement
    <3>5. QED
      BY <3>1, <3>2, <3>3, <3>4
  <2>5. QED
    BY <2>4 DEF SansChevauchement, Chevauche, TranchesSeChevauchent, PeriodesSeChevauchent
<1>10. QED
  BY <1>3, <1>6, <1>8, <1>9, EcritureInv

LEMMA AppliquerInv ==
    ASSUME InvGrille, NEW r \in Redacteurs, AppliquerModification(r)
    PROVE  InvGrille'
<1>1. PICK d, i, l : d = redactions[r] /\ i = d.ligne /\ l = Modifiee(grille[i], d.saisie)
  OBVIOUS
<1>2. /\ d # Nul /\ d.genre = "modification" /\ Redaction(d) /\ redactions' = Depasser(r)
      /\ grille' = IF grille[i] = Nul THEN grille ELSE [grille EXCEPT ![i] = l]
  BY <1>1 DEF AppliquerModification, InvGrille, TypeGrille
<1>3. ~doublee' => ~doublee /\ ~d.depassee
  <2>1. doublee' = (doublee \/ d.depassee)
    BY <1>1 DEF AppliquerModification
  <2>2. QED
    BY <2>1, Zenon
<1>4. i \in Rangs /\ d.saisie \in Saisies
  BY <1>1, <1>2 DEF Redaction
<1>5. DOMAIN grille' = Rangs
  BY <1>2 DEF InvGrille, TypeGrille
<1>6. \A j \in Presentes' : j \in Presentes /\ grille'[j] = IF j = i THEN l ELSE grille[j]
  BY <1>2, <1>4 DEF Presentes, InvGrille, TypeGrille
<1>7. i \in Presentes =>
         /\ Rangee(l)
         /\ d.saisie \in [actif : BOOLEAN] => \A a : Chevauche(a, l) <=> Chevauche(a, grille[i])
  <2> SUFFICES ASSUME i \in Presentes
               PROVE  /\ Rangee(l)
                      /\ d.saisie \in [actif : BOOLEAN] =>
                            \A a : Chevauche(a, l) <=> Chevauche(a, grille[i])
    OBVIOUS
  <2>1. Rangee(grille[i])
    BY DEF InvGrille, TypeGrille
  <2>2. QED
    BY <1>1, <1>4, <2>1, RangeeModifiee
<1>8. \A j \in Presentes' : Rangee(grille'[j])
  BY <1>6, <1>7 DEF InvGrille, TypeGrille
<1>9. ASSUME ~doublee'
      PROVE  SansChevauchement'
  <2>1. ControleTenu(d) /\ SansChevauchement
    BY <1>1, <1>2, <1>3, <1>9 DEF InvGrille, ControlesTenus
  <2>2. ASSUME i \in Presentes, NEW j \in Presentes, j # i
        PROVE  ~Chevauche(grille[j], l)
    <3>1. ~Chevauche(grille[j], grille[i])
      BY <2>1, <2>2 DEF SansChevauchement
    <3>2. d.saisie \in [actif : BOOLEAN] \/ SansConflit(l, i)
      BY <1>1, <1>2, <2>1, <2>2 DEF ControleTenu
    <3>3. QED
      BY <1>7, <2>2, <3>1, <3>2 DEF SansConflit
  <2>3. ASSUME NEW j \in Presentes', NEW k \in Presentes', j # k
        PROVE  ~Chevauche(grille'[j], grille'[k])
    <3>1. CASE j # i /\ k # i
      BY <1>6, <2>1, <2>3, <3>1 DEF SansChevauchement
    <3>2. CASE j # i /\ k = i
      BY <1>6, <2>2, <3>2
    <3>3. CASE j = i
      BY <1>6, <2>2, <2>3, <3>3, ChevaucheSymetrique
    <3>4. QED
      BY <3>1, <3>2, <3>3
  <2>4. QED
    BY <2>3 DEF SansChevauchement, Chevauche, TranchesSeChevauchent, PeriodesSeChevauchent
<1>10. QED
  BY <1>2, <1>5, <1>8, <1>9, EcritureInv

\* The audit: a weight is in the first bracket, by the lower bounds, that reaches it.
LEMMA AuditSuffisant ==
    ASSUME HypothesesGrille, TypeGrille, Conforme, NEW poids \in 0 .. PoidsMax
    PROVE  \E i \in Actives : grille[i].tranche[1] <= poids /\ poids <= grille[i].tranche[2]
<1>1. PICK n : n = Cardinality(Actives)
  OBVIOUS
<1>2. PICK f \in Tris :
         /\ grille[f[1]].tranche[1] = 0 /\ SansTrou(f, Infini)
         /\ grille[f[n]].tranche[2] >= PoidsMax
  BY <1>1 DEF Conforme
<1>3. n \in Nat \ {0}
  <2>1. Actives \in SUBSET Rangs /\ Actives # {}
    BY DEF Actives, Presentes, Conforme
  <2>2. IsFiniteSet(Actives)
    BY <2>1, FS_Subset DEF HypothesesGrille
  <2>3. QED
    BY <1>1, <2>1, <2>2, FS_CardinalityType, FS_EmptySet
<1>4. f \in [1 .. n -> Actives] /\ Len(f) = n
  <2>1. f \in [1 .. n -> Actives]
    BY <1>1, <1>2 DEF Tris
  <2>2. f \in Seq(Actives)
    BY <1>3, <2>1
  <2>3. QED
    BY <1>3, <2>1, <2>2, LenProperties
<1>5. \A k \in 1 .. n : /\ f[k] \in Actives /\ grille[f[k]].tranche \in Tranches
                        /\ grille[f[k]].tranche[1] \in Nat /\ grille[f[k]].tranche[2] \in Nat
  BY <1>4 DEF Actives, TypeGrille, Rangee, HypothesesGrille
<1>6. Infini \in Nat /\ \A k \in 1 .. n : grille[f[k]].tranche[2] <= Infini
  <2>1. \E t \in {b[2] : b \in Tranches} : \A b \in Tranches : b[2] <= t
    BY DEF HypothesesGrille
  <2>2. Infini \in {b[2] : b \in Tranches} /\ \A b \in Tranches : b[2] <= Infini
    BY <2>1 DEF Infini
  <2>3. QED
    BY <1>5, <2>2 DEF HypothesesGrille
<1>7. PICK S : S = {k \in 1 .. n : poids <= grille[f[k]].tranche[2]}
  OBVIOUS
<1>8. n \in S
  BY <1>2, <1>3, <1>5, <1>7 DEF HypothesesGrille
<1>9. PICK k \in S : \A j \in S : k <= j
  <2>1. S \subseteq Nat /\ S # {}
    BY <1>7, <1>8
  <2>2. PICK R : R = {p \in Nat \X Nat : p[1] < p[2]}
    OBVIOUS
  <2>3. IsWellFoundedOn(R, Nat)
    BY <2>2, NatLessThanWellFounded DEF OpToRel
  <2>4. \E k \in S : \A j \in S : <<j, k>> \notin R
    BY <2>1, <2>3, WFMin
  <2>5. \A j, k \in S : <<j, k>> \notin R => k <= j
    BY <2>1, <2>2
  <2>6. QED
    BY <2>4, <2>5
<1>10. k \in 1 .. n /\ poids <= grille[f[k]].tranche[2]
  BY <1>7, <1>9
<1>11. CASE k = 1
  BY <1>2, <1>5, <1>10, <1>11
<1>12. CASE k # 1
  <2>1. k - 1 \in 1 .. n - 1 /\ k - 1 \in 1 .. n /\ k - 1 + 1 = k
    BY <1>3, <1>10, <1>12
  <2>2. \A j \in 1 .. k - 1 : j \in 1 .. n /\ j \notin S
    BY <1>3, <1>9, <1>10
  <2>3. \A j \in 1 .. k - 1 : grille[f[j]].tranche[2] < poids
    BY <1>5, <1>7, <2>2
  <2>4. poids <= Infini
    BY <1>5, <1>6, <1>10
  <2>5. \A j \in 1 .. k - 1 : grille[f[j]].tranche[2] < Infini
    BY <1>5, <1>6, <2>2, <2>3, <2>4
  <2>6. grille[f[k]].tranche[1] <= grille[f[k - 1]].tranche[2]
    BY <1>2, <1>4, <2>1, <2>5 DEF SansTrou
  <2>7. grille[f[k]].tranche[1] <= poids
    BY <1>5, <1>10, <2>1, <2>3, <2>6
  <2>8. QED
    BY <1>5, <1>10, <2>7
<1>13. QED
  BY <1>11, <1>12

\* As long as no write follows a control that another has outdated, two rows of the grid never
\* overlap, and a grid without a fault for the audit prices every weight, for any requests, rows,
\* brackets and periods (verifierChevauchement, auditerGrille).
THEOREM GrillesSures == HypothesesGrille /\ SpecGrille => []GrilleSure
<1> SUFFICES ASSUME HypothesesGrille
             PROVE  SpecGrille => []GrilleSure
  OBVIOUS
<1>1. InitGrille => InvGrille
  BY DEF InitGrille, InvGrille, TypeGrille, SansChevauchement, ControlesTenus, Presentes
<1>2. InvGrille /\ [NextGrille]_varsGrille => InvGrille'
  <2> SUFFICES ASSUME InvGrille, [NextGrille]_varsGrille
               PROVE  InvGrille'
    OBVIOUS
  <2>1. ASSUME NEW r \in Redacteurs, Creer(r) \/ Inserer(r) \/ AppliquerModification(r)
        PROVE  InvGrille'
    BY <2>1, CreerInv, InsererInv, AppliquerInv
  <2>2. ASSUME NEW i \in Rangs, Supprimer(i) \/ \E r \in Redacteurs : Modifier(r, i)
        PROVE  InvGrille'
    BY <2>2, SupprimerInv, ModifierInv
  <2>3. CASE UNCHANGED varsGrille
    <3>1. UNCHANGED <<grille, redactions, doublee>>
      BY <2>3 DEF varsGrille
    <3>2. TypeGrille'
      BY <3>1 DEF InvGrille, TypeGrille, Presentes, Redaction, Rangee
    <3>3. SansChevauchement => SansChevauchement'
      BY <3>1 DEF SansChevauchement, Presentes
    <3>4. \A d : ControleTenu(d) => ControleTenu(d)'
      BY <3>1 DEF ControleTenu, Presentes, SansConflit, Modifiee
    <3>5. ControlesTenus => ControlesTenus'
      BY <3>1, <3>4 DEF ControlesTenus
    <3>6. QED
      BY <3>1, <3>2, <3>3, <3>5 DEF InvGrille
  <2>4. QED
    BY <2>1, <2>2, <2>3 DEF NextGrille
<1>3. InvGrille => GrilleSure
  BY AuditSuffisant DEF InvGrille, SansChevauchement, GrilleSure
<1>4. QED
  BY <1>1, <1>2, <1>3, PTL DEF SpecGrille
=============================================================================
