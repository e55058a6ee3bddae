----------------------------- MODULE Territoire -----------------------------
(***************************************************************************)
(* The reference data a parcel rests on: zones, cities, collection points, *)
(* services and the rows of the price grid, as zone.service.js,            *)
(* ville.service.js, pointCollecte.service.js and serviceExpedition.       *)
(* service.js write them.  Each request reads, controls what it read       *)
(* against other tables, and writes later, without a transaction; a        *)
(* deletion counts the rows that refer to it, then relies on what the      *)
(* foreign keys do with those that came since, and with the rows that no   *)
(* count looks at.                                                         *)
(*                                                                         *)
(* A parcel is declared from one city and one point, the tariffs have one  *)
(* zone.  Opening hours, names and codes are left out.                     *)
(***************************************************************************)
EXTENDS FiniteSets

CONSTANTS
    Administrateurs,    \* requests of administrators
    CODES_PAYS,  \* countries
    Zones, PaysDe,   \* zones of cities, and the country of each, which never changes
    Villes, Points, Services, Tarifs, Colis,
    Annexes,     \* rows that refer to one of those and that no count looks at
    NonDefini

\* What the model takes of its constants.
HypothesesTerritoire ==
    /\ PaysDe \in [Zones -> CODES_PAYS]
    /\ NonDefini \notin Zones \cup Villes \cup Points \cup Services
    /\ NonDefini \notin Administrateurs

VARIABLES
    zones,      \* zones that exist
    villes,     \* per city: its row, or SansLigne
    points,     \* per point: its row, or SansLigne
    services,   \* services that exist
    tarifs,     \* per row of the grid: the row, or SansLigne
    envois,     \* per parcel: the row, or SansLigne
    annexes,    \* per other row: the row, or SansLigne
    requetes,   \* per request: what it has controlled and is about to write
    depassees,  \* auxiliary: requests whose control another write has outdated
    croisees,   \* auxiliary: some write followed a control that another write had outdated
    pertes      \* auxiliary: rows that a deletion took away or changed beside its own

donnees == <<zones, villes, points, services, tarifs, envois, annexes>>
varsTerritoire == <<donnees, requetes, depassees, croisees, pertes>>

SansLigne == [existe |-> FALSE]
SansRequete == [genre |-> "libre"]

Ville(pays, zone) == [existe |-> TRUE, pays |-> pays, zone |-> zone]
PointDe(pays, ville) == [existe |-> TRUE, pays |-> pays, ville |-> ville]

Existantes(table) == {i \in DOMAIN table : table[i].existe}

InitTerritoire ==
    /\ zones = {} /\ services = {}
    /\ villes = [v \in Villes |-> SansLigne]
    /\ points = [p \in Points |-> SansLigne]
    /\ tarifs = [t \in Tarifs |-> SansLigne]
    /\ envois = [c \in Colis |-> SansLigne]
    /\ annexes = [x \in Annexes |-> SansLigne]
    /\ requetes = [r \in Administrateurs |-> SansRequete]
    /\ depassees = {}
    /\ croisees = FALSE
    /\ pertes = {}

-----------------------------------------------------------------------------
(* Controls *)

\* validerZone: none, or one of the country of the city.
ZoneValide(zone, pays) == zone = NonDefini \/ (zone \in zones /\ PaysDe[zone] = pays)

\* validerVille: the city of a point is in the country of the point.
VilleValide(ville, pays) == ville \in Existantes(villes) /\ villes[ville].pays = pays

PointsDe(v) == {p \in Existantes(points) : points[p].ville = v}
ColisDeVille(v) == {c \in Existantes(envois) : envois[c].ville = v}
ColisDePoint(p) == {c \in Existantes(envois) : envois[c].point = p}
ColisDeService(s) == {c \in Existantes(envois) : envois[c].service = s}
TarifsDeZone(z) == {t \in Existantes(tarifs) : tarifs[t].zone = z}
AdressesDe(v) == {x \in Existantes(annexes) : annexes[x].table = "adresse" /\ annexes[x].cible = v}
TarifsDeService(s) == {t \in Existantes(tarifs) : tarifs[t].service = s}

Controler(r, ecriture) ==
    /\ requetes[r] = SansRequete
    /\ requetes' = [requetes EXCEPT ![r] = ecriture]
    /\ UNCHANGED <<donnees, depassees, croisees, pertes>>

\* The columns that a request writes; "existe" stands for an insertion.
Ecriture(genre, id, ligne, colonnes) ==
    [genre |-> genre, id |-> id, ligne |-> ligne, colonnes |-> colonnes]

CreerVille(r, v, pays, zone) ==
    /\ v \notin Existantes(villes) /\ ZoneValide(zone, pays)
    /\ Controler(r, Ecriture("ville", v, Ville(pays, zone), {"existe", "pays", "zone"}))

\* Variant: a city may change its country whatever stands in it.
PaysModifiableToujours(v, pays) == v \in Villes

\* A city where points stand keeps its country.
PaysModifiable(v, pays) == pays = villes[v].pays \/ PointsDe(v) = {}

\* A change of country alone does not look at the zone again.
ModifierVille(r, v, pays, zone) ==
    /\ v \in Existantes(villes) /\ ZoneValide(zone, pays) /\ PaysModifiable(v, pays)
    /\ \/ Controler(r, Ecriture("ville", v, Ville(pays, zone), {"pays", "zone"}))
       \/ Controler(r, Ecriture("ville", v, Ville(pays, NonDefini), {"pays"}))

\* affecterVilles, retirerVilles; only the cities still in the zone are withdrawn.
AffecterVille(r, z, v) ==
    /\ z \in zones /\ v \in Existantes(villes) /\ villes[v].pays = PaysDe[z]
    /\ Controler(r, Ecriture("ville", v, Ville(NonDefini, z), {"zone"}))

RetirerVille(r, z, v) ==
    /\ z \in zones /\ v \in Existantes(villes)
    /\ Controler(r, [genre |-> "retrait", id |-> v, zone |-> z])

CreerPoint(r, p, pays, v) ==
    /\ p \notin Existantes(points) /\ VilleValide(v, pays)
    /\ Controler(r, Ecriture("point", p, PointDe(pays, v), {"existe", "pays", "ville"}))

\* The country and the city that the point will have are checked together.
ModifierPoint(r, p, pays, v) ==
    /\ p \in Existantes(points) /\ VilleValide(v, pays)
    /\ \/ Controler(r, Ecriture("point", p, PointDe(pays, v), {"pays", "ville"}))
       \/ /\ pays = points[p].pays
          /\ Controler(r, Ecriture("point", p, PointDe(NonDefini, v), {"ville"}))
       \/ /\ v = points[p].ville
          /\ Controler(r, Ecriture("point", p, PointDe(pays, NonDefini), {"pays"}))

DemanderSuppression(r, table, id) ==
    Controler(r, [genre |-> "suppression", table |-> table, id |-> id])

\* Refused as long as something refers to the row.
SupprimerZone(r, z) == z \in zones /\ TarifsDeZone(z) = {} /\ DemanderSuppression(r, "zone", z)
SupprimerVille(r, v) ==
    /\ v \in Existantes(villes) /\ PointsDe(v) = {} /\ ColisDeVille(v) = {}
    /\ DemanderSuppression(r, "ville", v)
SupprimerPoint(r, p) ==
    p \in Existantes(points) /\ ColisDePoint(p) = {} /\ DemanderSuppression(r, "point", p)
SupprimerService(r, s) ==
    s \in services /\ ColisDeService(s) = {} /\ DemanderSuppression(r, "service", s)

-----------------------------------------------------------------------------
(* Writes *)

\* The controls of the other requests were made before this write.
Depasser(r) ==
    /\ requetes' = [q \in Administrateurs |-> IF q = r THEN SansRequete ELSE requetes[q]]
    /\ depassees' = {q \in Administrateurs : q # r /\ requetes[q] # SansRequete}
    /\ croisees' = (croisees \/ r \in depassees)

\* What a foreign key refuses: a city without its zone, a point without its city.
Referencee(e) ==
    /\ "zone" \in e.colonnes => e.ligne.zone \in zones \cup {NonDefini}
    /\ "ville" \in e.colonnes => e.ligne.ville \in Existantes(villes)

\* A row that was deleted since is not created again by a change.
Acceptee(table, e) == Referencee(e) /\ ("existe" \in e.colonnes \/ table[e.id].existe)

\* Only the columns of the request are written.
VilleEcrite(e) ==
    LET l == villes[e.id]
    IN Ville(IF "pays" \in e.colonnes THEN e.ligne.pays ELSE l.pays,
             IF "zone" \in e.colonnes THEN e.ligne.zone ELSE l.zone)
PointEcrit(e) ==
    LET l == points[e.id]
    IN PointDe(IF "pays" \in e.colonnes THEN e.ligne.pays ELSE l.pays,
               IF "ville" \in e.colonnes THEN e.ligne.ville ELSE l.ville)

EcrireVille(r) ==
    LET e == requetes[r]
    IN /\ e.genre = "ville"
       /\ villes' = IF Acceptee(villes, e) THEN [villes EXCEPT ![e.id] = VilleEcrite(e)] ELSE villes
       /\ Depasser(r)
       /\ UNCHANGED <<zones, points, services, tarifs, envois, annexes, pertes>>

EcrireRetrait(r) ==
    LET e == requetes[r]
    IN /\ e.genre = "retrait"
       /\ villes' = IF villes[e.id].existe /\ villes[e.id].zone = e.zone
                    THEN [villes EXCEPT ![e.id].zone = NonDefini] ELSE villes
       /\ Depasser(r)
       /\ UNCHANGED <<zones, points, services, tarifs, envois, annexes, pertes>>

EcrirePoint(r) ==
    LET e == requetes[r]
    IN /\ e.genre = "point"
       /\ points' = IF Acceptee(points, e) THEN [points EXCEPT ![e.id] = PointEcrit(e)] ELSE points
       /\ Depasser(r)
       /\ UNCHANGED <<zones, villes, services, tarifs, envois, annexes, pertes>>

Vider(table, ids) == [i \in DOMAIN table |-> IF i \in ids THEN SansLigne ELSE table[i]]
Detacher(table, champ, ids) ==
    [i \in DOMAIN table |->
        IF table[i].existe /\ table[i][champ] \in ids THEN [table[i] EXCEPT ![champ] = NonDefini]
        ELSE table[i]]

Efface(r, table) ==
    requetes[r].genre = "suppression" /\ requetes[r].table = table /\ Depasser(r)

\* Its cities, and the tariffs written since, become national.
EffacerZone(r) ==
    LET z == requetes[r].id
    IN /\ Efface(r, "zone")
       /\ zones' = zones \ {z}
       /\ villes' = Detacher(villes, "zone", {z})
       /\ tarifs' = Detacher(tarifs, "zone", {z})
       /\ pertes' = pertes \cup TarifsDeZone(z)
       /\ UNCHANGED <<points, services, envois, annexes>>

\* An address and a pick-up, whose city may not be NULL, keep it from going; otherwise its points
\* and its parcels go with it (CASCADE), and what is left of it in other rows is NULL.
EffacerVille(r) ==
    LET v == requetes[r].id
    IN /\ Efface(r, "ville")
       /\ IF AdressesDe(v) # {} THEN UNCHANGED <<villes, points, envois, annexes, pertes>>
          ELSE /\ villes' = Vider(villes, {v})
               /\ points' = Vider(points, PointsDe(v))
               /\ envois' = Detacher(Vider(envois, ColisDeVille(v)), "point", PointsDe(v))
               /\ annexes' = Detacher(annexes, "cible", {v} \cup PointsDe(v))
               /\ pertes' = pertes \cup PointsDe(v) \cup ColisDeVille(v)
       /\ UNCHANGED <<zones, services, tarifs>>

\* The parcels no longer say where they were left, nor the rows of the timeline where the parcel
\* passed, nor the rotations and the rounds where they go (SET NULL).
EffacerPoint(r) ==
    LET p == requetes[r].id
    IN /\ Efface(r, "point")
       /\ points' = Vider(points, {p})
       /\ envois' = Detacher(envois, "point", {p})
       /\ annexes' = Detacher(annexes, "cible", {p})
       /\ pertes' = pertes \cup ColisDePoint(p)
       /\ UNCHANGED <<zones, villes, services, tarifs>>

\* The grid is deleted first; the deletion of the service fails on a parcel declared since.  A
\* surcharge of the service applies to all of them from then on (SET NULL).
EffacerService(r) ==
    LET s == requetes[r].id
    IN /\ Efface(r, "service")
       /\ tarifs' = Vider(tarifs, TarifsDeService(s))
       /\ IF ColisDeService(s) = {}
          THEN /\ services' = services \ {s}
               /\ annexes' = Detacher(annexes, "cible", {s})
               /\ UNCHANGED pertes
          ELSE pertes' = pertes \cup TarifsDeService(s) /\ UNCHANGED <<services, annexes>>
       /\ UNCHANGED <<zones, villes, points, envois>>

-----------------------------------------------------------------------------
(* Rows written in one step: what they refer to exists, or the database refuses them. *)

CreerZone(z) ==
    /\ z \notin zones /\ zones' = zones \cup {z} /\ Depasser(NonDefini)
    /\ UNCHANGED <<villes, points, services, tarifs, envois, annexes, pertes>>

CreerService(s) ==
    /\ s \notin services /\ services' = services \cup {s} /\ Depasser(NonDefini)
    /\ UNCHANGED <<zones, villes, points, tarifs, envois, annexes, pertes>>

CreerTarif(t, s, z) ==
    /\ t \notin Existantes(tarifs) /\ s \in services /\ z \in zones \cup {NonDefini}
    /\ tarifs' = [tarifs EXCEPT ![t] = [existe |-> TRUE, service |-> s, zone |-> z]]
    /\ Depasser(NonDefini)
    /\ UNCHANGED <<zones, villes, points, services, envois, annexes, pertes>>

Declarer(c, v, p, s) ==
    /\ c \notin Existantes(envois)
    /\ v \in Existantes(villes) /\ p \in Existantes(points) /\ s \in services
    /\ envois' = [envois EXCEPT ![c] = [existe |-> TRUE, ville |-> v, point |-> p, service |-> s]]
    /\ Depasser(NonDefini)
    /\ UNCHANGED <<zones, villes, points, services, tarifs, annexes, pertes>>

\* A row that no control and no count looks at: an address or a pick-up in a city; a client in
\* one; a surcharge of a service; a row of a timeline, a rotation, an agent, a round or a proof
\* of delivery at a point.
CreerAnnexe(x, table, cible) ==
    /\ x \notin Existantes(annexes)
    /\ \/ table \in {"adresse", "client"} /\ cible \in Existantes(villes)
       \/ table = "surcharge" /\ cible \in services
       \/ table = "passage" /\ cible \in Existantes(points)
    /\ annexes' = [annexes EXCEPT ![x] = [existe |-> TRUE, table |-> table, cible |-> cible]]
    /\ UNCHANGED <<zones, villes, points, services, tarifs, envois>>
    /\ UNCHANGED <<requetes, depassees, croisees, pertes>>

NextTerritoire ==
    \/ \E r \in Administrateurs :
          \/ \E v \in Villes, pays \in CODES_PAYS :
                \/ \E z \in Zones \cup {NonDefini} :
                      CreerVille(r, v, pays, z) \/ ModifierVille(r, v, pays, z)
                \/ \E p \in Points : CreerPoint(r, p, pays, v) \/ ModifierPoint(r, p, pays, v)
          \/ \E v \in Villes, z \in Zones : AffecterVille(r, z, v) \/ RetirerVille(r, z, v)
          \/ \E z \in Zones : SupprimerZone(r, z)
          \/ \E v \in Villes : SupprimerVille(r, v)
          \/ \E p \in Points : SupprimerPoint(r, p)
          \/ \E s \in Services : SupprimerService(r, s)
          \/ EcrireVille(r) \/ EcrireRetrait(r) \/ EcrirePoint(r)
          \/ EffacerZone(r) \/ EffacerVille(r) \/ EffacerPoint(r) \/ EffacerService(r)
    \/ \E z \in Zones : CreerZone(z)
    \/ \E s \in Services : CreerService(s)
    \/ \E t \in Tarifs, s \in Services, z \in Zones \cup {NonDefini} : CreerTarif(t, s, z)
    \/ \E c \in Colis, v \in Villes, p \in Points, s \in Services : Declarer(c, v, p, s)
    \/ \E x \in Annexes, cible \in Villes \cup Points \cup Services,
          table \in {"adresse", "client", "surcharge", "passage"} : CreerAnnexe(x, table, cible)

SpecTerritoire == InitTerritoire /\ [][NextTerritoire]_varsTerritoire

-----------------------------------------------------------------------------
(* Properties *)

\* So long as no write came between the control of another and its write, no sequence of
\* creations, changes and deletions leaves a point outside the country of its city, and no
\* deletion takes along, or detaches, what its count is there for: the points and the parcels of
\* a city, the parcels of a point, the prices of a zone, the prices of a service that parcels
\* keep.  The other rows that refer to those are not counted, and nothing is said of them.
TerritoireCoherent ==
    ~croisees => /\ \A p \in Existantes(points) : points[p].pays = villes[points[p].ville].pays
                 /\ pertes = {}
=============================================================================
