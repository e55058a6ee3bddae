----------------------------- MODULE Personnel -----------------------------
(***************************************************************************)
(* The staff.  An agent names his point (pointCollecteId of the user) and  *)
(* a point names the agent in charge of it (responsableId of the point):   *)
(* updatePersonnel and updatePoint keep the two columns together with one  *)
(* UPDATE each, without a transaction or a lock.  Of the administrators,   *)
(* the last active super administrator may not be removed: updateAdmin     *)
(* counts them and writes later, without a lock.                           *)
(***************************************************************************)
EXTENDS Integers, FiniteSets

CONSTANTS
    Gestes,         \* requests in flight, each between two awaits
    Employes,       \* accounts of agents of collection points
    Points,         \* collection points, all of one country
    Vacant,         \* null
    Absent,         \* the point of an agent who has no account yet
    Admins          \* accounts of administrators

\* What the model takes of its constants.
HypothesesPersonnel ==
    /\ {Vacant, Absent} \cap (Points \cup Employes) = {} /\ Vacant # Absent
    /\ IsFiniteSet(Admins) /\ Admins # {}

VARIABLES
    point,         \* pointCollecteId of each agent
    responsable,   \* responsableId of each point
    bureau,        \* requests in flight
    croises        \* auxiliary: agents two requests moved at once, or left half moved, and
                   \* agents in charge of a point who were put in charge of another
VARIABLES
    admin,         \* the rows of the administrators
    modification,  \* requests in flight, each between the check and the write
    recoupes       \* auxiliary: two checks have been made before a write

varsAgents == <<point, responsable, bureau, croises>>
varsAdmins == <<admin, modification, recoupes>>

AuRepos == [etape |-> "libre"]

InitAgents ==
    /\ point = [a \in Employes |-> Absent]
    /\ responsable = [p \in Points |-> Vacant]
    /\ bureau = [r \in Gestes |-> AuRepos]
    /\ croises = {}

CommencerBureau(r, suite) == bureau[r] = AuRepos /\ bureau' = [bureau EXCEPT ![r] = suite]
PasserBureau(r, suite) == bureau' = [bureau EXCEPT ![r] = suite]
AuBureau(r, etape) == bureau[r].etape = etape

-----------------------------------------------------------------------------
(* Agents and points *)

\* The agents the request in flight r moves.
Deplaces(r) == IF bureau[r] = AuRepos THEN {} ELSE bureau[r].agents

Croise(agents) ==
    croises' = croises \cup (agents \cap UNION {Deplaces(r) : r \in Gestes})

\* createPersonnel: the row of the new agent; then his point puts him in charge, with one
\* UPDATE, when it has nobody.
CreerPersonnel(r, a, p) ==
    /\ point[a] = Absent
    /\ CommencerBureau(r, [etape |-> "nommer", agents |-> {a}, agent |-> a,
                     ancien |-> Vacant, nouveau |-> p])
    /\ point' = [point EXCEPT ![a] = p]
    /\ UNCHANGED <<responsable, croises>>

NommerResponsable(r) ==
    LET q == bureau[r]
    IN /\ AuBureau(r, "nommer")
       /\ responsable' = [responsable EXCEPT ![q.nouveau] = IF @ = Vacant THEN q.agent ELSE @]
       /\ PasserBureau(r, AuRepos)
       /\ UNCHANGED <<point, croises>>

\* updatePersonnel: the agent's row, the point he leaves, the point he joins.
LirePersonnel(r, a, p) ==
    /\ point[a] \notin {Absent, p}
    /\ CommencerBureau(r, [etape |-> "ecrire_personnel", agents |-> {a}, agent |-> a,
                     ancien |-> point[a], nouveau |-> p])
    /\ Croise({a})
    /\ UNCHANGED <<point, responsable>>

EcrirePersonnel(r) ==
    LET q == bureau[r]
    IN /\ AuBureau(r, "ecrire_personnel")
       /\ point' = [point EXCEPT ![q.agent] = q.nouveau]
       /\ PasserBureau(r, [q EXCEPT !.etape = "quitter_point"])
       /\ UNCHANGED <<responsable, croises>>

\* Variant: the point he leaves keeps him in charge.
PointQuitteOublie(p, a) == responsable

\* UPDATE ... SET responsableId = null WHERE id = p AND responsableId = a
PointQuitte(p, a) ==
    [q \in Points |-> IF q = p /\ responsable[q] = a THEN Vacant ELSE responsable[q]]

QuitterPoint(r) ==
    LET q == bureau[r]
    IN /\ AuBureau(r, "quitter_point")
       /\ responsable' = PointQuitte(q.ancien, q.agent)
       /\ PasserBureau(r, [q EXCEPT !.etape = "rejoindre_point"])
       /\ UNCHANGED <<point, croises>>

RejoindrePoint(r) ==
    LET q == bureau[r]
    IN /\ AuBureau(r, "rejoindre_point")
       /\ responsable' = [responsable EXCEPT ![q.nouveau] = q.agent]
       /\ PasserBureau(r, AuRepos)
       /\ UNCHANGED <<point, croises>>

\* updatePoint: the row of the point, the agent it had, the agent it gets (createPoint does
\* the last for a new point).  Nothing looks at the point the new agent was in charge of.
LireResponsable(r, p, a) ==
    /\ a # responsable[p] /\ (a # Vacant => point[a] # Absent)
    /\ CommencerBureau(r, [etape |-> "ecrire_point", agents |-> {a, responsable[p]} \ {Vacant},
                     point |-> p, ancien |-> responsable[p], nouveau |-> a])
    /\ croises' = croises \cup (bureau'[r].agents \cap UNION {Deplaces(s) : s \in Gestes})
                          \cup {b \in {a} \ {Vacant} : \E q \in Points : responsable[q] = b}
    /\ UNCHANGED <<point, responsable>>

EcrirePoint(r) ==
    LET q == bureau[r]
    IN /\ AuBureau(r, "ecrire_point")
       /\ responsable' = [responsable EXCEPT ![q.point] = q.nouveau]
       /\ PasserBureau(r, [q EXCEPT !.etape = "detacher"])
       /\ UNCHANGED <<point, croises>>

Affecter(a, p) == IF a = Vacant THEN point ELSE [point EXCEPT ![a] = p]

DetacherAncien(r) ==
    LET q == bureau[r]
    IN /\ AuBureau(r, "detacher")
       /\ point' = Affecter(q.ancien, Vacant)
       /\ PasserBureau(r, [q EXCEPT !.etape = "rattacher"])
       /\ UNCHANGED <<responsable, croises>>

RattacherNouveau(r) ==
    LET q == bureau[r]
    IN /\ AuBureau(r, "rattacher")
       /\ point' = Affecter(q.nouveau, q.point)
       /\ PasserBureau(r, AuRepos)
       /\ UNCHANGED <<responsable, croises>>

\* A request fails, or its process stops: what it wrote before stays.
AbandonnerBureau(r) ==
    /\ bureau[r] # AuRepos
    /\ croises' = croises \cup Deplaces(r)
    /\ PasserBureau(r, AuRepos)
    /\ UNCHANGED <<point, responsable>>

NextAgents ==
    \E r \in Gestes :
       \/ \E a \in Employes, p \in Points : CreerPersonnel(r, a, p) \/ LirePersonnel(r, a, p)
       \/ NommerResponsable(r)
       \/ EcrirePersonnel(r) \/ QuitterPoint(r) \/ RejoindrePoint(r)
       \/ \E p \in Points, a \in Employes \cup {Vacant} : LireResponsable(r, p, a)
       \/ EcrirePoint(r) \/ DetacherAncien(r) \/ RattacherNouveau(r)
       \/ AbandonnerBureau(r)

SpecAgents == InitAgents /\ [][NextAgents]_varsAgents

-----------------------------------------------------------------------------
(* Administrators *)

Roles == {"admin", "super_admin"}
Admin == [role : Roles, isActive : BOOLEAN]

InitAdmins ==
    /\ admin = [a \in Admins |-> [role |-> "super_admin", isActive |-> TRUE]]
    /\ modification = [r \in Gestes |-> AuRepos]
    /\ recoupes = FALSE

SuperActifs == {a \in Admins : admin[a].role = "super_admin" /\ admin[a].isActive}

\* Variant: the super administrators who were deactivated count as well.
DernierDuRole(a) ==
    admin[a].role = "super_admin" /\ Cardinality({b \in Admins : admin[b].role = "super_admin"}) <= 1

\* assertNotLastSuperAdmin
DernierSuperAdmin(a) == admin[a].role = "super_admin" /\ Cardinality(SuperActifs) <= 1

\* updateAdmin checks a change of role and a deactivation, on the rows as they are.
LireAdmin(r, a, voulu) ==
    /\ voulu.role # admin[a].role \/ ~voulu.isActive => ~DernierSuperAdmin(a)
    /\ modification[r] = AuRepos
    /\ modification' = [modification EXCEPT ![r] =
          [etape |-> "ecrire", admin |-> a, voulu |-> voulu, lu |-> admin[a]]]
    /\ recoupes' = (recoupes \/ \E o \in Gestes : modification[o] # AuRepos)
    /\ UNCHANGED admin

\* The columns that differ from the row that was read.
EcrireAdmin(r) ==
    LET q == modification[r]
    IN /\ q # AuRepos
       /\ admin' = [admin EXCEPT ![q.admin] =
             [role |-> IF q.voulu.role # q.lu.role THEN q.voulu.role ELSE @.role,
              isActive |-> IF q.voulu.isActive # q.lu.isActive THEN q.voulu.isActive
                           ELSE @.isActive]]
       /\ modification' = [modification EXCEPT ![r] = AuRepos]
       /\ UNCHANGED recoupes

NextAdmins ==
    \E r \in Gestes :
        \/ \E a \in Admins, voulu \in Admin : LireAdmin(r, a, voulu)
        \/ EcrireAdmin(r)

SpecAdmins == InitAdmins /\ [][NextAdmins]_varsAdmins

-----------------------------------------------------------------------------
(* Properties *)

\* "L'agent désigné responsable est rattaché au point qu'il pilote", once no request is
\* moving him, two requests at once and a second designation aside.
ResponsableRattache ==
    \A p \in Points :
        LET a == responsable[p]
        IN a # Vacant /\ a \notin croises \cup UNION {Deplaces(r) : r \in Gestes} => point[a] = p

\* "Impossible de modifier le dernier super administrateur actif": requests that do not
\* overlap leave one, whoever they promote, demote, deactivate or reactivate; two that
\* overlap may leave none.
ResteUnSuperAdmin == ~recoupes => SuperActifs # {}

\* Who is in charge of a point is attached to it, and a super administrator remains.
EquipeTenue == ResponsableRattache /\ ResteUnSuperAdmin
=============================================================================
