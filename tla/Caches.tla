------------------------------- MODULE Caches -------------------------------
(***************************************************************************)
(* What each process keeps in memory of a table, for a while: the system   *)
(* parameters (chargerTous), the public questions (memoiser) and the       *)
(* customised e-mails (chargerModelesPersonnalises).  A write invalidates  *)
(* the entry of the process that makes it, and no other; a load that read  *)
(* the table before a write may store what it read after the invalidation. *)
(*                                                                         *)
(* The table is a version number; time passes in units, and a load lasts   *)
(* DureeMax at most.  Requests that join the load in flight of memoiser    *)
(* receive what it read, they have no state of their own.                  *)
(***************************************************************************)
EXTENDS Integers, TLC

CONSTANTS
    Processus,
    Lectures,      \* requests of a process that may load together
    Genres,        \* caches studied, among "parametres", "faq", "modeles"
    TTL,           \* how long an entry lives
    DureePanne,    \* how long a failed load of the e-mails is remembered
    DureeMax,      \* bound on the time between the query of a load and its end
    EcrituresMax,  \* bound on the writes
    SansEntree     \* no entry, no load, no version

\* What the model takes of its constants.
HypothesesCaches ==
    /\ Genres \subseteq {"parametres", "faq", "modeles"}
    /\ TTL \in Nat /\ DureePanne \in 1 .. TTL /\ DureeMax \in Nat /\ EcrituresMax \in Nat

VARIABLES
    genre,       \* the cache that is studied
    version,     \* of the table
    remplacee,   \* per version: time since it was replaced, up to EcartMax + 1
    entree,      \* per process: its entry, or SansEntree
    charges,     \* per process and request: the load in flight, or SansEntree
    ecrite,      \* per process: the version it last wrote, or SansEntree, before it invalidates
    invalidee    \* per process: the version it had written when it last invalidated

varsCaches == <<genre, version, remplacee, entree, charges, ecrite, invalidee>>

EcartMax == TTL + DureeMax
Repli == -1   \* the values of the code, when the table cannot be read

InitCaches ==
    /\ genre \in Genres
    /\ version = 0
    /\ remplacee = [v \in 0 .. EcrituresMax |-> 0]
    /\ entree = [p \in Processus |-> SansEntree]
    /\ charges = [p \in Processus |-> [l \in Lectures |-> SansEntree]]
    /\ ecrite = [p \in Processus |-> SansEntree]
    /\ invalidee = [p \in Processus |-> 0]

\* Variant: an entry is served whatever its age.
VivanteSansEcheance(e) == e # SansEntree

\* get: an entry past its date is not served.
Vivante(e) == e # SansEntree /\ e.reste > 0

ChargesEnVol(p) == {l \in Lectures : charges[p][l] # SansEntree}

\* The query of a load; memoiser makes one at a time.
Charger(p, l) ==
    /\ charges[p][l] = SansEntree /\ ~Vivante(entree[p])
    /\ genre = "faq" => ChargesEnVol(p) = {}
    /\ charges' = [charges EXCEPT ![p][l] = [lu |-> version, duree |-> 0, croise |-> FALSE]]
    /\ UNCHANGED <<genre, version, remplacee, entree, ecrite, invalidee>>

Entree(valeur, reste, croise) == [valeur |-> valeur, reste |-> reste, croise |-> croise]

\* set
Memoriser(p, l) ==
    LET c == charges[p][l]
    IN /\ c # SansEntree
       /\ entree' = [entree EXCEPT ![p] = Entree(c.lu, TTL, c.croise)]
       /\ charges' = [charges EXCEPT ![p][l] = SansEntree]
       /\ UNCHANGED <<genre, version, remplacee, ecrite, invalidee>>

\* The table cannot be read: only the e-mails remember it, and for a shorter time.
EchouerChargement(p, l) ==
    /\ charges[p][l] # SansEntree
    /\ entree' = IF genre = "modeles" THEN [entree EXCEPT ![p] = Entree(Repli, DureePanne, FALSE)]
                 ELSE entree
    /\ charges' = [charges EXCEPT ![p][l] = SansEntree]
    /\ UNCHANGED <<genre, version, remplacee, ecrite, invalidee>>

\* The row is written; then, when the answer of the database comes, the entry is dropped.
Ecrire(p) ==
    /\ version < EcrituresMax /\ ecrite[p] = SansEntree
    /\ version' = version + 1
    /\ ecrite' = [ecrite EXCEPT ![p] = version + 1]
    /\ UNCHANGED <<genre, remplacee, entree, charges, invalidee>>

\* Variant: the entry is dropped by its reader alone, when it is past its date.
EntreeGardee(p) == entree[p]

\* invaliderCache, del
EntreeInvalidee(p) == SansEntree

Invalider(p) ==
    /\ ecrite[p] # SansEntree
    /\ entree' = [entree EXCEPT ![p] = EntreeInvalidee(p)]
    /\ charges' = [charges EXCEPT ![p] = [l \in Lectures |->
                      IF @[l] = SansEntree THEN SansEntree ELSE [@[l] EXCEPT !.croise = TRUE]]]
    /\ ecrite' = [ecrite EXCEPT ![p] = SansEntree]
    /\ invalidee' = [invalidee EXCEPT ![p] = ecrite[p]]
    /\ UNCHANGED <<genre, version, remplacee>>

Vieillir(e) == IF Vivante(e) THEN [e EXCEPT !.reste = @ - 1] ELSE SansEntree

AvancerHorloge ==
    /\ \A p \in Processus : \A l \in ChargesEnVol(p) : charges[p][l].duree < DureeMax
    /\ entree' = [p \in Processus |-> Vieillir(entree[p])]
    /\ charges' = [p \in Processus |-> [l \in Lectures |->
          IF charges[p][l] = SansEntree THEN SansEntree
          ELSE [charges[p][l] EXCEPT !.duree = @ + 1]]]
    /\ remplacee' = [v \in 0 .. EcrituresMax |->
          IF v < version /\ remplacee[v] <= EcartMax THEN remplacee[v] + 1 ELSE remplacee[v]]
    /\ UNCHANGED <<genre, version, ecrite, invalidee>>

\* The process stops: it starts again with nothing in memory.
RedemarrerProcessus(p) ==
    /\ entree' = [entree EXCEPT ![p] = SansEntree]
    /\ charges' = [charges EXCEPT ![p] = [l \in Lectures |-> SansEntree]]
    /\ ecrite' = [ecrite EXCEPT ![p] = SansEntree]
    /\ UNCHANGED <<genre, version, remplacee, invalidee>>

NextCaches ==
    \/ AvancerHorloge
    \/ \E p \in Processus :
          \/ Ecrire(p) \/ Invalider(p) \/ RedemarrerProcessus(p)
          \/ \E l \in Lectures : Charger(p, l) \/ Memoriser(p, l) \/ EchouerChargement(p, l)

SpecCaches == InitCaches /\ [][NextCaches]_varsCaches

-----------------------------------------------------------------------------
(* Properties *)

\* "Les TTL sont donc courts pour borner l'écart entre processus": whoever writes, and however
\* loads and invalidations cross, no process serves what was replaced more than a TTL and the
\* time of a load ago; and a process serves nothing older than its own last write, unless the
\* load was already in flight when the entry was invalidated.
CacheFidele ==
    \A p \in Processus :
        Vivante(entree[p]) /\ entree[p].valeur # Repli =>
            /\ remplacee[entree[p].valeur] <= EcartMax
            /\ entree[p].croise \/ entree[p].valeur >= invalidee[p]
=============================================================================
