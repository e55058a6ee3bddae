------------------------------- MODULE Compte -------------------------------
(***************************************************************************)
(* What belongs to one client: his address book (adresse.service.js), and  *)
(* the deletion of his account (compte.service.js), which he asks for when *)
(* connected or which an administrator grants on a public request.         *)
(*                                                                         *)
(* A request is authenticated, reads, and writes later in a transaction;   *)
(* inside it the rows it updated are locked, and what it inserted is not   *)
(* seen by the others.  A row inserted for the client waits for, or makes  *)
(* wait, the deletion, which locks the account: the foreign key locks it   *)
(* too.  The fields of an address other than its type and its flag are     *)
(* left out, and so are the files of the account.                          *)
(***************************************************************************)
EXTENDS FiniteSets, Naturals

CONSTANTS
    Requetes,          \* requests in flight
    Adresses,          \* identities of addresses
    Types,             \* types of an address
    Expeditions,       \* parcels of the client
    LIMITE_ADRESSES,   \* length of the address book
    SansAdresse        \* no row

\* What the model takes of its constants.
HypothesesCompte ==
    LIMITE_ADRESSES \in Nat /\ SansAdresse \notin [type : Types, parDefaut : BOOLEAN]

VARIABLES
    compte,      \* actif, or supprime
    adresses,    \* per address: its row, or SansAdresse
    expeditions, \* per parcel: absent, en_cours, termine
    demande,     \* the public request: absente, en_attente, traitee, rejetee
    requetes,    \* per request: what it does, or SansRequete
    attardees,   \* auxiliary: rows written for a request authenticated before the deletion
    croisees     \* auxiliary: two requests on the address book overlapped, or one of them
                 \* changed the type of a default address

donnees == <<compte, adresses, expeditions, demande>>
varsCompte == <<donnees, requetes, attardees, croisees>>

SansRequete == [etape |-> "libre"]
Adresse(type, parDefaut) == [type |-> type, parDefaut |-> parDefaut]
Enregistrees == {a \in Adresses : adresses[a] # SansAdresse}
ParDefaut(type) == {a \in Enregistrees : adresses[a].type = type /\ adresses[a].parDefaut}

Phase(r, etape) == requetes[r].etape = etape
Avancer(r, suite) == requetes' = [requetes EXCEPT ![r] = suite]

InitCompte ==
    /\ compte = "actif" /\ demande = "absente"
    /\ adresses = [a \in Adresses |-> SansAdresse]
    /\ expeditions = [c \in Expeditions |-> "absent"]
    /\ requetes = [r \in Requetes |-> SansRequete]
    /\ attardees = {}
    /\ croisees = FALSE

-----------------------------------------------------------------------------
(* The address book *)

\* Transactions on the address book, and what they hold: the row they write, and those they
\* take the flag from.
EnVol == {r \in Requetes : requetes[r].etape \in {"lue", "ouverte", "declassee"}}
Ouvertes == {r \in EnVol : ~Phase(r, "lue")}
Tenues(r) == requetes[r].tenues
Attendues(r, S) == \E q \in Ouvertes \ {r} : Tenues(q) \cap S # {}

\* A new row takes an identity that nobody has.
Libres == {a \in Adresses \ Enregistrees : \A r \in EnVol : requetes[r].id # a}

Colonnes == {"type", "parDefaut"}

LireCreation(r, a, type, parDefaut) ==
    /\ requetes[r] = SansRequete /\ compte = "actif" /\ a \in Libres
    /\ Cardinality(Enregistrees) < LIMITE_ADRESSES
    /\ Avancer(r, [etape |-> "lue", id |-> a, nouvelle |-> TRUE, tenues |-> {},
                   voulue |-> Adresse(type, parDefaut), ecrites |-> Colonnes, promue |-> parDefaut])
    /\ croisees' = (croisees \/ EnVol # {})
    /\ UNCHANGED <<donnees, attardees>>

\* modifierAdresse: a type, a flag, both or neither may be given, and the columns that differ
\* from the row read are written.  definirParDefaut is the case of the flag alone.
LireModification(r, a, type, drapeau) ==
    LET lue == adresses[a]
        parDefaut == IF drapeau = "inchange" THEN lue.parDefaut ELSE drapeau = "pose"
        ecrites == {c \in Colonnes : \/ c = "type" /\ type # lue.type
                                     \/ c = "parDefaut" /\ parDefaut # lue.parDefaut}
    IN /\ requetes[r] = SansRequete /\ compte = "actif" /\ a \in Enregistrees
       /\ Avancer(r, [etape |-> "lue", id |-> a, nouvelle |-> FALSE, tenues |-> {},
                      voulue |-> Adresse(type, parDefaut), ecrites |-> ecrites,
                      promue |-> drapeau = "pose"])
       /\ croisees' = (croisees \/ EnVol # {} \/ (lue.parDefaut /\ type # lue.type))
       /\ UNCHANGED <<donnees, attardees>>

\* The row is inserted, or updated if a column changes; it waits for those who hold it.
Ouvrir(r) ==
    LET q == requetes[r]
        D == IF q.ecrites = {} THEN {} ELSE {q.id}
    IN /\ Phase(r, "lue") /\ ~Attendues(r, D)
       /\ Avancer(r, [q EXCEPT !.etape = "ouverte", !.tenues = D])
       /\ UNCHANGED <<donnees, attardees, croisees>>

\* Variant: the addresses of every type lose the flag.
ADeclasserTous(r) == Enregistrees \ {requetes[r].id}

\* appliquerParDefaut: the other rows of the type that are committed.
ADeclasser(r) ==
    {a \in Enregistrees \ {requetes[r].id} : adresses[a].type = requetes[r].voulue.type}

Declasser(r) ==
    LET q == requetes[r]
        D == IF q.promue THEN ADeclasser(r) ELSE {}
    IN /\ Phase(r, "ouverte") /\ ~Attendues(r, D)
       /\ Avancer(r, [q EXCEPT !.etape = "declassee", !.tenues = q.tenues \cup D])
       /\ UNCHANGED <<donnees, attardees, croisees>>

\* Two transactions that wait for each other: the database cancels one.
InterrompreAdresse(r) ==
    /\ Phase(r, "ouverte") /\ requetes[r].promue
    /\ \E q \in Ouvertes \ {r} :
          /\ Tenues(q) \cap ADeclasser(r) # {}
          /\ Phase(q, "ouverte") /\ requetes[q].promue /\ Tenues(r) \cap ADeclasser(q) # {}
    /\ Avancer(r, SansRequete)
    /\ UNCHANGED <<donnees, attardees, croisees>>

\* The row that a transaction leaves, of the one it finds; a row deleted since it was read is
\* not created again.
Ecrite(q, ligne) ==
    Adresse(IF "type" \in q.ecrites THEN q.voulue.type ELSE ligne.type,
            IF "parDefaut" \in q.ecrites THEN q.voulue.parDefaut ELSE ligne.parDefaut)

Laissee(q, a) ==
    CASE a = q.id /\ (q.nouvelle \/ adresses[a] # SansAdresse) -> Ecrite(q, adresses[a])
      [] a # q.id /\ a \in q.tenues /\ adresses[a] # SansAdresse -> Adresse(adresses[a].type, FALSE)
      [] OTHER -> adresses[a]

ValiderAdresse(r) ==
    LET q == requetes[r]
    IN /\ Phase(r, "declassee")
       /\ adresses' = [a \in Adresses |-> Laissee(q, a)]
       /\ attardees' = IF q.nouvelle /\ compte = "supprime" THEN attardees \cup {q.id} ELSE attardees
       /\ Avancer(r, SansRequete)
       /\ UNCHANGED <<compte, expeditions, demande, croisees>>

SupprimerAdresse(a) ==
    /\ compte = "actif" /\ a \in Enregistrees
    /\ \A q \in Ouvertes : a \notin Tenues(q)
    /\ adresses' = [adresses EXCEPT ![a] = SansAdresse]
    /\ UNCHANGED <<compte, expeditions, demande, requetes, attardees, croisees>>

-----------------------------------------------------------------------------
(* The parcels *)

LireExpedition(r, c) ==
    /\ requetes[r] = SansRequete /\ compte = "actif" /\ expeditions[c] = "absent"
    /\ Avancer(r, [etape |-> "declaree", id |-> c])
    /\ UNCHANGED <<donnees, attardees, croisees>>

InscrireExpedition(r) ==
    LET c == requetes[r].id
    IN /\ Phase(r, "declaree")
       /\ expeditions' = [expeditions EXCEPT ![c] = IF @ = "absent" THEN "en_cours" ELSE @]
       /\ attardees' = IF compte = "supprime" THEN attardees \cup {c} ELSE attardees
       /\ Avancer(r, SansRequete)
       /\ UNCHANGED <<compte, adresses, demande, croisees>>

Terminer(c) ==
    /\ expeditions[c] = "en_cours" /\ expeditions' = [expeditions EXCEPT ![c] = "termine"]
    /\ UNCHANGED <<compte, adresses, demande, requetes, attardees, croisees>>

-----------------------------------------------------------------------------
(* The deletion of the account *)

\* Variant: the parcels are counted without looking at their state.
AucunEnCoursSansStatut == TRUE

\* Counted once the account is locked.
AucunEnCours == \A c \in Expeditions : expeditions[c] # "en_cours"

\* Addresses inserted and not committed hold the account; the rows it destroys are waited for.
Pseudonymiser ==
    /\ compte = "actif" /\ AucunEnCours /\ \A r \in Ouvertes : Tenues(r) = {}
    /\ compte' = "supprime"
    /\ adresses' = [a \in Adresses |-> SansAdresse]
    /\ UNCHANGED expeditions

SupprimerMonCompte ==
    /\ Pseudonymiser
    /\ UNCHANGED <<demande, requetes, attardees, croisees>>

DeposerDemande ==
    /\ demande = "absente" /\ demande' = "en_attente"
    /\ UNCHANGED <<compte, adresses, expeditions, requetes, attardees, croisees>>

\* traiterDemande reads the request, and looks for an account that still has its e-mail.
LireDemandeSuppression(r, statut) ==
    /\ requetes[r] = SansRequete /\ demande = "en_attente"
    /\ Avancer(r, [etape |-> IF statut = "traitee" /\ compte = "actif" THEN "accordee" ELSE "ecrite",
                  statut |-> statut])
    /\ UNCHANGED <<donnees, attardees, croisees>>

\* A deletion that is refused, or already made, refuses the treatment too.
Accorder(r) ==
    /\ Phase(r, "accordee")
    /\ \/ Pseudonymiser /\ Avancer(r, [requetes[r] EXCEPT !.etape = "ecrite"])
       \/ /\ ~AucunEnCours \/ compte = "supprime"
          /\ Avancer(r, SansRequete) /\ UNCHANGED <<compte, adresses, expeditions>>
    /\ UNCHANGED <<demande, attardees, croisees>>

EcrireDemande(r) ==
    /\ Phase(r, "ecrite")
    /\ demande' = requetes[r].statut
    /\ Avancer(r, SansRequete)
    /\ UNCHANGED <<compte, adresses, expeditions, attardees, croisees>>

\* The flag of an address that is modified is set, taken back, or not given.
Drapeaux == {"pose", "retire", "inchange"}

NextCompte ==
    \/ \E r \in Requetes :
          \/ \E a \in Adresses, type \in Types, d \in BOOLEAN : LireCreation(r, a, type, d)
          \/ \E a \in Adresses, type \in Types, drapeau \in Drapeaux :
                LireModification(r, a, type, drapeau)
          \/ Ouvrir(r) \/ Declasser(r) \/ InterrompreAdresse(r) \/ ValiderAdresse(r)
          \/ \E c \in Expeditions : LireExpedition(r, c)
          \/ InscrireExpedition(r)
          \/ \E statut \in {"traitee", "rejetee"} : LireDemandeSuppression(r, statut)
          \/ Accorder(r) \/ EcrireDemande(r)
    \/ \E a \in Adresses : SupprimerAdresse(a)
    \/ \E c \in Expeditions : Terminer(c)
    \/ SupprimerMonCompte \/ DeposerDemande

SpecCompte == InitCompte /\ [][NextCompte]_varsCompte

-----------------------------------------------------------------------------
(* Properties *)

\* A deleted account keeps no address and has no parcel under way, but for what a request
\* authenticated before the deletion wrote after it; and so long as transactions on the
\* address book do not overlap, and a default address keeps its type, each type has one
\* default address at most, whatever is created, changed and removed.
CompteEfface ==
    /\ compte = "supprime" =>
          /\ Enregistrees \subseteq attardees
          /\ \A c \in Expeditions : expeditions[c] = "en_cours" => c \in attardees
    /\ ~croisees => \A type \in Types : Cardinality(ParDefaut(type)) <= 1

\* "Une seule adresse par défaut et par type : la précédente est déclassée."
ParDefautUnique == \A type \in Types : Cardinality(ParDefaut(type)) <= 1
=============================================================================
